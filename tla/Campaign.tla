------------------------------- MODULE Campaign -------------------------------
(***************************************************************************)
(* A run of the program from its first check to its last log line: the     *)
(* campaign (run_campaign), one live transaction (execute_run) and the     *)
(* simulated fault demo, the last two with or without the dashboard.       *)
(* One task runs the attempt loop, the executor and the log; another       *)
(* ingests the stream; the main task renders the dashboard and joins.      *)
(*                                                                         *)
(* Left to Submission: the chain, the timers of the confirm loop and the   *)
(* way a send is lost.  Here a bundle that is followed may be seen to land *)
(* in any slot and the wait for it may end at any time.  Left to Pricing:  *)
(* tips, of which only "too low to build" matters here.  Block heights are *)
(* abstracted to whether the chain has passed the window of a blockhash.   *)
(* The counters of the closing summary are left out.                       *)
(*                                                                         *)
(* The signature of an attempt is its attempt id.  A step is what runs     *)
(* between two awaits or two acquisitions of a mutex.                      *)
(***************************************************************************)
EXTENDS TrackerOps, SequencesExt

CONSTANTS
    Count,         \* --count: logical transactions of a campaign
    Starve,        \* --starve: how many of them, the first ones, are starved
    MaxRetries,    \* config.agent.max_retries
    SendErrors     \* the classes classify_failure gives the errors of a send

ASSUME CountAssumption  == Count \in Nat \ {0} /\ Starve \in 0 .. Count
ASSUME RetryAssumption  == MaxRetries \in Nat \ {0}
ASSUME SigsAreAttempts  == Sigs = 1 .. Count * MaxRetries
ASSUME ErrorsAssumption == SendErrors \subseteq FailureClass
ASSUME SomeHeight       == Heights # {}

VARIABLES
    \* what was started: "campaign", "live" or "demo"; "heuristic" or "gemini"
    mode, decider,
    \* the run: the await it is at, transaction, attempt ids used and used before the transaction
    pc, txn, attempt, first,
    \* the attempt loop: retries, last failure, what the context says of expiry, the last outcome
    retries, lastFailure, expired, result,
    \* the executor: cached blockhash, armed fault; whether the last fetch of a hash failed
    cache, inject, refreshFailed,
    \* the tracker, the drained records not yet written, the file, and a partial last line
    tracker, pending, log, torn,
    \* how each transaction ended
    final,
    \* the dashboard's rows and the task that renders them
    rows, ui

started  == <<mode, decider>>
loopVars == <<retries, lastFailure, expired, result>>
hashVars == <<cache, inject, refreshFailed>>
fileVars == <<pending, log, torn>>
vars     == <<started, pc, txn, attempt, first, loopVars, hashVars, tracker, fileVars, final, rows, ui>>

Txns    == 1 .. Count
Actions == {"Submit", "Hold", "RefreshAndResubmit", "Abort"}

\* A fetched blockhash: the transaction it was fetched for, whether a bundle was signed with it.
Hash     == [txn : Txns, used : BOOLEAN, forced : BOOLEAN]
Fetched  == [txn |-> txn, used |-> FALSE, forced |-> FALSE]
Lvbh     == CHOOSE h \in Heights : TRUE

ASSUME NoneIsNoHash == None \notin Hash

LandedAt(slot) == [landed |-> TRUE, slot |-> slot]
FailedWith(c)  == [landed |-> FALSE, class |-> c]
Outcome        == {LandedAt(s) : s \in Slots} \cup {FailedWith(c) : c \in FailureClass}

Ended == pc \in {"done", "error", "dropped"}

Transactions == IF mode = "campaign" THEN Count ELSE 1
Starving     == mode = "campaign" /\ txn <= Starve
Budget       == IF Starving THEN 0 ELSE MaxRetries

\* With a Gemini key, or without one.
Deciders == {"gemini", "heuristic"}

\* With the dashboard; without it, or with no terminal to draw it on.
Dashboards == {"none", "drawing"}

\* The fault demo starts with the fault armed and nothing to check.
StartDemo ==
    /\ mode = "demo" /\ pc = "context" /\ inject = TRUE
    /\ ui \in Dashboards

\* A live run; with the dashboard, or as a campaign of one transaction or more.
StartLive ==
    /\ mode \in {"campaign", "live"} /\ pc = "preflight" /\ inject = FALSE
    /\ ui \in IF mode = "campaign" THEN {"none"} ELSE Dashboards

Init ==
    /\ StartDemo \/ StartLive
    /\ decider \in Deciders
    /\ txn = 1 /\ attempt = 0 /\ first = 0
    /\ retries = 0 /\ lastFailure = None /\ expired = FALSE /\ result = None
    /\ cache = None /\ refreshFailed = FALSE
    /\ tracker = EmptyTracker
    /\ pending = <<>> /\ log = <<>> /\ torn \in BOOLEAN
    /\ final = [t \in Txns |-> None]
    /\ rows = [a \in {} |-> None]

-------------------------------------------------------------------------------
(* Before the first transaction, and before each one of a campaign.        *)

Goto(next) ==
    /\ pc' = next
    /\ UNCHANGED <<started, txn, attempt, first, loopVars, hashVars, tracker, fileVars, final, rows, ui>>

\* The fee payer is funded for a full cycle of attempts, or the run is refused.
Preflight ==
    /\ pc = "preflight"
    /\ Goto(IF mode = "campaign" THEN "open" ELSE "context") \/ Goto("error")

\* LifecycleLog::open: a campaign opens its log first, a single run after its flush.
OpenLog ==
    /\ pc = "open"
    /\ Goto(IF mode = "campaign" THEN "begin" ELSE "drain") \/ Goto("error")

\* A fresh blockhash per transaction; if it cannot be had the cached one stays.
Begin ==
    /\ pc = "begin"
    /\ pc' = "context"
    /\ \/ cache' = Fetched /\ refreshFailed' = FALSE
       \/ cache' = cache /\ refreshFailed' = TRUE
    /\ UNCHANGED <<started, txn, attempt, first, loopVars, inject, tracker, fileVars, final, rows, ui>>

-------------------------------------------------------------------------------
(* run_attempt_loop.                                                       *)

\* is_expired; an unknown height (0) is past no window, a simulated one stays within it.
MaySeemExpired == IF mode = "demo" THEN {FALSE} ELSE BOOLEAN

BuildContext ==
    /\ pc = "context"
    /\ pc' = "decide"
    /\ expired' \in IF inject \/ (cache # None /\ cache.forced) THEN {TRUE}
                    ELSE IF cache = None THEN {FALSE} ELSE MaySeemExpired
    /\ UNCHANGED <<started, txn, attempt, first, retries, lastFailure, result, hashVars, tracker,
                   fileVars, final, rows, ui>>

Recoverable == {"ExpiredBlockhash", "FeeTooLow", "BundleFailure"}

\* Mutant: a recoverable failure is resubmitted as it is.
HeuristicKeepsHash ==
    IF retries >= MaxRetries THEN "Abort"
    ELSE IF retries = 0 THEN "Submit"
    ELSE IF expired THEN "RefreshAndResubmit"
    ELSE IF lastFailure \in Recoverable THEN "Submit"
    ELSE "Abort"

HeuristicAction ==
    IF retries >= MaxRetries THEN "Abort"
    ELSE IF retries = 0 THEN "Submit"
    ELSE IF expired \/ lastFailure \in Recoverable THEN "RefreshAndResubmit"
    ELSE "Abort"

\* What parse_decision makes of an answer; None where it makes an error of it.
ModelActions == Actions \cup {None}

\* Mutants: one retry too many; the guard counts from the profile's budget.
ChosenLate ==
    IF retries > 0 /\ retries > Budget THEN {"Abort"}
    ELSE IF decider = "heuristic" THEN {HeuristicAction} ELSE ModelActions

ChosenUnbudgeted ==
    IF retries > 0 /\ retries >= MaxRetries THEN {"Abort"}
    ELSE IF decider = "heuristic" THEN {HeuristicAction} ELSE ModelActions

\* BudgetDecider before the decider; the model may choose anything, or fail (None).
Chosen ==
    IF retries > 0 /\ retries >= Budget THEN {"Abort"}
    ELSE IF decider = "heuristic" THEN {HeuristicAction} ELSE ModelActions

Finish(how) ==
    /\ final' = [final EXCEPT ![txn] = [how |-> how, attempt |-> attempt]]
    /\ pc' = "flush"

\* Mutant: after Hold the loop samples the conditions again.
DecideHolding ==
    /\ pc = "decide"
    /\ \E action \in Chosen :
        \/ action = "Hold" /\ pc' = "context" /\ final' = final
        \/ action = "Abort" /\ Finish("aborted")
        \/ /\ action \in {"RefreshAndResubmit", "Submit", None}
           /\ pc' = CASE action = "Submit" -> "submit" [] action = None -> "error" [] OTHER -> "refresh"
           /\ final' = final
    /\ UNCHANGED <<started, txn, attempt, first, loopVars, hashVars, tracker, fileVars, rows, ui>>

Decide ==
    /\ pc = "decide"
    /\ \E action \in Chosen :
        \/ action = "Hold" /\ Finish("held")
        \/ action = "Abort" /\ Finish("aborted")
        \/ /\ action \in {"RefreshAndResubmit", "Submit", None}
           /\ pc' = CASE action = "Submit" -> "submit" [] action = None -> "error" [] OTHER -> "refresh"
           /\ final' = final
    /\ UNCHANGED <<started, txn, attempt, first, loopVars, hashVars, tracker, fileVars, rows, ui>>

\* A simulated fetch cannot fail.
Refresh ==
    /\ pc = "refresh"
    /\ \/ pc' = "submit" /\ cache' = Fetched /\ refreshFailed' = FALSE
       \/ mode # "demo" /\ pc' = "error" /\ UNCHANGED <<cache, refreshFailed>>
    /\ UNCHANGED <<started, txn, attempt, first, loopVars, inject, tracker, fileVars, final, rows, ui>>

-------------------------------------------------------------------------------
(* LiveExecutor::submit.                                                   *)

Row == [stage : {Submitted, Failed} \cup Levels, slot : Opt(Slots), failure : Opt(FailureClass)]

\* row_from_record: the furthest stage observed, or failed.
RowOf(rec) ==
    [stage   |-> IF rec.failure # None THEN Failed ELSE rec.events[Len(rec.events)].stage,
     slot    |-> rec.landed_slot,
     failure |-> rec.failure]

Upsert(a, row) ==
    IF ui = "none" THEN rows
    ELSE [b \in {a} \cup DOMAIN rows |-> IF b = a THEN row ELSE rows[b]]

SubmittedRow == [stage |-> Submitted, slot |-> None, failure |-> None]

\* The landing made up for the demo: transaction, confirmed and finalized slot at once.
Simulated(tr, sig, slot) ==
    OnSlotCommitment(
        CHOOSE t \in OnSlotCommitment(OnTransaction(tr, sig, slot, FALSE), slot, Confirmed) : TRUE,
        slot, Finalized)

\* ensure_blockhash: a cached blockhash is used whatever its age.
HashToSign == IF cache = None THEN Fetched ELSE cache

\* The id is taken before anything can fail.
Take ==
    /\ pc = "submit"
    /\ attempt' = attempt + 1

\* The blockhash is there, and a bundle is signed with it.
Sign ==
    /\ Take
    /\ cache' = [HashToSign EXCEPT !.used = TRUE]

\* No blockhash, or a tip below the builder's minimum, which only a model names.
SubmitFails ==
    /\ (mode # "demo" /\ cache = None) \/ decider = "gemini"
    /\ Take
    /\ pc' = "error"
    /\ UNCHANGED <<started, txn, first, loopVars, hashVars, tracker, fileVars, final, rows, ui>>

Opened == Track(tracker, NewRecord(attempt + 1, Lvbh))

\* Mutant: the fault is consumed and the hash is left as it was.
InjectExpiryFresh ==
    /\ inject
    /\ Sign
    /\ inject' = FALSE
    /\ tracker' = Fail(Opened, attempt + 1, "Unknown")
    /\ result' = FailedWith("Unknown")
    /\ pc' = "note"
    /\ UNCHANGED <<started, txn, first, retries, lastFailure, expired, refreshFailed, fileVars,
                   final, rows, ui>>

\* The injected fault: nothing is sent, the attempt fails as expired.
InjectExpiry ==
    /\ inject
    /\ Take /\ cache' = [HashToSign EXCEPT !.used = TRUE, !.forced = TRUE]
    /\ inject' = FALSE
    /\ tracker' = Fail(Opened, attempt + 1, "ExpiredBlockhash")
    /\ result' = FailedWith("ExpiredBlockhash")
    /\ pc' = "note"
    /\ UNCHANGED <<started, txn, first, retries, lastFailure, expired, refreshFailed, fileVars,
                   final, rows, ui>>

SubmitSimulated ==
    /\ mode = "demo" /\ ~ inject
    /\ Sign
    /\ \E slot \in Slots :
        /\ tracker' \in Simulated(Opened, attempt + 1, slot)
        /\ result' = LandedAt(slot)
    /\ rows' = Upsert(attempt + 1, SubmittedRow)
    /\ pc' = "note"
    /\ UNCHANGED <<started, txn, first, retries, lastFailure, expired, inject, refreshFailed,
                   fileVars, final, ui>>

SubmitLive ==
    /\ mode # "demo"
    /\ Sign
    /\ pc' = "send"
    /\ UNCHANGED <<started, txn, first, loopVars, inject, refreshFailed, tracker, fileVars, final,
                   rows, ui>>

-------------------------------------------------------------------------------
(* submit_live.                                                            *)

\* What the send returns, of the block engine or of Sender.
SendResults == {"receipt", "error"}

\* The record is opened either way.
Send ==
    /\ pc = "send"
    /\ tracker' = Track(tracker, NewRecord(attempt, Lvbh))
    /\ \E got \in SendResults :
        /\ pc' = IF got = "receipt" THEN "confirm" ELSE "unsent"
        /\ rows' = IF got = "receipt" THEN Upsert(attempt, SubmittedRow) ELSE rows
    /\ UNCHANGED <<started, txn, attempt, first, loopVars, hashVars, fileVars, final, ui>>

\* mark_failed: after an error of the send, a failed Jito status, or the confirm timeout.
Close ==
    /\ \E class \in FailureClass :
        /\ \/ pc = "unsent" /\ class \in SendErrors
           \/ pc = "confirm" /\ class \in {"BundleFailure", "ExpiredBlockhash"}
        /\ tracker' = Fail(tracker, attempt, class)
        /\ result' = FailedWith(class)
    /\ pc' = "note"
    /\ UNCHANGED <<started, txn, attempt, first, retries, lastFailure, expired, hashVars, fileVars,
                   final, rows, ui>>

\* completed_outcome: the tracker has closed the bundle.
SeeOutcome ==
    /\ pc = "confirm"
    /\ LET done == CompletedOutcome(tracker, attempt)
       IN  /\ done # None
           /\ result' = IF done.failed THEN FailedWith(done.class) ELSE LandedAt(done.slot)
    /\ pc' = "note"
    /\ UNCHANGED <<started, txn, attempt, first, retries, lastFailure, expired, hashVars, tracker,
                   fileVars, final, rows, ui>>

\* active_progress: confirmed is landed; the row is left as it is.
SeeConfirmed ==
    /\ pc = "confirm"
    /\ LET p == ActiveProgress(tracker, attempt)
       IN  p # None /\ p[2] # None /\ p[1] >= Confirmed
    /\ Finish("landed")
    /\ UNCHANGED <<started, txn, attempt, first, loopVars, hashVars, tracker, fileVars, rows, ui>>

\* Mutant: the row shows the first record since the last drain.
NotedRowsFirst ==
    IF tracker.completed = <<>> THEN rows
    ELSE Upsert(attempt, RowOf(Head(tracker.completed)))

\* dash_note_last_completed: the row is that of the last record completed.
NotedRows ==
    IF tracker.completed = <<>> THEN rows
    ELSE LET rec == Last(tracker.completed) IN Upsert(rec.signature, RowOf(rec))

\* The outcome reaches the loop: landed ends it, a failure is put to the decider.
Note ==
    /\ pc = "note"
    /\ rows' = NotedRows
    /\ result' = None
    /\ IF result.landed
       THEN Finish("landed") /\ UNCHANGED <<retries, lastFailure>>
       ELSE /\ retries' = retries + 1 /\ lastFailure' = result.class
            /\ pc' = "context" /\ final' = final
    /\ UNCHANGED <<started, txn, attempt, first, expired, hashVars, tracker, fileVars, ui>>

-------------------------------------------------------------------------------
(* The end of a transaction: settle, flush, drain, write.                  *)

\* The settle wait is the time spent here, with the stream still ingested.
FinalizePending ==
    /\ pc = "flush"
    /\ tracker' \in FlushActive(tracker)
    /\ pc' = IF mode = "campaign" THEN "drain" ELSE "open"
    /\ UNCHANGED <<started, txn, attempt, first, loopVars, hashVars, fileVars, final, rows, ui>>

DrainRecords ==
    /\ pc = "drain"
    /\ pending' = tracker.completed
    /\ tracker' = DrainCompleted(tracker)
    /\ pc' = "append"
    /\ UNCHANGED <<started, txn, attempt, first, loopVars, hashVars, log, torn, final, rows, ui>>

\* A line written after a partial one is glued to it.
Line(rec) == [record |-> rec, glued |-> torn]

\* Mutant: a record that could not be written is passed over.
AppendSkipping ==
    /\ pc = "append" /\ pending # <<>>
    /\ pending' = Tail(pending)
    /\ \/ log' = Append(log, Line(Head(pending))) /\ torn' = FALSE
       \/ log' = log /\ torn' = torn
    /\ UNCHANGED <<started, pc, txn, attempt, first, loopVars, hashVars, tracker, final, rows, ui>>

AppendRecord ==
    /\ pc = "append" /\ pending # <<>>
    /\ log' = Append(log, Line(Head(pending))) /\ torn' = FALSE
    /\ pending' = Tail(pending)
    /\ UNCHANGED <<started, pc, txn, attempt, first, loopVars, hashVars, tracker, final, rows, ui>>

\* Nothing, a part of the line, or all of it was written; `?` ends the run.
AppendFails ==
    /\ pc = "append" /\ pending # <<>>
    /\ \/ log' = log /\ torn' \in {torn, TRUE} /\ pending' = pending
       \/ log' = Append(log, Line(Head(pending))) /\ torn' = FALSE /\ pending' = Tail(pending)
    /\ pc' = "error"
    /\ UNCHANGED <<started, txn, attempt, first, loopVars, hashVars, tracker, final, rows, ui>>

NextTransaction ==
    /\ pc = "append" /\ pending = <<>>
    /\ IF txn < Transactions
       THEN /\ pc' = "begin" /\ txn' = txn + 1 /\ first' = attempt
            /\ retries' = 0 /\ lastFailure' = None /\ expired' = FALSE
       ELSE pc' = "done" /\ UNCHANGED <<txn, first, retries, lastFailure, expired>>
    /\ UNCHANGED <<started, attempt, result, hashVars, tracker, fileVars, final, rows, ui>>

-------------------------------------------------------------------------------
(* The ingest task, of a live run: late, in any order, again and again.    *)
(* What a transaction did does not change (Submission has the forks).      *)
Ingest ==
    /\ mode # "demo" /\ ~ Ended
    /\ \E slot \in Slots :
        \/ \E failed \in BOOLEAN, sig \in DOMAIN tracker.active :
                /\ failed => tracker.active[sig].record.landed_slot = None
                /\ tracker' = OnTransaction(tracker, sig, slot, failed)
        \/ \E level \in Levels : tracker' \in OnSlotCommitment(tracker, slot, level)
    /\ UNCHANGED <<started, pc, txn, attempt, first, loopVars, hashVars, fileVars, final, rows, ui>>

-------------------------------------------------------------------------------
(* The dashboard: run_demo_tui.                                            *)
Ui(next) ==
    /\ ui' = next
    /\ UNCHANGED <<started, txn, attempt, first, loopVars, hashVars, tracker, fileVars, final, rows>>

\* q or Esc, while the run goes on or after its last frame.
Quit == ui \in {"drawing", "finished"} /\ Ui("joining") /\ UNCHANGED pc

SeeFinished == ui = "drawing" /\ Ended /\ Ui("finished") /\ UNCHANGED pc

\* Mutant: the terminal is restored and the program left.
JoinAtOnce == ui = "joining" /\ Ui("left") /\ UNCHANGED pc

Join == ui = "joining" /\ Ended /\ Ui("left") /\ UNCHANGED pc

\* An error of the terminal leaves main without joining: the run is dropped where it is.
DrawFails ==
    /\ ui = "drawing"
    /\ Ui("broken")
    /\ pc' = IF Ended THEN pc ELSE "dropped"

-------------------------------------------------------------------------------
Run ==
    \/ Preflight \/ OpenLog \/ Begin
    \/ BuildContext \/ Decide \/ Refresh
    \/ SubmitFails \/ InjectExpiry \/ SubmitSimulated \/ SubmitLive
    \/ Send \/ Close \/ SeeOutcome \/ SeeConfirmed \/ Note
    \/ FinalizePending \/ DrainRecords \/ AppendRecord \/ AppendFails \/ NextTransaction

Next == Run \/ Ingest \/ Quit \/ SeeFinished \/ Join \/ DrawFails

Spec == Init /\ [][Next]_vars

(* The run's task is always run again, and its calls return; the dashboard *)
(* polls and joins.  Nobody has to press a key.                            *)
FairSpec == Spec /\ WF_vars(Run) /\ WF_vars(SeeFinished) /\ WF_vars(Join)

-------------------------------------------------------------------------------
(* Type correctness.                                                       *)
TypeOK ==
    /\ mode \in {"campaign", "live", "demo"} /\ decider \in Deciders
    /\ pc \in {"preflight", "open", "begin", "context", "decide", "refresh", "submit", "send",
               "unsent", "confirm", "note", "flush", "drain", "append", "done", "error", "dropped"}
    /\ txn \in Txns /\ attempt \in {0} \cup Sigs /\ first \in 0 .. attempt
    /\ retries \in 0 .. MaxRetries
    /\ lastFailure \in Opt(FailureClass) /\ expired \in BOOLEAN /\ result \in {None} \cup Outcome
    /\ cache \in {None} \cup Hash /\ inject \in BOOLEAN /\ refreshFailed \in BOOLEAN
    /\ IsTracker(tracker)
    /\ pending \in Seq(Record) /\ log \in Seq([record : Record, glued : BOOLEAN]) /\ torn \in BOOLEAN
    /\ \A t \in Txns : final[t] \in
            {None} \cup [how : {"landed", "held", "aborted"}, attempt : {0} \cup Sigs]
    /\ DOMAIN rows \subseteq Sigs /\ \A a \in DOMAIN rows : rows[a] \in Row
    /\ ui \in {"none", "drawing", "finished", "joining", "left", "broken"}

(* Whatever the decider and whatever fails, a starved transaction is tried *)
(* once and any other no more often than the profile's budget, which is    *)
(* within the cycle of attempts the preflight check reckons with.          *)
BudgetKept == attempt - first <= IF Starving THEN 1 ELSE MaxRetries

Written  == [i \in DOMAIN log |-> log[i].record]
Accounts == Written \o pending \o tracker.completed

(* The file is a prefix of the run: the records of the attempts, in order  *)
(* and without a gap, through a failing write too.  While the run goes on  *)
(* every attempt is accounted for once, written, drained, completed or     *)
(* followed; at its end all are written.  Only the first line can be       *)
(* unreadable, glued to what an earlier run left.                          *)
LogInOrder ==
    /\ \A i \in DOMAIN Accounts : Accounts[i].signature = i
    /\ \A i \in DOMAIN log : log[i].glued => i = 1
    /\ ~ Ended => \/ DOMAIN tracker.active = {} /\ Len(Accounts) = attempt - (IF pc = "send" THEN 1 ELSE 0)
                  \/ DOMAIN tracker.active = {attempt} /\ Len(Accounts) = attempt - 1
    /\ pc = "done" => Len(log) = attempt

(* A transaction reported as landed is in the log as landed, by the record *)
(* of its last attempt, once the run has gone past it: nothing the stream  *)
(* says during the settle wait, and no flush, turns it into a failure.     *)
LandedIsLogged ==
    \A t \in Txns :
        (final[t] # None /\ final[t].how = "landed" /\ (t < txn \/ pc = "done")) =>
            LET rec == Written[final[t].attempt] IN rec.failure = None /\ rec.landed_slot # None

(* A bundle is signed with a hash fetched for an earlier transaction only  *)
(* if this one's own refresh failed, and not after one succeeded on a      *)
(* retry, whatever was decided in between; no decision of the heuristic    *)
(* decider signs two attempts with one hash: only the first attempt after  *)
(* such a failed refresh can repeat one.                                   *)
SignsFreshHash ==
    [][ pc = "submit" /\ attempt' # attempt /\ pc' # "error" =>
            /\ cache'.txn = txn \/ refreshFailed
            /\ decider = "heuristic" =>
                  cache = None \/ ~ cache.used \/ (refreshFailed /\ retries = 0) ]_vars

(* The demo with the heuristic decider ends in exactly one recovery: an    *)
(* attempt failed by the injected expiry, then one that finalized, signed  *)
(* with a hash that is not the stale one.                                  *)
FaultRecovered ==
    (mode = "demo" /\ decider = "heuristic" /\ pc = "done" /\ MaxRetries >= 2) =>
        /\ Len(log) = 2
        /\ Written[1].failure = "ExpiredBlockhash"
        /\ RowOf(Written[2]).stage = Finalized
        /\ ~ cache.forced

(* The dashboard never shows an attempt as ended otherwise than its record *)
(* says, and shows it ended by the time the decider is consulted again.    *)
RowsTruthful ==
    \A a \in DOMAIN rows :
        /\ rows[a].stage # Submitted => a \in DOMAIN Accounts /\ rows[a] = RowOf(Accounts[a])
        /\ (pc \in {"context", "decide", "refresh", "submit"}) => rows[a].stage # Submitted

(* q during a run does not abandon it: the program is left in good order   *)
(* only after the run has ended, with its attempts in the log unless it    *)
(* ended in an error.                                                      *)
LeftAfterRun == ui = "left" => pc \in {"done", "error"} /\ (pc = "done" => Len(log) = attempt)

(* Every run ends, whatever the model decides and the stream withholds.    *)
RunEnds == <>Ended

-------------------------------------------------------------------------------
(* Of Hold the agent's documentation says: do nothing and re-evaluate on   *)
(* the next tick, which the caller drives.                                 *)
HeldIsReticked == \A t \in Txns : (final[t] # None /\ final[t].how = "held") ~> (final[t] = None)
===============================================================================
