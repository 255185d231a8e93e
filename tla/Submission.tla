------------------------------ MODULE Submission ------------------------------
(***************************************************************************)
(* One logical transaction of a campaign, from the agent's first decision  *)
(* to the log: run_attempt_loop and LiveExecutor::submit_live on one task, *)
(* the stream-ingest task on another, sharing the tracker behind a mutex.  *)
(* A step is what runs between two awaits or two acquisitions of that      *)
(* mutex, so stream updates fall between any two of them.                  *)
(*                                                                         *)
(* Outside the program, and modelled from how the code uses them: a chain  *)
(* that processes, confirms, finalizes and abandons slots; the block       *)
(* engine, which may accept a bundle and lose the answer; the Jito status  *)
(* service; the stream, which delivers what happened on chain late, out of *)
(* order, any number of times or not at all.  A block height is the number *)
(* of its slot.  The environment is followed until the run is over.        *)
(*                                                                         *)
(* An attempt's signature is its attempt id.  Time is counted in polls of  *)
(* the confirm loop.                                                       *)
(***************************************************************************)
EXTENDS TrackerOps

CONSTANTS
    MaxRetries,       \* the agent's retry budget
    MaxSlot,          \* bound: last slot of the chain
    Validity,         \* blocks a fresh blockhash stays valid for
    ConfirmTimeout,   \* confirm_timeout, in polls
    JitoInterval,     \* jito_backup_interval, in polls
    MaxCall,          \* bound: polls that pass during one status call
    MaxAbandoned,     \* bound: slots dropped with a fork
    SendErrors        \* the classes classify_failure gives the errors of a send

ASSUME BudgetAssumption == MaxRetries \in Nat \ {0} /\ Sigs = 1 .. MaxRetries
ASSUME ChainAssumption  ==
    /\ MaxSlot \in Nat \ {0} /\ Validity \in Nat
    /\ Slots = 1 .. MaxSlot /\ Heights = 1 .. MaxSlot + Validity
ASSUME TimingAssumption == {ConfirmTimeout, JitoInterval, MaxCall, MaxAbandoned} \subseteq Nat
ASSUME SendErrorsAssumption == SendErrors # {} /\ SendErrors \subseteq FailureClass \ {"Unknown"}

VARIABLES
    \* shared between the two tasks
    tracker,
    \* the executor and its caller
    pc, attempt, blockhash, elapsed, sinceJito, outcome, log,
    \* the Jito status service: its answer on the way back
    answer,
    \* the chain: slots processed, confirmed, finalized, abandoned; fate of each transaction
    head, confirmed, finalized, abandoned, tx,
    \* the stream: the transactions it saw execute
    seen

execVars  == <<pc, attempt, blockhash, elapsed, sinceJito, outcome, log>>
chainVars == <<head, confirmed, finalized, abandoned>>
vars      == <<tracker, execVars, answer, chainVars, tx, seen>>

Unsent  == [st |-> "unsent"]
Pending(valid) == [st |-> "pending", valid |-> valid]
Landed(slot, failed, valid) == [st |-> "landed", slot |-> slot, failed |-> failed, valid |-> valid]

LandedAt(slot)  == [landed |-> TRUE, slot |-> slot]
FailedWith(c)   == [landed |-> FALSE, class |-> c]

Init ==
    /\ tracker = EmptyTracker
    /\ pc = "decide" /\ attempt = 0 /\ blockhash = 1 + Validity
    /\ elapsed = 0 /\ sinceJito = 0
    /\ outcome = [s \in Sigs |-> None]
    /\ log = <<>>
    /\ answer = None
    /\ head = 1 /\ confirmed = 0 /\ finalized = 0 /\ abandoned = {}
    /\ tx = [s \in Sigs |-> Unsent]
    /\ seen = {}

-------------------------------------------------------------------------------
(* run_attempt_loop and the decider behind its budget guard.               *)

\* Mutant: the budget is not looked at.
DecideUnbudgeted(refresh) ==
    /\ pc = "decide"
    /\ pc' = "sending"
    /\ attempt' = attempt + 1
    /\ blockhash' = IF refresh THEN head + Validity ELSE blockhash
    /\ UNCHANGED <<tracker, elapsed, sinceJito, outcome, log, answer, chainVars, tx, seen>>

\* Submit keeps the blockhash at hand; RefreshAndResubmit fetches one first.
Decide(refresh) ==
    /\ pc = "decide"
    /\ attempt = 0 \/ attempt < MaxRetries
    /\ pc' = "sending"
    /\ attempt' = attempt + 1
    /\ blockhash' = IF refresh THEN head + Validity ELSE blockhash
    /\ UNCHANGED <<tracker, elapsed, sinceJito, outcome, log, answer, chainVars, tx, seen>>

\* Abort or Hold: the loop returns without a landing.
GiveUp ==
    /\ pc = "decide"
    /\ pc' = "flush"
    /\ UNCHANGED <<tracker, attempt, blockhash, elapsed, sinceJito, outcome, log, answer, chainVars, tx, seen>>

\* The decider or the refresh fails: `?` takes the run out past flush and drain.
AgentError ==
    /\ pc = "decide"
    /\ pc' = "error"
    /\ UNCHANGED <<tracker, attempt, blockhash, elapsed, sinceJito, outcome, log, answer, chainVars, tx, seen>>

\* submit_live returns, and its timers with it.
Return(result) ==
    /\ elapsed' = 0 /\ sinceJito' = 0
    /\ outcome' = [outcome EXCEPT ![attempt] = result]
    /\ pc' = IF result.landed THEN "flush" ELSE "decide"

-------------------------------------------------------------------------------
(* submit_live: broadcast, then confirm from the tracker.                  *)

\* The receipt arrives and the record is opened.
SendOk ==
    /\ pc = "sending" /\ tx[attempt].st # "unsent"
    /\ tracker' = Track(tracker, NewRecord(attempt, blockhash))
    /\ elapsed' = 0 /\ sinceJito' = 0
    /\ pc' = "outcome"
    /\ UNCHANGED <<attempt, blockhash, outcome, log, answer, chainVars, tx, seen>>

\* Mutant: a failed call is not tracked before it is marked failed.
SendErrUntracked ==
    /\ pc = "sending"
    /\ pc' = "sendFailed"
    /\ UNCHANGED <<tracker, attempt, blockhash, elapsed, sinceJito, outcome, log, answer, chainVars, tx, seen>>

\* The call fails, whether or not the bundle was accepted: track, then mark_failed.
SendErr ==
    /\ pc = "sending"
    /\ tracker' = Track(tracker, NewRecord(attempt, blockhash))
    /\ pc' = "sendFailed"
    /\ UNCHANGED <<attempt, blockhash, elapsed, sinceJito, outcome, log, answer, chainVars, tx, seen>>

\* Mutant: the attempt is given up without mark_failed.
CloseUnmarked(class) ==
    /\ UNCHANGED tracker
    /\ Return(FailedWith(class))

\* mark_failed, and the failure returned to the loop.
Close(class) ==
    /\ tracker' = Fail(tracker, attempt, class)
    /\ Return(FailedWith(class))

CloseUnsent ==
    /\ pc = "sendFailed"
    /\ \E class \in SendErrors : Close(class)
    /\ UNCHANGED <<attempt, blockhash, log, answer, chainVars, tx, seen>>

\* completed_outcome: terminal already, or look at the progress.
CheckOutcome ==
    /\ pc = "outcome"
    /\ LET done == CompletedOutcome(tracker, attempt)
       IN  IF done = None THEN pc' = "progress" /\ UNCHANGED <<outcome, elapsed, sinceJito>>
           ELSE Return(IF done.failed THEN FailedWith(done.class) ELSE LandedAt(done.slot))
    /\ UNCHANGED <<tracker, attempt, blockhash, log, answer, chainVars, tx, seen>>

\* Mutant: seen is landed.
CheckProgressEager ==
    /\ pc = "progress"
    /\ LET p == ActiveProgress(tracker, attempt)
       IN  IF p # None /\ p[2] # None
           THEN Return(LandedAt(p[2]))
           ELSE /\ pc' = IF sinceJito >= JitoInterval THEN "jito" ELSE "timeout"
                /\ UNCHANGED <<outcome, elapsed, sinceJito>>
    /\ UNCHANGED <<tracker, attempt, blockhash, log, answer, chainVars, tx, seen>>

\* active_progress: confirmed is landed; else ask Jito when due.
CheckProgress ==
    /\ pc = "progress"
    /\ LET p == ActiveProgress(tracker, attempt)
       IN  IF p # None /\ p[2] # None /\ p[1] >= Confirmed
           THEN Return(LandedAt(p[2]))
           ELSE /\ pc' = IF sinceJito >= JitoInterval THEN "jito" ELSE "timeout"
                /\ UNCHANGED <<outcome, elapsed, sinceJito>>
    /\ UNCHANGED <<tracker, attempt, blockhash, log, answer, chainVars, tx, seen>>

\* get_inflight_status returns.  Its throttle, backoffs and requests without a timeout take
\* any number of polls; last_jito is the time of the call, not of the answer.
JitoReply ==
    /\ pc = "jito" /\ answer # None
    /\ answer' = None
    /\ IF answer = "failed" THEN Close("BundleFailure")
       ELSE /\ pc' = "timeout"
            /\ \E polls \in 0 .. MaxCall : elapsed' = elapsed + polls /\ sinceJito' = polls
            /\ UNCHANGED <<tracker, outcome>>
    /\ UNCHANGED <<attempt, blockhash, log, chainVars, tx, seen>>

\* Mutant: the timeout counts from the last look.
CheckTimeoutRestarted ==
    /\ pc = "timeout"
    /\ IF elapsed > ConfirmTimeout
       THEN Close("ExpiredBlockhash")
       ELSE /\ pc' = "outcome"
            /\ elapsed' = 1 /\ sinceJito' = sinceJito + 1
            /\ UNCHANGED <<tracker, outcome>>
    /\ UNCHANGED <<attempt, blockhash, log, answer, chainVars, tx, seen>>

\* The confirm window is over, or the loop sleeps one poll interval.
CheckTimeout ==
    /\ pc = "timeout"
    /\ IF elapsed > ConfirmTimeout
       THEN Close("ExpiredBlockhash")
       ELSE /\ pc' = "outcome"
            /\ elapsed' = elapsed + 1 /\ sinceJito' = sinceJito + 1
            /\ UNCHANGED <<tracker, outcome>>
    /\ UNCHANGED <<attempt, blockhash, log, answer, chainVars, tx, seen>>

-------------------------------------------------------------------------------
(* The end of the transaction in run_campaign.                             *)
FinalizePending ==
    /\ pc = "flush"
    /\ tracker' \in FlushActive(tracker)
    /\ pc' = "drain"
    /\ UNCHANGED <<attempt, blockhash, elapsed, sinceJito, outcome, log, answer, chainVars, tx, seen>>

DrainRecords ==
    /\ pc = "drain"
    /\ log' = log \o tracker.completed
    /\ tracker' = DrainCompleted(tracker)
    /\ pc' = "end"
    /\ UNCHANGED <<attempt, blockhash, elapsed, sinceJito, outcome, answer, chainVars, tx, seen>>

-------------------------------------------------------------------------------
(* The ingest task: what the chain did so far, in any order, again and again. *)
Running == pc \notin {"end", "error"}

IngestTransaction ==
    /\ Running
    /\ \E n \in seen : tracker' = OnTransaction(tracker, n.sig, n.slot, n.failed)
    /\ UNCHANGED <<execVars, answer, chainVars, tx, seen>>

\* A level is reported of every slot of the surviving fork that reached it.
IngestSlot ==
    /\ Running
    /\ \E slot \in Slots \ abandoned :
        \/ slot <= head /\ tracker' \in OnSlotCommitment(tracker, slot, Processed)
        \/ slot <= confirmed /\ tracker' \in OnSlotCommitment(tracker, slot, Confirmed)
        \/ slot <= finalized /\ tracker' \in OnSlotCommitment(tracker, slot, Finalized)
    /\ UNCHANGED <<execVars, answer, chainVars, tx, seen>>

-------------------------------------------------------------------------------
(* The block engine, the status service and the chain.                     *)
Accept ==
    /\ pc = "sending" /\ tx[attempt].st = "unsent"
    /\ tx' = [tx EXCEPT ![attempt] = Pending(blockhash)]
    /\ UNCHANGED <<tracker, execVars, answer, chainVars, seen>>

\* A failed or invalid answer is given only of a bundle that has not landed.
JitoAnswer ==
    /\ pc = "jito" /\ answer = None
    /\ answer' \in IF tx[attempt].st = "landed" THEN {"other"} ELSE {"other", "failed"}
    /\ UNCHANGED <<tracker, execVars, chainVars, tx, seen>>

Land(sig) ==
    /\ Running
    /\ tx[sig].st = "pending" /\ head <= tx[sig].valid
    /\ head \notin abandoned /\ head > confirmed
    /\ \E failed \in BOOLEAN :
        /\ tx' = [tx EXCEPT ![sig] = Landed(head, failed, @.valid)]
        /\ seen' = seen \cup {[sig |-> sig, slot |-> head, failed |-> failed]}
    /\ UNCHANGED <<tracker, execVars, answer, chainVars>>

NewSlot ==
    /\ Running /\ head < MaxSlot
    /\ head' = head + 1
    /\ UNCHANGED <<tracker, execVars, answer, confirmed, finalized, abandoned, tx, seen>>

\* A slot is confirmed and finalized with its ancestors.
ConfirmSlot(slot) ==
    /\ Running
    /\ slot \in confirmed + 1 .. head /\ slot \notin abandoned
    /\ confirmed' = slot
    /\ UNCHANGED <<tracker, execVars, answer, head, finalized, abandoned, tx, seen>>

FinalizeSlot(slot) ==
    /\ Running
    /\ slot \in finalized + 1 .. confirmed /\ slot \notin abandoned
    /\ finalized' = slot
    /\ UNCHANGED <<tracker, execVars, answer, head, confirmed, abandoned, tx, seen>>

\* A slot not yet confirmed goes with its fork; its transactions may land again.
AbandonSlot(slot) ==
    /\ Running
    /\ slot \in confirmed + 1 .. head /\ slot \notin abandoned
    /\ Cardinality(abandoned) < MaxAbandoned
    /\ abandoned' = abandoned \cup {slot}
    /\ tx' = [s \in Sigs |->
                IF tx[s].st = "landed" /\ tx[s].slot = slot THEN Pending(tx[s].valid) ELSE tx[s]]
    /\ UNCHANGED <<tracker, execVars, answer, head, confirmed, finalized, seen>>

-------------------------------------------------------------------------------
Executor ==
    \/ Decide(FALSE) \/ Decide(TRUE) \/ GiveUp \/ AgentError
    \/ SendOk \/ SendErr \/ CloseUnsent
    \/ CheckOutcome \/ CheckProgress \/ JitoReply \/ CheckTimeout
    \/ FinalizePending \/ DrainRecords

Environment ==
    \/ Accept \/ JitoAnswer \/ NewSlot
    \/ \E sig \in Sigs : Land(sig)
    \/ \E slot \in Slots : ConfirmSlot(slot) \/ FinalizeSlot(slot) \/ AbandonSlot(slot)

Next == Executor \/ Environment \/ IngestTransaction \/ IngestSlot

Spec == Init /\ [][Next]_vars

(* The executor's task is always run again.  A send ends, if not in a      *)
(* receipt then in an error; a status call is answered (an assumption: the *)
(* HTTP clients of the block engine set no timeout).                       *)
FairSpec == Spec /\ WF_vars(Executor) /\ WF_vars(JitoAnswer)

-------------------------------------------------------------------------------
(* Type correctness.                                                       *)
TypeOK ==
    /\ IsTracker(tracker)
    /\ pc \in {"decide", "sending", "sendFailed", "outcome", "progress", "jito", "timeout",
               "flush", "drain", "end", "error"}
    /\ attempt \in 0 .. MaxRetries
    /\ blockhash \in Heights
    /\ elapsed \in Nat /\ sinceJito \in 0 .. elapsed
    /\ \A s \in Sigs : outcome[s] \in {None} \cup {LandedAt(n) : n \in Slots} \cup {FailedWith(c) : c \in FailureClass}
    /\ log \in Seq(Record)
    /\ answer \in {None, "other", "failed"}
    /\ finalized <= confirmed /\ confirmed <= head /\ head \in Slots
    /\ abandoned \subseteq Slots

AllRecords == log \o tracker.completed

RecordsOf(sig) ==
    {AllRecords[i] : i \in {k \in DOMAIN AllRecords : AllRecords[k].signature = sig}}
        \cup (IF IsActive(tracker, sig) THEN {tracker.active[sig].record} ELSE {})

(* The log of a run that ends holds exactly one record of every attempt    *)
(* broadcast, whichever of the stream, Jito, the timeout and the flush     *)
(* closed it, and in the order of the attempts.                            *)
EveryAttemptLogged ==
    pc = "end" => /\ Len(log) = attempt
                  /\ \A i \in 1 .. attempt : log[i].signature = i

(* The agent is consulted only with nothing in flight: when a retry can be *)
(* decided, no earlier attempt is still followed by the tracker.           *)
NothingInFlight ==
    pc \in {"decide", "error", "drain", "end"} => DOMAIN tracker.active = {}

(* An attempt reported as landed is on record as landed in that slot, and  *)
(* stays a success through late updates, flush and drain.  An abandoned    *)
(* slot is excepted: the transaction may land again and revert.            *)
LandedStaysLanded ==
    abandoned = {} =>
        \A s \in Sigs :
            outcome[s] # None /\ outcome[s].landed =>
                \E r \in RecordsOf(s) : r.landed_slot = outcome[s].slot /\ r.failure = None

(* While no fork is abandoned, success on record is success on chain: a    *)
(* record without a failure that left Submitted names the slot where its   *)
(* transaction executed without error, and what the agent loop was told    *)
(* landed is in a confirmed slot.                                          *)
SuccessIsOnChain ==
    abandoned = {} =>
        \A s \in Sigs :
            /\ \A r \in RecordsOf(s) :
                 r.landed_slot # None =>
                    /\ tx[s].st = "landed" /\ tx[s].slot = r.landed_slot
                    /\ r.failure = None => ~ tx[s].failed
            /\ outcome[s] # None /\ outcome[s].landed => outcome[s].slot <= confirmed

(* Every run ends, in the log or in an error: whatever the stream     *)
(* withholds, the timeout closes each attempt and the budget bounds them.  *)
RunEnds == <>(pc \in {"end", "error"})

-------------------------------------------------------------------------------
(* The architecture document says a landing is confirmed when the slot the *)
(* transaction appeared in reaches confirmed commitment.                   *)
LandingSlotConfirmed ==
    \A s \in Sigs :
        outcome[s] # None /\ outcome[s].landed => outcome[s].slot \notin abandoned

(* The architecture document's state machine lets a landed bundle fail     *)
(* only because its transaction failed.                                    *)
OnlyRevertedLandingsFail ==
    abandoned = {} =>
        \A s \in Sigs : \A r \in RecordsOf(s) :
            r.landed_slot # None /\ r.failure # None => tx[s].failed

(* The log promises never to lose a completed record.                      *)
NoRecordLost == pc \in {"end", "error"} => tracker.completed = <<>>
===============================================================================
