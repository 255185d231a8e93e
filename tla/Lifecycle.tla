------------------------------- MODULE Lifecycle -------------------------------
(***************************************************************************)
(* What the tracker promises of one bundle: the state machine of           *)
(* CommitmentStage, with a single outcome.  A bundle is submitted once,    *)
(* lands in one slot, moves forward from Processed, and ends exactly once: *)
(* as a success only if it landed, and under the slot it landed in.        *)
(* LifecycleTracker implements it for every signature at once.             *)
(***************************************************************************)
EXTENDS Integers

CONSTANTS
    Slots,   \* chain slots
    None     \* no stage, no slot

VARIABLES
    stage,      \* where the bundle is while it is followed, None otherwise
    slot,       \* the slot it landed in, None before and after
    outcomes    \* how it ended: at most one [slot, failed]

vars == <<stage, slot, outcomes>>

Submitted == 0
Processed == 1
Confirmed == 2
Finalized == 3

Outcome(where, failed) == [slot |-> where, failed |-> failed]

Init ==
    /\ stage = None /\ slot = None
    /\ outcomes = {}

Followed == stage # None

Submit ==
    /\ ~ Followed /\ outcomes = {}
    /\ stage' = Submitted
    /\ UNCHANGED <<slot, outcomes>>

Land ==
    /\ Followed /\ stage = Submitted
    /\ stage' = Processed
    /\ slot' \in Slots
    /\ UNCHANGED outcomes

Confirm ==
    /\ Followed /\ stage = Processed
    /\ stage' = Confirmed
    /\ UNCHANGED <<slot, outcomes>>

End(outcome) ==
    /\ stage' = None /\ slot' = None
    /\ outcomes' = {outcome}

\* Finalized, or cut short by the end of the run.
Succeed == Followed /\ slot # None /\ End(Outcome(slot, FALSE))

\* Closed by the executor, or by the block height.
Fail == Followed /\ End(Outcome(slot, TRUE))

\* Its transaction is seen for the first time, and has failed.
Revert == Followed /\ slot = None /\ \E where \in Slots : End(Outcome(where, TRUE))

Next == Submit \/ Land \/ Confirm \/ Succeed \/ Fail \/ Revert

Spec == Init /\ [][Next]_vars
===============================================================================
