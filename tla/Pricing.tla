-------------------------------- MODULE Pricing --------------------------------
(***************************************************************************)
(* From the stream and the tip floor to the tip that is paid: the ingest   *)
(* task estimates the skip rate, build_context turns it and the floor into *)
(* the agent's band, the decider picks a tip, submit pays it.  The ingest  *)
(* task runs between any two steps of the executor.                        *)
(*                                                                         *)
(* The Jito tip-floor service and, for the Gemini decider, the model are   *)
(* outside: any floor, or none, and any tip.                               *)
(***************************************************************************)
EXTENDS TipBand, SkipWindow, FiniteSets

CONSTANTS
    Operator,        \* bound: the operator's [tips] min and max lamports
    MinSenderTip,    \* MIN_SENDER_TIP_LAMPORTS
    Fallback,        \* FALLBACK_FLOOR
    Floors,          \* floors the service publishes
    Decider,         \* "heuristic" or "gemini"
    Tips,            \* tips the model may name
    StreamSlots      \* slots the stream reports as confirmed

ASSUME OperatorAssumption == Operator \in Bounds
ASSUME FloorsAssumption   == Floors \subseteq Floor /\ Fallback \in Floor
ASSUME AgentAssumption    == Decider \in {"heuristic", "gemini"} /\ Tips \subseteq Nat
ASSUME SlotsAreNat        == StreamSlots \subseteq Nat /\ MinSenderTip \in Nat

VARIABLES
    \* ingest: the window, NetworkState.skip_rate; confirmed is history
    window, skip_rate, confirmed,
    \* executor: should_use_sender's mode, the starve flag, the oracle's EMA, the attempt
    sender, starve, ema_p50, step, kind, band, tip, paid,
    \* what the band was built from, for the properties
    quote

ingestVars == <<window, skip_rate, confirmed>>
vars == <<ingestVars, sender, starve, ema_p50, step, kind, band, tip, paid, quote>>

UseSender == sender /\ ~ starve

\* Starve mode pins the band to the operator's minimum.
Effective == IF starve THEN [min |-> Operator.min, max |-> Operator.min] ELSE Operator

NoBand == [low |-> 0, mid |-> 0, high |-> 0]
NoQuote == [floor |-> Fallback, ema |-> -1, bounds |-> Operator, skip |-> [num |-> 0, den |-> 1]]

Init ==
    /\ window = <<>> /\ skip_rate = [num |-> 0, den |-> 1] /\ confirmed = {}
    /\ sender \in BOOLEAN /\ starve \in BOOLEAN
    /\ ema_p50 = -1 /\ step = "quote" /\ kind = "initial_submit"
    /\ band = NoBand /\ tip = 0 /\ paid = 0 /\ quote = NoQuote

\* on_slot for a confirmed slot: new, replayed or late.
ConfirmedSlot ==
    /\ \E slot \in StreamSlots :
        /\ window' = Observe(window, slot)
        /\ skip_rate' = Rate(window')
        /\ confirmed' = confirmed \cup {slot}
    /\ UNCHANGED <<sender, starve, ema_p50, step, kind, band, tip, paid, quote>>

\* smoothed_p50, clamped to the operator's bounds.
Smoothed(ema) == IF ema = -1 THEN -1 ELSE Clamp(ema, Operator)

\* build_context: a fetched floor feeds the EMA, the fallback does not.
BuildContext ==
    /\ step = "quote" /\ step' = "decide"
    /\ \E floor \in Floors \cup {Fallback} :
        /\ \/ floor \in Floors /\ ema_p50' \in FoldEma(ema_p50, floor)
           \/ floor = Fallback /\ UNCHANGED ema_p50
        /\ quote' = [floor |-> floor, ema |-> Smoothed(ema_p50'), bounds |-> Effective, skip |-> skip_rate]
        /\ LET b == Recommend(floor, Smoothed(ema_p50'), Effective, skip_rate, kind = "post_failure")
           IN  band' = IF UseSender THEN Lifted(b, MinSenderTip) ELSE b
    /\ UNCHANGED <<ingestVars, sender, starve, kind, tip, paid>>

\* The heuristic takes mid, and high on a retry; the model's number is taken as it is.
Named ==
    IF Decider = "gemini" THEN Tips
    ELSE {IF kind = "initial_submit" THEN band.mid ELSE Larger(band.high, band.mid)}

\* Mutant: a starved transaction has the full retry budget.
DecideFed ==
    /\ step = "decide" /\ step' = "submit"
    /\ tip' \in Named
    /\ UNCHANGED <<ingestVars, sender, starve, ema_p50, kind, band, paid, quote>>

\* The budget guard lets no starved transaction be sent again.
Decide ==
    /\ step = "decide" /\ step' = "submit"
    /\ ~ (starve /\ kind = "post_failure")
    /\ tip' \in Named
    /\ UNCHANGED <<ingestVars, sender, starve, ema_p50, kind, band, paid, quote>>

\* The next transaction; the starved ones are the first of the campaign.
NextTransaction ==
    /\ step' = "quote" /\ kind' = "initial_submit"
    /\ starve' \in {starve, FALSE}
    /\ tip' = 0 /\ paid' = 0
    /\ UNCHANGED <<ingestVars, sender, ema_p50, band, quote>>

\* Abort or Hold; the heuristic, its budget not zero, aborts only after a failure.
Abort ==
    /\ step = "decide"
    /\ kind = "post_failure" \/ Decider = "gemini"
    /\ NextTransaction

\* submit: Helius Sender takes no tip below its minimum.
Submit ==
    /\ step = "submit" /\ step' = "outcome"
    /\ paid' = IF UseSender THEN Larger(tip, MinSenderTip) ELSE tip
    /\ UNCHANGED <<ingestVars, sender, starve, ema_p50, kind, band, tip, quote>>

Landed == step = "outcome" /\ NextTransaction

FailedAttempt ==
    /\ step = "outcome" /\ step' = "quote" /\ kind' = "post_failure"
    /\ UNCHANGED <<ingestVars, sender, starve, ema_p50, band, tip, paid, quote>>

Next == ConfirmedSlot \/ BuildContext \/ Decide \/ Abort \/ Submit \/ Landed \/ FailedAttempt

Spec == Init /\ [][Next]_vars

-------------------------------------------------------------------------------
(* Type correctness.                                                       *)
TypeOK ==
    /\ window \in Seq(StreamSlots) /\ Len(window) <= Capacity
    /\ skip_rate \in SkipRate /\ confirmed \subseteq StreamSlots
    /\ sender \in BOOLEAN /\ starve \in BOOLEAN
    /\ ema_p50 \in Nat \cup {-1} /\ band \in Band /\ tip \in Nat /\ paid \in Nat
    /\ step \in {"quote", "decide", "submit", "outcome"}
    /\ kind \in {"initial_submit", "post_failure"}

(* The band the agent is shown is ordered and lies within the bounds in    *)
(* force, for any market, EMA history and skip rate; only Helius Sender's  *)
(* minimum can lift it past the operator's ceiling.                        *)
BandWithinBounds ==
    step = "decide" =>
        /\ band.low <= band.mid /\ band.mid <= band.high
        /\ Effective.min <= band.low
        /\ band.high <= IF UseSender THEN Larger(Effective.max, MinSenderTip) ELSE Effective.max

(* A retry is never quoted less than a first submission would be at the    *)
(* same floor, EMA and skip rate.                                          *)
EscalationNeverCheaper ==
    LET first == Recommend(quote.floor, quote.ema, quote.bounds, quote.skip, FALSE)
        retry == Recommend(quote.floor, quote.ema, quote.bounds, quote.skip, TRUE)
    IN  first.mid <= retry.mid /\ first.high <= retry.high

(* The heuristic decider's starved transaction pays the operator's minimum *)
(* over the direct Jito path, whatever the market, the broadcast mode and  *)
(* the ingest task did since the quote, and it is sent once.               *)
StarvedPaysFloor ==
    starve /\ step = "outcome" => paid = Operator.min /\ kind = "initial_submit"

\* Slots of the window's span the stream never reported as confirmed.
Missing == {s \in window[1] .. window[Len(window)] : s \notin confirmed}

(* The skip rate never understates congestion: over the span of the        *)
(* window it counts at least the slots that were not confirmed, however    *)
(* updates are replayed or reordered.                                      *)
SkipNeverUnderstated ==
    window # <<>> /\ Span(window) >= MinSpan =>
        skip_rate.den = Span(window) /\ skip_rate.num >= Cardinality(Missing)

(* The architecture document lets the agent raise the tip within the       *)
(* configured bounds.                                                      *)
TipWithinBounds == step = "outcome" /\ ~ UseSender => paid <= Operator.max
===============================================================================
