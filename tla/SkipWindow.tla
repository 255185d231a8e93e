------------------------------ MODULE SkipWindow ------------------------------
(***************************************************************************)
(* SkipWindow of the ingest task (bin/txradar/src/ingest.rs): the last     *)
(* confirmed slots the stream reported, and the skip rate estimated from   *)
(* them, a fraction [num, den].                                            *)
(***************************************************************************)
EXTENDS Integers, Sequences

CONSTANTS
    Capacity,   \* slots kept, 150 in ingest::spawn
    MinSpan     \* shortest span with an estimate, 8 in rate

ASSUME CapacityAssumption == Capacity \in Nat \ {0}
ASSUME MinSpanAssumption  == MinSpan \in Nat \ {0}

Span(window) == window[Len(window)] - window[1] + 1

\* Mutant: replayed slots are counted again.
ObserveAgain(window, slot) ==
    LET longer == Append(window, slot)
    IN  IF Len(longer) > Capacity THEN Tail(longer) ELSE longer

\* Mutant: the oldest slot is never evicted.
ObserveUnbounded(window, slot) ==
    IF window # <<>> /\ slot <= window[Len(window)] THEN window ELSE Append(window, slot)

\* A slot not above the last one is ignored; the oldest makes room.
Observe(window, slot) ==
    IF window # <<>> /\ slot <= window[Len(window)] THEN window
    ELSE LET longer == Append(window, slot)
         IN  IF Len(longer) > Capacity THEN Tail(longer) ELSE longer

\* Slots of the span that are not in the window.
Rate(window) ==
    IF window = <<>> \/ Span(window) < MinSpan THEN [num |-> 0, den |-> 1]
    ELSE [num |-> IF Span(window) >= Len(window) THEN Span(window) - Len(window) ELSE 0,
          den |-> Span(window)]
===============================================================================
