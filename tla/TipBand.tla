-------------------------------- MODULE TipBand --------------------------------
(***************************************************************************)
(* The tip oracle's arithmetic (crates/txradar-tips): the live floor, the  *)
(* smoothed median and the skip rate become a band of lamports.            *)
(*                                                                         *)
(* A skip rate is a fraction [num, den].  The running EMA is kept by its   *)
(* rounded value: rounding is monotone, so the value after a fold lies     *)
(* between the value before and the new median, whatever the smoothing     *)
(* factor in (0, 1]; a fold returns the set of those.                      *)
(***************************************************************************)
EXTENDS Integers

Larger(a, b)  == IF a >= b THEN a ELSE b
Smaller(a, b) == IF a <= b THEN a ELSE b

\* u64::clamp, into the operator's or the starved bounds.
Clamp(n, bounds) == Smaller(Larger(n, bounds.min), bounds.max)

Bounds == {b \in [min : Nat, max : Nat] : b.min <= b.max}

\* The published floor: percentiles of landed tips, so they do not decrease.
Percentiles == {"p25", "p50", "p75", "p95", "p99", "ema_p50"}
Floor == {f \in [Percentiles -> Nat] :
            f.p25 <= f.p50 /\ f.p50 <= f.p75 /\ f.p75 <= f.p95 /\ f.p95 <= f.p99}

Band == [low : Nat, mid : Nat, high : Nat]
SkipRate == {r \in [num : Nat, den : Nat \ {0}] : r.num <= r.den}

-------------------------------------------------------------------------------
\* fold_ema: the first observation seeds it, with the published EMA if there is one.
FoldEma(prev, floor) ==
    IF prev = -1 THEN {IF floor.ema_p50 > 0 THEN floor.ema_p50 ELSE floor.p50}
    ELSE Smaller(prev, floor.p50) .. Larger(prev, floor.p50)

\* Calm below 20% of slots skipped, busy from there to 50%, hot above.
Tier(skip) ==
    IF 2 * skip.num > skip.den THEN 2
    ELSE IF 5 * skip.num >= skip.den THEN 1
    ELSE 0

\* Mutant: a retry steps down a tier.
EscalatedDown(tier, escalating) == IF escalating THEN Larger(tier - 1, 0) ELSE tier

Escalated(tier, escalating) == IF escalating THEN Smaller(tier + 1, 3) ELSE tier

Anchor(floor, tier) ==
    CASE tier = 0 -> floor.p50
      [] tier = 1 -> floor.p75
      [] tier = 2 -> floor.p95
      [] OTHER    -> floor.p99

Ceiling(floor, tier) ==
    CASE tier = 0 -> floor.p75
      [] tier = 1 -> floor.p95
      [] OTHER    -> floor.p99

\* The anchor, half way to a smoothed median above it; f64::round rounds a half up.
Blend(anchor, ema) == IF ema > anchor THEN (anchor + ema + 1) \div 2 ELSE anchor

\* Mutant: only mid is held within the bounds.
RecommendUnclamped(floor, ema, bounds, skip, escalating) ==
    LET tier == Escalated(Tier(skip), escalating)
        mid  == Clamp(Blend(Anchor(floor, tier), ema), bounds)
    IN  [low  |-> Clamp(Larger(floor.p25, bounds.min), bounds), mid |-> mid,
         high |-> Larger(Ceiling(floor, tier), mid)]

\* recommend_from; ema is -1 when there is none.
Recommend(floor, ema, bounds, skip, escalating) ==
    LET tier == Escalated(Tier(skip), escalating)
        mid  == Clamp(Blend(Anchor(floor, tier), ema), bounds)
    IN  [low  |-> Clamp(Larger(floor.p25, bounds.min), bounds), mid |-> mid,
         high |-> Clamp(Larger(Ceiling(floor, tier), mid), bounds)]

\* build_context lifts the band to Helius Sender's minimum.
Lifted(band, least) ==
    [low |-> Larger(band.low, least), mid |-> Larger(band.mid, least), high |-> Larger(band.high, least)]
===============================================================================
