----------------------------- MODULE PricingProofs -----------------------------
(***************************************************************************)
(* What pricing keeps for every floor, bound, window and set of slots.     *)
(***************************************************************************)
EXTENDS Pricing, SequenceTheorems, FiniteSetTheorems, FunctionTheorems, TLAPS

MaybeTip == Nat \cup {-1}

(* clamp lands within the bounds and keeps the order of its arguments.     *)
LEMMA ClampWithin ==
    ASSUME NEW b \in Bounds, NEW n \in Nat
    PROVE  /\ Clamp(n, b) \in Nat
           /\ b.min <= Clamp(n, b)
           /\ Clamp(n, b) <= b.max
BY DEF Bounds, Clamp, Smaller, Larger

LEMMA ClampMonotone ==
    ASSUME NEW b \in Bounds, NEW m \in Nat, NEW n \in Nat, m <= n
    PROVE  Clamp(m, b) <= Clamp(n, b)
BY DEF Bounds, Clamp, Smaller, Larger

(* Blending only raises the anchor, and a higher anchor blends higher.     *)
LEMMA BlendRises ==
    ASSUME NEW a \in Nat, NEW ema \in MaybeTip
    PROVE  Blend(a, ema) \in Nat /\ a <= Blend(a, ema)
BY DEF Blend, MaybeTip

LEMMA BlendMonotone ==
    ASSUME NEW a \in Nat, NEW b \in Nat, a <= b, NEW ema \in MaybeTip
    PROVE  Blend(a, ema) <= Blend(b, ema)
BY DEF Blend, MaybeTip

(* A tier's anchor and ceiling, in order and rising with the tier.         *)
LEMMA TierPrices ==
    ASSUME NEW f \in Floor, NEW tier \in 0 .. 3
    PROVE  /\ Anchor(f, tier) \in Nat /\ Ceiling(f, tier) \in Nat /\ f.p25 \in Nat
           /\ f.p25 <= Anchor(f, tier)
           /\ \A higher \in tier .. 3 :
                Anchor(f, tier) <= Anchor(f, higher) /\ Ceiling(f, tier) <= Ceiling(f, higher)
<1>1. /\ f.p25 \in Nat /\ f.p50 \in Nat /\ f.p75 \in Nat /\ f.p95 \in Nat /\ f.p99 \in Nat
      /\ f.p25 <= f.p50 /\ f.p50 <= f.p75 /\ f.p75 <= f.p95 /\ f.p95 <= f.p99
  BY DEF Floor, Percentiles
<1> QED
  BY <1>1 DEF Anchor, Ceiling

LEMMA TierRange ==
    ASSUME NEW skip \in SkipRate, NEW escalating \in BOOLEAN
    PROVE  Escalated(Tier(skip), escalating) \in 0 .. 3
BY DEF SkipRate, Tier, Escalated, Smaller

LEMMA TierRises ==
    ASSUME NEW skip \in SkipRate
    PROVE  /\ Escalated(Tier(skip), FALSE) \in 0 .. 3
           /\ Escalated(Tier(skip), TRUE) \in Escalated(Tier(skip), FALSE) .. 3
BY DEF SkipRate, Tier, Escalated, Smaller

(* The recommended band is ordered and within the bounds it was asked for. *)
LEMMA RecommendWithin ==
    ASSUME NEW f \in Floor, NEW ema \in MaybeTip, NEW b \in Bounds,
           NEW skip \in SkipRate, NEW escalating \in BOOLEAN
    PROVE  LET band_ == Recommend(f, ema, b, skip, escalating)
           IN  /\ band_ \in Band
               /\ b.min <= band_.low /\ band_.low <= band_.mid
               /\ band_.mid <= band_.high /\ band_.high <= b.max
<1> DEFINE tier == Escalated(Tier(skip), escalating)
           raw  == Blend(Anchor(f, tier), ema)
           mid  == Clamp(raw, b)
           low  == Larger(f.p25, b.min)
           high == Larger(Ceiling(f, tier), mid)
<1>1. tier \in 0 .. 3
  BY TierRange
<1> HIDE DEF tier
<1>2. /\ Anchor(f, tier) \in Nat /\ Ceiling(f, tier) \in Nat /\ f.p25 \in Nat
      /\ f.p25 <= Anchor(f, tier)
  BY <1>1, TierPrices
<1>3. raw \in Nat /\ Anchor(f, tier) <= raw
  BY <1>2, BlendRises
<1> HIDE DEF raw
<1>4. mid \in Nat /\ b.min <= mid /\ mid <= b.max
  BY <1>3, ClampWithin
<1>5. Clamp(low, b) <= mid
  BY <1>2, <1>3 DEF Clamp, Larger, Smaller, Bounds
<1>6. low \in Nat /\ Clamp(low, b) \in Nat /\ b.min <= Clamp(low, b)
  BY <1>2, ClampWithin DEF Larger, Bounds
<1>7. high \in Nat /\ mid <= high
  BY <1>2, <1>4 DEF Larger
<1>8. Clamp(high, b) \in Nat /\ mid <= Clamp(high, b) /\ Clamp(high, b) <= b.max
  BY <1>4, <1>7, ClampWithin DEF Clamp, Larger, Smaller, Bounds
<1>9. Recommend(f, ema, b, skip, escalating) = [low |-> Clamp(low, b), mid |-> mid, high |-> Clamp(high, b)]
  BY DEF Recommend, tier, raw
<1> QED
  BY <1>4, <1>5, <1>6, <1>8, <1>9 DEF Band

(* Escalating never lowers the middle or the top of the band.              *)
LEMMA RecommendEscalates ==
    ASSUME NEW f \in Floor, NEW ema \in MaybeTip, NEW b \in Bounds, NEW skip \in SkipRate
    PROVE  LET first == Recommend(f, ema, b, skip, FALSE)
               retry == Recommend(f, ema, b, skip, TRUE)
           IN  first.mid <= retry.mid /\ first.high <= retry.high
<1> DEFINE t1 == Escalated(Tier(skip), FALSE)
           t2 == Escalated(Tier(skip), TRUE)
           m1 == Clamp(Blend(Anchor(f, t1), ema), b)
           m2 == Clamp(Blend(Anchor(f, t2), ema), b)
           h1 == Larger(Ceiling(f, t1), m1)
           h2 == Larger(Ceiling(f, t2), m2)
<1>0. t1 \in 0 .. 3 /\ t2 \in t1 .. 3
  BY TierRises, Zenon
<1> HIDE DEF t1, t2
<1>1. t1 \in 0 .. 3 /\ t2 \in t1 .. 3 /\ t2 \in 0 .. 3
  BY <1>0
<1>2. /\ Anchor(f, t1) \in Nat /\ Ceiling(f, t1) \in Nat
      /\ Anchor(f, t2) \in Nat /\ Ceiling(f, t2) \in Nat
      /\ Anchor(f, t1) <= Anchor(f, t2) /\ Ceiling(f, t1) <= Ceiling(f, t2)
  BY <1>1, TierPrices
<1>3. /\ Blend(Anchor(f, t1), ema) \in Nat /\ Blend(Anchor(f, t2), ema) \in Nat
      /\ Blend(Anchor(f, t1), ema) <= Blend(Anchor(f, t2), ema)
  BY <1>2, BlendRises, BlendMonotone
<1>4. m1 \in Nat /\ m2 \in Nat /\ m1 <= m2
  BY <1>3, ClampWithin, ClampMonotone
<1> HIDE DEF m1, m2
<1>5. h1 \in Nat /\ h2 \in Nat /\ h1 <= h2
  BY <1>2, <1>4 DEF Larger
<1> HIDE DEF h1, h2
<1>6. Clamp(h1, b) <= Clamp(h2, b)
  BY <1>5, ClampMonotone
<1> QED
  BY <1>4, <1>6 DEF Recommend, t1, t2, m1, m2, h1, h2

-------------------------------------------------------------------------------
(***************************************************************************)
(* The inductive invariant.  The window's slots ascend, were all confirmed *)
(* and gave the current rate; the band being decided on is the one its     *)
(* quote gives; a starved transaction holds the operator's minimum.        *)
(***************************************************************************)
WindowOK ==
    /\ \A i, j \in 1 .. Len(window) : i < j => window[i] < window[j]
    /\ \A i \in 1 .. Len(window) : window[i] \in confirmed
    /\ skip_rate = Rate(window)

Quote == [floor : Floor, ema : MaybeTip, bounds : Bounds, skip : SkipRate]

Shown(q, escalating) ==
    LET b == Recommend(q.floor, q.ema, q.bounds, q.skip, escalating)
    IN  IF UseSender THEN Lifted(b, MinSenderTip) ELSE b

QuoteOK ==
    /\ quote \in Quote
    /\ step = "decide" => quote.bounds = Effective /\ band = Shown(quote, kind = "post_failure")

StarveOK ==
    Decider = "heuristic" /\ starve =>
        /\ step = "submit"  => tip = Operator.min /\ kind = "initial_submit"
        /\ step = "outcome" => paid = Operator.min /\ kind = "initial_submit"

IInv == TypeOK /\ WindowOK /\ QuoteOK /\ StarveOK

(* The window after a slot: ascending, within its capacity, and made of    *)
(* what it held and the slot.                                              *)
LEMMA ObserveWindow ==
    ASSUME NEW w \in Seq(StreamSlots), NEW slot \in StreamSlots, Len(w) <= Capacity,
           \A i, j \in 1 .. Len(w) : i < j => w[i] < w[j]
    PROVE  LET o == Observe(w, slot)
           IN  /\ o \in Seq(StreamSlots) /\ Len(o) <= Capacity
               /\ \A i, j \in 1 .. Len(o) : i < j => o[i] < o[j]
               /\ \A i \in 1 .. Len(o) : o[i] = slot \/ \E k \in 1 .. Len(w) : o[i] = w[k]
<1> DEFINE longer == Append(w, slot)
<1>1. CASE w # <<>> /\ slot <= w[Len(w)]
  BY <1>1, LenProperties DEF Observe
<1>2. CASE ~ (w # <<>> /\ slot <= w[Len(w)])
  <2>1. /\ longer \in Seq(StreamSlots) /\ Len(longer) = Len(w) + 1 /\ Len(w) \in Nat
        /\ \A i \in 1 .. Len(w) : longer[i] = w[i]
        /\ longer[Len(w) + 1] = slot
    BY AppendProperties, LenProperties
  <2>2. \A i \in 1 .. Len(w) : w[i] \in StreamSlots /\ w[i] < slot
    <3> SUFFICES ASSUME NEW i \in 1 .. Len(w) PROVE w[i] \in StreamSlots /\ w[i] < slot
      OBVIOUS
    <3>0. Len(w) \in 1 .. Len(w) /\ w # <<>>
      BY <2>1, EmptySeq
    <3>1. w[i] \in Nat /\ w[Len(w)] \in Nat /\ slot \in Nat /\ Len(w) \in Nat /\ w # <<>>
      BY <2>1, <3>0, ElementOfSeq, SlotsAreNat
    <3>2. w[Len(w)] < slot
      BY <1>2, <3>1
    <3>3. i = Len(w) \/ w[i] < w[Len(w)]
      BY <3>1
    <3> QED
      BY <3>1, <3>2, <3>3, ElementOfSeq
  <2>3. \A i, j \in 1 .. Len(longer) : i < j => longer[i] < longer[j]
    <3> SUFFICES ASSUME NEW i \in 1 .. Len(longer), NEW j \in 1 .. Len(longer), i < j
                 PROVE  longer[i] < longer[j]
      OBVIOUS
    <3>1. i \in 1 .. Len(w) /\ (j \in 1 .. Len(w) \/ j = Len(w) + 1)
      BY <2>1
    <3> QED
      BY <2>1, <2>2, <3>1
  <2>4. \A i \in 1 .. Len(longer) : longer[i] = slot \/ \E k \in 1 .. Len(w) : longer[i] = w[k]
    BY <2>1
  <2>5. CASE Len(longer) <= Capacity
    <3>1. Observe(w, slot) = longer
      BY <1>2, <2>1, <2>5, CapacityAssumption DEF Observe
    <3> QED
      BY <2>1, <2>3, <2>4, <2>5, <3>1
  <2>6. CASE ~ (Len(longer) <= Capacity)
    <3>1. Observe(w, slot) = Tail(longer)
      BY <1>2, <2>1, <2>6, CapacityAssumption DEF Observe
    <3>2. /\ Tail(longer) \in Seq(StreamSlots) /\ Len(Tail(longer)) = Len(w)
          /\ \A i \in 1 .. Len(w) : Tail(longer)[i] = longer[i + 1]
      BY <2>1, HeadTailProperties, EmptySeq
    <3> HIDE DEF longer
    <3>3. \A i, j \in 1 .. Len(w) : i < j => Tail(longer)[i] < Tail(longer)[j]
      BY <2>1, <2>3, <3>2
    <3>4. \A i \in 1 .. Len(w) :
            Tail(longer)[i] = slot \/ \E k \in 1 .. Len(w) : Tail(longer)[i] = w[k]
      BY <2>1, <2>4, <3>2
    <3> QED
      BY <3>1, <3>2, <3>3, <3>4
  <2> QED
    BY <2>5, <2>6
<1> QED
  BY <1>1, <1>2

(* Over an ascending window, a span holds at least its slots.              *)
LEMMA RateType ==
    ASSUME NEW w \in Seq(StreamSlots)
    PROVE  Rate(w) \in SkipRate
<1>1. CASE w = <<>> \/ Span(w) < MinSpan
  BY <1>1 DEF Rate, SkipRate
<1>2. CASE ~ (w = <<>> \/ Span(w) < MinSpan)
  <2>1. Len(w) \in Nat \ {0}
    BY <1>2, EmptySeq
  <2>2. w[1] \in Nat /\ w[Len(w)] \in Nat
    <3>1. 1 \in 1 .. Len(w) /\ Len(w) \in 1 .. Len(w)
      BY <2>1
    <3> QED
      BY <3>1, ElementOfSeq, SlotsAreNat
  <2>3. Span(w) \in Nat \ {0}
    BY <1>2, <2>2, MinSpanAssumption DEF Span
  <2> QED
    BY <1>2, <2>1, <2>3 DEF Rate, SkipRate
<1> QED
  BY <1>1, <1>2

LEMMA EffectiveBounds == Effective \in Bounds
BY OperatorAssumption DEF Effective, Bounds

LEMMA SmoothedType ==
    ASSUME NEW ema \in MaybeTip
    PROVE  Smoothed(ema) \in MaybeTip
BY OperatorAssumption, ClampWithin DEF Smoothed, MaybeTip

LEMMA FoldEmaType ==
    ASSUME NEW ema \in MaybeTip, NEW f \in Floor
    PROVE  FoldEma(ema, f) \subseteq Nat
<1>1. f.p50 \in Nat /\ f.ema_p50 \in Nat
  BY DEF Floor, Percentiles
<1> QED
  BY <1>1 DEF FoldEma, MaybeTip, Smaller, Larger

(* The band shown is ordered, at or above the lower bound, and above the   *)
(* upper one only by Helius Sender's minimum.                              *)
LEMMA ShownWithin ==
    ASSUME NEW q \in Quote, NEW escalating \in BOOLEAN
    PROVE  LET b == Shown(q, escalating)
           IN  /\ b \in Band
               /\ b.low <= b.mid /\ b.mid <= b.high
               /\ q.bounds.min <= b.low
               /\ b.high <= IF UseSender THEN Larger(q.bounds.max, MinSenderTip) ELSE q.bounds.max
               /\ ~ UseSender => b.low <= q.bounds.max
<1> DEFINE r == Recommend(q.floor, q.ema, q.bounds, q.skip, escalating)
<1>1. /\ r \in Band /\ q.bounds.min <= r.low /\ r.low <= r.mid
      /\ r.mid <= r.high /\ r.high <= q.bounds.max
      /\ q.bounds.min \in Nat /\ q.bounds.max \in Nat
  <2>1. q.floor \in Floor /\ q.ema \in MaybeTip /\ q.bounds \in Bounds /\ q.skip \in SkipRate
    BY DEF Quote
  <2> QED
    BY <2>1, RecommendWithin DEF Bounds
<1>2. Shown(q, escalating) = IF UseSender THEN Lifted(r, MinSenderTip) ELSE r
  BY DEF Shown
<1> HIDE DEF r
<1> QED
  BY <1>1, <1>2, SlotsAreNat DEF Lifted, Larger, Band

LEMMA InvInit == Init => IInv
<1> SUFFICES ASSUME Init PROVE IInv
  OBVIOUS
<1>1. TypeOK
  BY CapacityAssumption, EmptySeq DEF Init, TypeOK, SkipRate, Band, NoBand
<1>2. WindowOK
  BY EmptySeq DEF Init, WindowOK, Rate
<1>3. QuoteOK
  BY FloorsAssumption, OperatorAssumption DEF Init, QuoteOK, Quote, NoQuote, MaybeTip, SkipRate
<1>4. StarveOK
  BY DEF Init, StarveOK
<1> QED
  BY <1>1, <1>2, <1>3, <1>4 DEF IInv

LEMMA ConfirmedSlotStep == IInv /\ ConfirmedSlot => IInv'
<1> SUFFICES ASSUME IInv, ConfirmedSlot PROVE IInv'
  OBVIOUS
<1> USE DEF IInv
<1>1. PICK slot \in StreamSlots :
        /\ window' = Observe(window, slot)
        /\ skip_rate' = Rate(window')
        /\ confirmed' = confirmed \cup {slot}
  BY DEF ConfirmedSlot
<1>2. UNCHANGED <<sender, starve, ema_p50, step, kind, band, tip, paid, quote>>
  BY DEF ConfirmedSlot
<1>3. /\ window' \in Seq(StreamSlots) /\ Len(window') <= Capacity
      /\ \A i, j \in 1 .. Len(window') : i < j => window'[i] < window'[j]
      /\ \A i \in 1 .. Len(window') :
           window'[i] = slot \/ \E k \in 1 .. Len(window) : window'[i] = window[k]
  BY <1>1, ObserveWindow DEF TypeOK, WindowOK
<1>4. TypeOK'
  BY <1>1, <1>2, <1>3, RateType DEF TypeOK
<1>5. WindowOK'
  BY <1>1, <1>3 DEF WindowOK
<1>6. QuoteOK'
  BY <1>2 DEF QuoteOK, Shown, UseSender, Effective
<1>7. StarveOK'
  BY <1>2 DEF StarveOK
<1> QED
  BY <1>4, <1>5, <1>6, <1>7

LEMMA BuildContextStep == IInv /\ BuildContext => IInv'
<1> SUFFICES ASSUME IInv, BuildContext PROVE IInv'
  OBVIOUS
<1> USE DEF IInv
<1> DEFINE escalating == kind = "post_failure"
<1>1. PICK floor \in Floors \cup {Fallback} :
        /\ \/ floor \in Floors /\ ema_p50' \in FoldEma(ema_p50, floor)
           \/ floor = Fallback /\ UNCHANGED ema_p50
        /\ quote' = [floor |-> floor, ema |-> Smoothed(ema_p50'), bounds |-> Effective, skip |-> skip_rate]
        /\ band' = LET b == Recommend(floor, Smoothed(ema_p50'), Effective, skip_rate, escalating)
                   IN  IF UseSender THEN Lifted(b, MinSenderTip) ELSE b
  BY DEF BuildContext
<1>2. step' = "decide" /\ UNCHANGED <<ingestVars, sender, starve, kind, tip, paid>>
  BY DEF BuildContext
<1>3. ema_p50' \in MaybeTip
  BY <1>1, FoldEmaType, FloorsAssumption DEF TypeOK, MaybeTip
<1>4. quote' \in Quote
  BY <1>1, <1>3, SmoothedType, EffectiveBounds, FloorsAssumption DEF TypeOK, Quote
<1>5. band' = Shown(quote', escalating)
  BY <1>1 DEF Shown
<1>6. band' \in Band
  BY <1>4, <1>5, ShownWithin
<1>7. TypeOK'
  BY <1>2, <1>3, <1>6 DEF TypeOK, ingestVars, MaybeTip
<1>8. WindowOK'
  BY <1>2 DEF WindowOK, ingestVars
<1>9. quote'.bounds = Effective /\ Effective' = Effective /\ UseSender' = UseSender
  BY <1>1, <1>2 DEF Effective, UseSender
<1>10. QuoteOK'
  BY <1>2, <1>4, <1>5, <1>9 DEF QuoteOK, Shown
<1>11. StarveOK'
  BY <1>2 DEF StarveOK
<1> QED
  BY <1>7, <1>8, <1>10, <1>11

LEMMA DecideStep == IInv /\ Decide => IInv'
<1> SUFFICES ASSUME IInv, Decide PROVE IInv'
  OBVIOUS
<1> USE DEF IInv
<1> DEFINE escalating == kind = "post_failure"
<1>1. /\ step = "decide" /\ step' = "submit"
      /\ ~ (starve /\ kind = "post_failure")
      /\ tip' \in Named
      /\ UNCHANGED <<ingestVars, sender, starve, ema_p50, kind, band, paid, quote>>
  BY DEF Decide
<1>2. band = Shown(quote, escalating) /\ quote.bounds = Effective /\ quote \in Quote
  BY <1>1 DEF QuoteOK
<1>3. /\ band \in Band /\ band.low <= band.mid /\ Effective.min <= band.low
      /\ band.high <= IF UseSender THEN Larger(Effective.max, MinSenderTip) ELSE Effective.max
      /\ band.mid <= band.high
  BY <1>2, ShownWithin
<1>4. tip' \in Nat
  BY <1>1, <1>3, AgentAssumption DEF Named, Larger, Band
<1>5. TypeOK'
  BY <1>1, <1>4 DEF TypeOK, ingestVars
<1>6. WindowOK'
  BY <1>1 DEF WindowOK, ingestVars
<1>7. QuoteOK'
  BY <1>1 DEF QuoteOK
<1>8. ASSUME Decider = "heuristic", starve
      PROVE  tip' = Operator.min /\ kind = "initial_submit"
  <2>1. kind = "initial_submit"
    BY <1>1, <1>8 DEF TypeOK
  <2>2. ~ UseSender /\ Effective.min = Operator.min /\ Effective.max = Operator.min
    BY <1>8 DEF UseSender, Effective
  <2>3. band.mid \in Nat /\ band.low \in Nat /\ band.high \in Nat /\ Operator.min \in Nat
    BY <1>3, OperatorAssumption DEF Band, Bounds
  <2>4. band.mid = Operator.min
    BY <1>3, <2>2, <2>3
  <2> QED
    BY <1>1, <1>8, <2>1, <2>4 DEF Named
<1>9. StarveOK'
  BY <1>1, <1>8 DEF StarveOK
<1> QED
  BY <1>5, <1>6, <1>7, <1>9

LEMMA NextTransactionStep == IInv /\ NextTransaction => IInv'
<1> SUFFICES ASSUME IInv, NextTransaction PROVE IInv'
  OBVIOUS
<1> USE DEF IInv, NextTransaction
<1>1. TypeOK'
  BY DEF TypeOK, ingestVars
<1>2. WindowOK'
  BY DEF WindowOK, ingestVars
<1>3. QuoteOK'
  BY DEF QuoteOK
<1>4. StarveOK'
  BY DEF StarveOK
<1> QED
  BY <1>1, <1>2, <1>3, <1>4

LEMMA SubmitStep == IInv /\ Submit => IInv'
<1> SUFFICES ASSUME IInv, Submit PROVE IInv'
  OBVIOUS
<1> USE DEF IInv
<1>1. /\ step = "submit" /\ step' = "outcome"
      /\ paid' = IF UseSender THEN Larger(tip, MinSenderTip) ELSE tip
      /\ UNCHANGED <<ingestVars, sender, starve, ema_p50, kind, band, tip, quote>>
  BY DEF Submit
<1>2. TypeOK'
  BY <1>1, SlotsAreNat DEF TypeOK, ingestVars, Larger
<1>3. WindowOK'
  BY <1>1 DEF WindowOK, ingestVars
<1>4. QuoteOK'
  BY <1>1 DEF QuoteOK
<1>5. StarveOK'
  BY <1>1 DEF StarveOK, UseSender
<1> QED
  BY <1>2, <1>3, <1>4, <1>5

LEMMA FailedAttemptStep == IInv /\ FailedAttempt => IInv'
<1> SUFFICES ASSUME IInv, FailedAttempt PROVE IInv'
  OBVIOUS
<1> USE DEF IInv, FailedAttempt
<1>1. TypeOK'
  BY DEF TypeOK, ingestVars
<1>2. WindowOK'
  BY DEF WindowOK, ingestVars
<1>3. QuoteOK'
  BY DEF QuoteOK
<1>4. StarveOK'
  BY DEF StarveOK
<1> QED
  BY <1>1, <1>2, <1>3, <1>4

LEMMA InvStep == IInv /\ [Next]_vars => IInv'
<1> SUFFICES ASSUME IInv, [Next]_vars PROVE IInv'
  OBVIOUS
<1>1. CASE ConfirmedSlot
  BY <1>1, ConfirmedSlotStep
<1>2. CASE BuildContext
  BY <1>2, BuildContextStep
<1>3. CASE Decide
  BY <1>3, DecideStep
<1>4. CASE Abort
  BY <1>4, NextTransactionStep DEF Abort
<1>5. CASE Submit
  BY <1>5, SubmitStep
<1>6. CASE Landed
  BY <1>6, NextTransactionStep DEF Landed
<1>7. CASE FailedAttempt
  BY <1>7, FailedAttemptStep
<1>8. CASE UNCHANGED vars
  BY <1>8 DEF vars, ingestVars, IInv, TypeOK, WindowOK, QuoteOK, StarveOK, Shown, UseSender, Effective
<1> QED
  BY <1>1, <1>2, <1>3, <1>4, <1>5, <1>6, <1>7, <1>8 DEF Next

LEMMA IInvAlways == Spec => []IInv
BY InvInit, InvStep, PTL DEF Spec

(* Type correctness, for every window, market, budget and decider.         *)
THEOREM TypeCorrect == Spec => []TypeOK
<1>1. IInv => TypeOK
  BY DEF IInv
<1> QED
  BY <1>1, IInvAlways, PTL

(* The band the agent decides on is ordered and within the bounds in       *)
(* force, whatever the floor, the smoothed median and the skip rate.       *)
THEOREM BandBounded == Spec => []BandWithinBounds
<1>1. IInv => BandWithinBounds
  <2> SUFFICES ASSUME IInv, step = "decide" PROVE BandWithinBounds
    BY DEF BandWithinBounds
  <2>1. quote \in Quote /\ quote.bounds = Effective /\ band = Shown(quote, kind = "post_failure")
    BY DEF IInv, QuoteOK
  <2> QED
    BY <2>1, ShownWithin DEF BandWithinBounds
<1> QED
  BY <1>1, IInvAlways, PTL

(* A retry is never quoted less than a first submission.                   *)
THEOREM RetryDearer == Spec => []EscalationNeverCheaper
<1>1. IInv => EscalationNeverCheaper
  BY RecommendEscalates DEF IInv, QuoteOK, Quote, EscalationNeverCheaper
<1> QED
  BY <1>1, IInvAlways, PTL

(* With the heuristic decider, a starved transaction pays the operator's   *)
(* minimum, once.                                                          *)
THEOREM StarvedOnce == Decider = "heuristic" => (Spec => []StarvedPaysFloor)
<1> SUFFICES ASSUME Decider = "heuristic" PROVE Spec => []StarvedPaysFloor
  OBVIOUS
<1>1. IInv => StarvedPaysFloor
  BY DEF IInv, StarveOK, StarvedPaysFloor
<1> QED
  BY <1>1, IInvAlways, PTL

(* A span holds at most Span - Len(window) slots the window does not name, *)
(* so the skip rate counts every slot that was not confirmed.              *)
THEOREM NeverUnderstated == Spec => []SkipNeverUnderstated
<1>1. IInv => SkipNeverUnderstated
  <2> SUFFICES ASSUME IInv, window # <<>>, Span(window) >= MinSpan
               PROVE  skip_rate.den = Span(window) /\ skip_rate.num >= Cardinality(Missing)
    BY DEF SkipNeverUnderstated
  <2> DEFINE n     == Len(window)
             span  == window[1] .. window[n]
             named == {window[i] : i \in 1 .. n}
  <2>1. /\ window \in Seq(StreamSlots) /\ skip_rate = Rate(window)
        /\ \A i, j \in 1 .. n : i < j => window[i] < window[j]
        /\ \A i \in 1 .. n : window[i] \in confirmed
    BY DEF IInv, TypeOK, WindowOK
  <2>2. n \in Nat \ {0} /\ 1 \in 1 .. n /\ n \in 1 .. n
    BY <2>1, EmptySeq
  <2>3. \A i \in 1 .. n : window[i] \in Nat
    BY <2>1, ElementOfSeq, SlotsAreNat
  <2> HIDE DEF n
  <2>4. Span(window) \in Nat /\ Span(window) = window[n] - window[1] + 1
    BY <2>2, <2>3, MinSpanAssumption DEF Span, n
  <2>5. window[1] <= window[n]
    BY <2>1, <2>2, <2>3
  <2>6. IsFiniteSet(span) /\ Cardinality(span) = Span(window)
    <3>1. window[1] \in Int /\ window[n] \in Int /\ ~ (window[1] > window[n])
      BY <2>2, <2>3, <2>5
    <3>2. /\ IsFiniteSet(span)
          /\ Cardinality(span) = IF window[1] > window[n] THEN 0 ELSE window[n] - window[1] + 1
      BY <3>1, FS_Interval, Zenon
    <3> QED
      BY <2>4, <3>1, <3>2
  <2>7. named \subseteq span
    <3> SUFFICES ASSUME NEW i \in 1 .. n PROVE window[i] \in span
      OBVIOUS
    <3>1. (i = 1 \/ window[1] < window[i]) /\ (i = n \/ window[i] < window[n])
      BY <2>1, <2>2
    <3> QED
      BY <2>2, <2>3, <3>1
  <2>8. IsFiniteSet(named) /\ Cardinality(named) = n
    <3> DEFINE f == [i \in 1 .. n |-> window[i]]
    <3>1. f \in Surjection(1 .. n, named)
      BY DEF Surjection
    <3>2. \A i, j \in 1 .. n : f[i] = f[j] => i = j
      <4> SUFFICES ASSUME NEW i \in 1 .. n, NEW j \in 1 .. n, window[i] = window[j] PROVE i = j
        OBVIOUS
      <4>1. ~ (i < j) /\ ~ (j < i)
        BY <2>1, <2>3
      <4> QED
        BY <2>2, <4>1
    <3>3. f \in Injection(1 .. n, named)
      BY <3>2 DEF Injection, IsInjective
    <3>4. IsFiniteSet(1 .. n) /\ Cardinality(1 .. n) = n
      BY <2>2, FS_Interval
    <3> HIDE DEF f, named
    <3>5. IsFiniteSet(named) /\ Cardinality(named) = Cardinality(1 .. n)
      BY <3>1, <3>3, <3>4, FS_Surjection, Zenon
    <3> QED
      BY <3>4, <3>5
  <2>9. IsFiniteSet(span \ named) /\ Cardinality(span \ named) = Span(window) - n
    <3>1. IsFiniteSet(span \ named)
      BY <2>6, FS_Subset
    <3>2. (span \ named) \cup named = span /\ (span \ named) \cap named = {}
      BY <2>7
    <3> HIDE DEF span, named
    <3>3. Cardinality(span) = Cardinality(span \ named) + n - 0
      BY <2>8, <3>1, <3>2, FS_Union, FS_EmptySet
    <3>4. Cardinality(span \ named) \in Nat
      BY <3>1, FS_CardinalityType
    <3> QED
      BY <2>2, <2>4, <2>6, <3>1, <3>3, <3>4
  <2>10. Missing \subseteq span \ named
    BY <2>1 DEF Missing, n
  <2>11. Cardinality(Missing) \in Nat /\ Cardinality(Missing) <= Span(window) - n
    <3> HIDE DEF span, named
    <3> QED
      BY <2>9, <2>10, FS_Subset, FS_CardinalityType
  <2>12. skip_rate = [num |-> Span(window) - n, den |-> Span(window)]
    <3>1. Span(window) >= n
      BY <2>2, <2>4, <2>9, FS_CardinalityType
    <3> QED
      BY <2>1, <2>4, <3>1, MinSpanAssumption DEF Rate, n
  <2> QED
    BY <2>11, <2>12
<1> QED
  BY <1>1, IInvAlways, PTL
===============================================================================
