------------------------ MODULE RetryingClientsProofs -------------------------
(***************************************************************************)
(* What the two retrying clients keep for every number of callers, every   *)
(* interval and every backoff: the types, the spacing of the block-engine  *)
(* client's requests, and the delays Gemini names.                         *)
(***************************************************************************)
EXTENDS RetryingClients, TLAPS

USE TicksAssumption

LEMMA DoubledType == ASSUME NEW n \in 0 .. 5 PROVE Doubled[n + 1] \in Nat
<1>1. n \in {0, 1, 2, 3, 4, 5}
  OBVIOUS
<1> QED
  BY <1>1 DEF Doubled

LEMMA LeastType == ASSUME NEW a \in Nat, NEW b \in Nat
                   PROVE  Least(a, b) \in Nat /\ Least(a, b) <= a /\ Least(a, b) <= b
BY DEF Least

LEMMA ProductType == ASSUME NEW a \in Nat, NEW b \in Nat PROVE a * b \in Nat
OBVIOUS

(* The delay after a rate limit, however often it doubled, is a delay.     *)
LEMMA RateBackoffType == ASSUME NEW n \in Nat PROVE RateBackoff(n) \in Nat
<1>1. Least(n, JitoShift) \in 0 .. 5
  BY DEF Least
<1>2. Doubled[Least(n, JitoShift) + 1] \in Nat
  BY <1>1, DoubledType
<1>3. JitoBase * Doubled[Least(n, JitoShift) + 1] \in Nat
  BY <1>2, ProductType
<1> QED
  BY <1>3, LeastType DEF RateBackoff

(* backoff_delay stays within MAX_BACKOFF, and is no shorter than what is  *)
(* owed: the delay Gemini named, capped.                                   *)
LEMMA BackoffDelayBounds ==
    ASSUME NEW n \in Nat, NEW hint \in Delays \cup {None}
    PROVE  /\ BackoffDelay(n, hint) \in 0 .. MaxBackoff
           /\ hint # None => Least(hint, MaxBackoff) \in 0 .. BackoffDelay(n, hint)
<1> DEFINE computed == GeminiBase * Doubled[Least(n, GeminiShift) + 1]
<1>1. Least(n, GeminiShift) \in 0 .. 5
  BY DEF Least
<1>2. computed \in Nat
  BY <1>1, DoubledType, ProductType
<1>3. BackoffDelay(n, hint)
        = Least(IF hint = None THEN computed ELSE Greater(hint, computed), MaxBackoff)
  BY DEF BackoffDelay
<1> HIDE DEF computed
<1>4. CASE hint = None
  BY <1>2, <1>3, <1>4 DEF Least
<1>5. CASE hint # None
  <2>1. hint \in Nat /\ MaxBackoff \in Nat
    BY <1>5
  <2>2. BackoffDelay(n, hint) = Least(Greater(hint, computed), MaxBackoff)
    BY <1>3, <1>5
  <2>3. /\ Least(Greater(hint, computed), MaxBackoff) \in 0 .. MaxBackoff
        /\ Least(hint, MaxBackoff) \in 0 .. Least(Greater(hint, computed), MaxBackoff)
    BY <1>2, <2>1 DEF Least, Greater
  <2> QED
    BY <2>2, <2>3
<1> QED
  BY <1>4, <1>5

-------------------------------------------------------------------------------
(***************************************************************************)
(* Only the caller that pauses holds the gate, it waits out what is left   *)
(* of the interval, and the Gemini call sleeps at least what it owes.      *)
(***************************************************************************)
GateIsPauser == \A c \in Callers : at[c] = "pause" <=> gate = c

PauseLongEnough == \A c \in Callers : at[c] = "pause" => since + nap[c] >= MinInterval

OwedIsSlept == gAt = "backoff" => owed <= gNap

IInv == TypeOK /\ GateIsPauser /\ PauseLongEnough /\ OwedIsSlept

LEMMA IInvInit == Init => IInv
BY DEF Init, IInv, TypeOK, GateIsPauser, PauseLongEnough, OwedIsSlept

(* The steps of the block-engine client.                                   *)
LEMMA JitoStep ==
    ASSUME IInv, NEW c \in Callers, Call(c) \/ Wake(c) \/ Reply(c)
    PROVE  IInv'
<1> USE DEF IInv, TypeOK, GateIsPauser, PauseLongEnough, OwedIsSlept, geminiVars
<1>1. CASE Call(c)
  BY <1>1 DEF Call
<1>2. CASE Throttle(c)
  BY <1>2 DEF Throttle
<1>3. CASE Paused(c)
  BY <1>3 DEF Paused
<1>4. CASE BackedOff(c)
  BY <1>4 DEF BackedOff
<1>5. CASE RateLimited(c)
  <2>1. RateBackoff(limited[c]) \in Nat
    BY RateBackoffType
  <2> QED
    BY <1>5, <2>1 DEF RateLimited
<1>6. CASE Answered(c)
  BY <1>6 DEF Answered
<1> QED
  BY <1>1, <1>2, <1>3, <1>4, <1>5, <1>6 DEF Wake, Reply

(* The steps of the Gemini client.                                         *)
LEMMA GeminiStep ==
    ASSUME IInv, Ask \/ GeminiReply \/ AskAgain
    PROVE  IInv'
<1> USE DEF IInv, TypeOK, GateIsPauser, PauseLongEnough, OwedIsSlept, jitoVars
<1>1. CASE Ask
  BY <1>1 DEF Ask
<1>2. CASE AskAgain
  BY <1>2 DEF AskAgain
<1>3. CASE Final
  BY <1>3 DEF Final
<1>4. ASSUME NEW hint \in Delays \cup {None}, Transient(hint) PROVE IInv'
  <2>1. /\ BackoffDelay(tried, hint) \in 0 .. MaxBackoff
        /\ hint # None => Least(hint, MaxBackoff) \in 0 .. BackoffDelay(tried, hint)
    BY BackoffDelayBounds
  <2> QED
    BY <1>4, <2>1 DEF Transient
<1> QED
  BY <1>1, <1>2, <1>3, <1>4 DEF GeminiReply

LEMMA TickStep == ASSUME IInv, Tick PROVE IInv'
<1> USE DEF IInv, TypeOK
<1>1. TypeOK'
  BY DEF Tick, Down, Least
<1>2. GateIsPauser'
  BY DEF Tick, GateIsPauser
<1>3. PauseLongEnough'
  BY DEF Tick, Down, Least, PauseLongEnough
<1>4. OwedIsSlept'
  BY DEF Tick, Down, OwedIsSlept
<1> QED
  BY <1>1, <1>2, <1>3, <1>4

LEMMA IInvStep == IInv /\ [Next]_vars => IInv'
<1> SUFFICES ASSUME IInv, [Next]_vars PROVE IInv'
  OBVIOUS
<1>1. CASE UNCHANGED vars
  BY <1>1 DEF IInv, TypeOK, GateIsPauser, PauseLongEnough, OwedIsSlept, vars, jitoVars, geminiVars
<1> QED
  BY <1>1, JitoStep, GeminiStep, TickStep DEF Next

LEMMA IInvAlways == Spec => []IInv
BY IInvInit, IInvStep, PTL DEF Spec

(* Type correctness: the retries of both clients stay within their limits  *)
(* and Gemini's backoff within MAX_BACKOFF, for every setting of them.     *)
THEOREM TypeCorrect == Spec => []TypeOK
<1>1. IInv => TypeOK
  BY DEF IInv
<1> QED
  BY <1>1, IInvAlways, PTL

(* No two requests to the block engine start within the interval, however  *)
(* many clones of the client share the gate.                               *)
THEOREM SpacedAlways == Spec => Spaced
<1>1. IInv /\ [Next]_vars =>
        [\A c \in Callers : at[c] # "wire" /\ at'[c] = "wire" => since = MinInterval]_vars
  <2> SUFFICES ASSUME IInv, Next, NEW c \in Callers, at[c] # "wire", at'[c] = "wire"
               PROVE  since = MinInterval
    OBVIOUS
  <2>1. TypeOK /\ PauseLongEnough
    BY DEF IInv
  <2>2. PICK d \in Callers : Throttle(d) \/ Paused(d)
    BY <2>1 DEF Next, Wake, Reply, Call, BackedOff, RateLimited, Answered, Ask, GeminiReply,
                Final, Transient, AskAgain, Tick, jitoVars, TypeOK
  <2>3. CASE Throttle(d)
    BY <2>1, <2>3 DEF Throttle, TypeOK
  <2>4. CASE Paused(d)
    BY <2>1, <2>4 DEF Paused, TypeOK, PauseLongEnough
  <2> QED
    BY <2>2, <2>3, <2>4
<1> QED
  BY <1>1, IInvAlways, PTL DEF Spec, Spaced

(* Gemini is not asked again before the delay it named, up to MAX_BACKOFF, *)
(* is over.                                                                *)
THEOREM HintAlways == Spec => HintHonoured
<1>1. IInv /\ [Next]_vars => [gAt = "backoff" /\ gAt' = "wire" => owed = 0]_vars
  <2> SUFFICES ASSUME IInv, Next, gAt = "backoff", gAt' = "wire" PROVE owed = 0
    OBVIOUS
  <2>1. TypeOK /\ OwedIsSlept
    BY DEF IInv
  <2>2. AskAgain
    BY DEF Next, Call, Wake, Throttle, Paused, BackedOff, Reply, RateLimited, Answered, Ask,
           GeminiReply, Final, Transient, Tick, geminiVars
  <2> QED
    BY <2>1, <2>2 DEF AskAgain, TypeOK, OwedIsSlept
<1> QED
  BY <1>1, IInvAlways, PTL DEF Spec, HintHonoured
===============================================================================
