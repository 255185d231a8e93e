---------------------------- MODULE RetryingClients ----------------------------
(***************************************************************************)
(* The two HTTP clients that retry: the block-engine client (jito.rs), all *)
(* clones of which share one rate gate, and the Gemini client (gemini.rs). *)
(* Time is counted in ticks; a sleep may last longer than it was asked to. *)
(*                                                                         *)
(* An answer is what the code tells apart: a good one, one that asks to    *)
(* come back later, a fatal one.  The services are outside.                *)
(***************************************************************************)
EXTENDS Integers

CONSTANTS
    Callers,          \* tasks that hold a clone of the block-engine client
    MinInterval,      \* min_interval: ticks between two requests of all of them
    MaxRateRetries,   \* MAX_RATE_RETRIES
    JitoBase,         \* first backoff after a rate limit, in ticks
    JitoShift,        \* how often it doubles at most
    JitoCap,          \* the longest backoff
    MaxAttempts,      \* MAX_ATTEMPTS of the Gemini client
    GeminiBase,       \* BASE_BACKOFF_MS, in ticks
    GeminiShift,      \* how often it doubles at most
    MaxBackoff,       \* MAX_BACKOFF
    Delays,           \* the retry delays Gemini may name
    None

\* A shift by up to five bits, the widest of the two clients.
Doubled == <<1, 2, 4, 8, 16, 32>>

ASSUME TicksAssumption ==
    /\ {MinInterval, MaxRateRetries, JitoBase, JitoCap, GeminiBase, MaxBackoff} \subseteq Nat
    /\ MaxAttempts \in Nat \ {0}
    /\ JitoShift \in 0 .. 5 /\ GeminiShift \in 0 .. 5
    /\ Delays \subseteq Nat /\ None \notin Delays /\ None \notin Callers

VARIABLES
    \* each caller: where it is, rate-limited answers so far, ticks it still sleeps
    at, limited, nap,
    \* the gate: who holds it, and the ticks since the last request (at most MinInterval)
    gate, since,
    \* the Gemini call: where it is, attempts so far, ticks it still sleeps
    gAt, tried, gNap,
    \* what is left of the delay Gemini asked for, capped as the code caps it: read by properties only
    owed

jitoVars   == <<at, limited, nap, gate, since>>
geminiVars == <<gAt, tried, gNap, owed>>
vars       == <<jitoVars, geminiVars>>

Least(a, b)   == IF a < b THEN a ELSE b
Greater(a, b) == IF a < b THEN b ELSE a

Init ==
    /\ at = [c \in Callers |-> "idle"] /\ limited = [c \in Callers |-> 0] /\ nap = [c \in Callers |-> 0]
    /\ gate = None /\ since = MinInterval
    /\ gAt = "idle" /\ tried = 0 /\ gNap = 0 /\ owed = 0

-------------------------------------------------------------------------------
(* The block-engine client: call.                                          *)
Call(c) ==
    /\ at[c] = "idle"
    /\ at' = [at EXCEPT ![c] = "gate"]
    /\ limited' = [limited EXCEPT ![c] = 0]
    /\ UNCHANGED <<nap, gate, since, geminiVars>>

\* Mutant: the gate is let go before the sleep, not after it.
ThrottleUnlocked(c) ==
    /\ at[c] = "gate" /\ gate = None
    /\ IF since < MinInterval
       THEN at' = [at EXCEPT ![c] = "pause"] /\ nap' = [nap EXCEPT ![c] = MinInterval - since]
            /\ UNCHANGED <<gate, since>>
       ELSE at' = [at EXCEPT ![c] = "wire"] /\ since' = 0 /\ UNCHANGED <<gate, nap>>
    /\ UNCHANGED <<limited, geminiVars>>

\* throttle takes the gate, and keeps it while it sleeps out the interval.
Throttle(c) ==
    /\ at[c] = "gate" /\ gate = None
    /\ IF since < MinInterval
       THEN /\ at' = [at EXCEPT ![c] = "pause"] /\ nap' = [nap EXCEPT ![c] = MinInterval - since]
            /\ gate' = c /\ since' = since
       ELSE at' = [at EXCEPT ![c] = "wire"] /\ since' = 0 /\ UNCHANGED <<gate, nap>>
    /\ UNCHANGED <<limited, geminiVars>>

\* The request's start is recorded, the gate released, the request sent.
Paused(c) ==
    /\ at[c] = "pause" /\ nap[c] = 0
    /\ at' = [at EXCEPT ![c] = "wire"]
    /\ gate' = None /\ since' = 0
    /\ UNCHANGED <<limited, nap, geminiVars>>

RateBackoff(n) == Least(JitoBase * Doubled[Least(n, JitoShift) + 1], JitoCap)

\* 429 or -32097: sleep and start over, MaxRateRetries times.
RateLimited(c) ==
    /\ at[c] = "wire"
    /\ IF limited[c] < MaxRateRetries
       THEN /\ at' = [at EXCEPT ![c] = "backoff"]
            /\ nap' = [nap EXCEPT ![c] = RateBackoff(limited[c])]
            /\ limited' = [limited EXCEPT ![c] = @ + 1]
       ELSE at' = [at EXCEPT ![c] = "idle"] /\ UNCHANGED <<nap, limited>>
    /\ UNCHANGED <<gate, since, geminiVars>>

\* A result, an error of the service, an unexpected shape or a broken connection.
Answered(c) ==
    /\ at[c] = "wire"
    /\ at' = [at EXCEPT ![c] = "idle"]
    /\ UNCHANGED <<limited, nap, gate, since, geminiVars>>

BackedOff(c) ==
    /\ at[c] = "backoff" /\ nap[c] = 0
    /\ at' = [at EXCEPT ![c] = "gate"]
    /\ UNCHANGED <<limited, nap, gate, since, geminiVars>>

-------------------------------------------------------------------------------
(* The Gemini client: send_with_retry.                                     *)
Ask ==
    /\ gAt = "idle"
    /\ gAt' = "wire" /\ tried' = 0 /\ owed' = 0
    /\ UNCHANGED <<jitoVars, gNap>>

\* Mutant: the longer of the two delays is not taken.
BackoffDelayUnhinted(n, hint) ==
    LET computed == GeminiBase * Doubled[Least(n, GeminiShift) + 1]
    IN  Least(IF hint = None THEN computed ELSE Least(hint, computed), MaxBackoff)

\* backoff_delay: exponential, raised to the delay the service names, then capped.
BackoffDelay(n, hint) ==
    LET computed == GeminiBase * Doubled[Least(n, GeminiShift) + 1]
    IN  Least(IF hint = None THEN computed ELSE Greater(hint, computed), MaxBackoff)

\* Mutant: the attempts are counted only when the service names no delay.
TransientUncounted(hint) ==
    /\ gAt = "wire"
    /\ IF tried + 1 < MaxAttempts
       THEN /\ gAt' = "backoff" /\ gNap' = BackoffDelay(tried, hint)
            /\ tried' = IF hint = None THEN tried + 1 ELSE tried
            /\ owed' = IF hint = None THEN 0 ELSE Least(hint, MaxBackoff)
       ELSE gAt' = "idle" /\ UNCHANGED <<tried, gNap, owed>>
    /\ UNCHANGED jitoVars

\* Mutant: the limit is looked at after the backoff was decided.
TransientLate(hint) ==
    /\ gAt = "wire"
    /\ IF tried < MaxAttempts
       THEN /\ gAt' = "backoff" /\ gNap' = BackoffDelay(tried, hint) /\ tried' = tried + 1
            /\ owed' = IF hint = None THEN 0 ELSE Least(hint, MaxBackoff)
       ELSE gAt' = "idle" /\ UNCHANGED <<tried, gNap, owed>>
    /\ UNCHANGED jitoVars

\* 429 or 5xx, which may name a delay, a failed connect or a timeout, which cannot.
Transient(hint) ==
    /\ gAt = "wire"
    /\ IF tried + 1 < MaxAttempts
       THEN /\ gAt' = "backoff" /\ gNap' = BackoffDelay(tried, hint) /\ tried' = tried + 1
            /\ owed' = IF hint = None THEN 0 ELSE Least(hint, MaxBackoff)
       ELSE gAt' = "idle" /\ UNCHANGED <<tried, gNap, owed>>
    /\ UNCHANGED jitoVars

\* Success, whatever its body is worth, or an error no retry can mend.
Final ==
    /\ gAt = "wire"
    /\ gAt' = "idle"
    /\ UNCHANGED <<jitoVars, tried, gNap, owed>>

AskAgain ==
    /\ gAt = "backoff" /\ gNap = 0
    /\ gAt' = "wire"
    /\ UNCHANGED <<jitoVars, tried, gNap, owed>>

-------------------------------------------------------------------------------
Down(n) == IF n > 0 THEN n - 1 ELSE 0

Tick ==
    /\ nap' = [c \in Callers |-> Down(nap[c])]
    /\ gNap' = Down(gNap) /\ owed' = Down(owed)
    /\ since' = Least(since + 1, MinInterval)
    /\ UNCHANGED <<at, limited, gate, gAt, tried>>

Wake(c)  == Throttle(c) \/ Paused(c) \/ BackedOff(c)
Reply(c) == RateLimited(c) \/ Answered(c)
GeminiReply == Final \/ \E hint \in Delays \cup {None} : Transient(hint)

Next ==
    \/ \E c \in Callers : Call(c) \/ Wake(c) \/ Reply(c)
    \/ Ask \/ GeminiReply \/ AskAgain
    \/ Tick

Spec == Init /\ [][Next]_vars

(* Time passes and woken tasks run; the gate is a tokio mutex, which is    *)
(* handed to the waiting in turn; and, as neither client sets a timeout,   *)
(* it is an assumption that every request is answered.                     *)
FairSpec ==
    /\ Spec
    /\ WF_vars(Tick) /\ WF_vars(AskAgain) /\ WF_vars(GeminiReply)
    /\ \A c \in Callers : SF_vars(Throttle(c)) /\ WF_vars(Wake(c)) /\ WF_vars(Reply(c))

-------------------------------------------------------------------------------
(* Type correctness.                                                       *)
TypeOK ==
    /\ at \in [Callers -> {"idle", "gate", "pause", "wire", "backoff"}]
    /\ limited \in [Callers -> 0 .. MaxRateRetries]
    /\ nap \in [Callers -> Nat]
    /\ gate \in Callers \cup {None}
    /\ since \in 0 .. MinInterval
    /\ gAt \in {"idle", "wire", "backoff"} /\ tried \in 0 .. MaxAttempts - 1
    /\ gNap \in 0 .. MaxBackoff /\ owed \in 0 .. MaxBackoff

(* However many tasks share the block-engine client, and whatever each of  *)
(* them is backing off from, no request starts within MinInterval of the   *)
(* one before.                                                             *)
Spaced ==
    [][ \A c \in Callers : at[c] # "wire" /\ at'[c] = "wire" => since = MinInterval ]_vars

(* Gemini is not asked again before the delay it named is over, unless     *)
(* that delay is beyond MAX_BACKOFF.                                       *)
HintHonoured == [][ gAt = "backoff" /\ gAt' = "wire" => owed = 0 ]_vars

(* Every call returns, though its callers share a gate that is held across *)
(* a sleep, and though every answer may ask to come back.                  *)
CallsReturn ==
    /\ \A c \in Callers : at[c] = "gate" ~> at[c] = "idle"
    /\ gAt = "wire" ~> gAt = "idle"
===============================================================================
