# TxRadar in TLA+

TxRadar submits Solana transactions as Jito bundles (or through Helius
Sender), follows them on a Yellowstone gRPC stream, lets an agent choose tips
and retries, and logs one lifecycle record per attempt. This directory holds
TLA+ models of that program, translated from the Rust source, the TLC
configurations that check them, and proofs checked by TLAPS. `PROJECT.json`
maps every definition to the lines it models.

## 1. The system

    Yellowstone --gRPC--> stream client --mpsc channel--> ingest task
                                                             |  locks
                                             shared LifecycleTracker, NetworkState
                                                             |  locks
    Jito tip floor --> tip oracle --> LiveExecutor <--> Jito block engine / Helius Sender
                                        ^    |
                               agent (decider)   records --> JSONL log

Three tasks run concurrently: the stream task, the ingest task, and the run
(campaign, attempt loop, executor). The tracker and the network state are
behind mutexes that are never held across an await, so what may interleave is
exactly what lies between two awaits or two lock acquisitions. A fourth task
renders the dashboard and joins the run.

| Component | State | Operations | What makes it correct |
| --- | --- | --- | --- |
| lifecycle tracker (`txradar-core/tracker.rs`) | `active` by signature, `completed` | track, on_transaction, on_slot_commitment, expire_unlanded, mark_failed, flush_active, drain_completed | one record per bundle; stages never regress and each has evidence; a landed bundle completes even when updates are lost |
| live executor (`executor.rs`) | blockhash, attempt id, armed fault, starve flag | submit, build_context, refresh_blockhash, finalize_pending, drain_records | every attempt is logged once; a landing it reports is on record and on chain; it returns |
| attempt loop, deciders (`txradar-agent`) | retries, last failure and tip | run_attempt_loop, decide | consults the agent only with nothing in flight; stays within the budget |
| campaign and run driver (`main.rs`) | transaction counter, starve flag | run_campaign, execute_run, run_fault_demo, preflight_balance | attempts in the log in order, none twice, none missing |
| stream client (`txradar-stream`) | backoff, last slot, channel | spawn, run, connect_and_stream | drops nothing, replays an outage, reports its own state, comes back |
| stream ingest (`ingest.rs`) | skip window, `NetworkState` | on_slot, receive loop | a skip rate replay cannot lower |
| tip oracle (`txradar-tips`) | EMA of the median | refresh, recommend_from | an ordered band within the bounds; retries never cheaper |
| Jito client (`jito.rs`) | time of the last request | throttle, call, send, status | spacing of requests over all clones; bounded retries |
| Gemini decider (`gemini.rs`) | - | decide, send_with_retry | bounded retries; a named delay is honoured |
| blockhash manager, RPC (`blockhash.rs`, `rpc.rs`) | current hash, forced staleness | refresh, current, force_stale | a stale hash is signed again only where a refresh failed |
| Helius Sender, bundle builder | - | send, build | minimum tip |
| lifecycle log (`txradar-log`) | the file | open, append | a prefix of the run, also when a write fails |
| dashboard (`txradar-tui`, `main.rs`) | rows, phase of the render loop | upsert, note, quit, join | rows say what the records say; leaving it does not abandon the run |

What is hard here: updates from the stream come late, twice, out of order or
not at all; the executor reads the tracker, awaits, and acts on what it read;
a send can fail after it was accepted; a timeout races a late landing; forks
drop slots; errors leave the run by `?` between two steps of its bookkeeping.
`PROJECT.json` lists these hazards line by line, with the properties that
would catch each one.

## 2. Modules

| Module | Models | Notes |
| --- | --- | --- |
| `TrackerOps` | the tracker's methods as operators on a tracker value | a record `[active, completed]`; sets of results where the code iterates a HashMap |
| `Lifecycle` | abstract: what the tracker promises of one bundle | submitted once, one slot, one outcome |
| `LifecycleTracker` | the tracker alone: each method an action, called in any order | `heard`, `drained` are history, read only by properties; `Bundle(sig)` is the refinement mapping to `Lifecycle` |
| `Submission` | one logical transaction: attempt loop, `submit_live`, flush, drain and log on one task, ingest on another, with chain, block engine and Jito status outside | one action per stretch between two awaits or locks; `pc` is the await the executor is at |
| `Campaign` | a whole run: preflight, log, several transactions over one tracker and one blockhash cache, both deciders, the fault demo, the dashboard | the chain of `Submission` and the tips of `Pricing` are abstracted here |
| `StreamClient` | the supervisor, one stream at a time, pings, the bounded channel, the receive loop, the server outside | updates are named by their place on the wire |
| `RetryingClients` | the block-engine client's shared gate and retries, the Gemini client's retries | time in ticks; a sleep may last longer than asked |
| `TipBand` | the oracle's arithmetic | a skip rate is a fraction, so that no float is needed |
| `SkipWindow` | the window of confirmed slots and its rate | |
| `Pricing` | from slots and floor to the tip paid: ingest, `build_context`, decider, `submit` | composes `TipBand` and `SkipWindow` |
| `TrackerOpsProofs` | lemmas about the tracker's methods | used by the proofs of its three users |
| `LifecycleTrackerProofs`, `LifecycleTrackerRefinement` | the tracker's theorems; its refinement | |
| `SubmissionProofs`, `CampaignProofs`, `StreamClientProofs`, `RetryingClientsProofs`, `PricingProofs` | theorems of those modules | |
| `MC*` | constants for TLC | |

`Submission` and `Campaign` both run the executor over `TrackerOps`, at two
grains. `Submission` asks what the interleaving with stream, chain and timers
does to one transaction; `Campaign` asks what is carried from one attempt or
transaction to the next: budget, blockhash, drained records, rows. Names
follow the source where TLA+ allows it (`OnSlotCommitment` is
`on_slot_commitment`). Operators marked *Mutant* are plausible bugs of the
code kept beside the definition they change; no specification uses them, and
each one breaks the property that `PROJECT.json` pairs it with.

### Abstractions

* A signature is its attempt's number or a model value; times, notes and
  rationales are left out. In `Submission` a block height is the number of its
  slot; in `Campaign` it is only whether the hash's window has passed.
* Floats: the skip rate is an exact fraction. The EMA is kept by its rounded
  value, and a fold returns every value between the old one and the new
  median: rounding is monotone, so this holds for any smoothing factor in (0, 1].
* A fatal stream error is one `is_fatal` recognises by its text: any break may
  be one. Commitment levels on the wire matter to the tracker, not to the
  stream client.
* An answer of Jito or Gemini is what the client tells apart: good, asking to
  come back, or fatal. Gemini's decision is any action, or an error.
* An append writes nothing, part of its line or all of it before it fails; a
  line after a partial one is glued to it, which `Line` records.
* In `Pricing` the heuristic decider has a retry budget of at least one, as both
  profiles do (4): with none it aborts before its first submission. It may
  also abort after any failure.

## 3. Runs

| Run | Question | Bounds |
| --- | --- | --- |
| `tracker` | does the tracker keep its promises under any order of calls and updates, and implement `Lifecycle` for each bundle? | 2 bundles, 2 slots, 2 heights, 1 unsigned record |
| `submission` | does a transaction end with every attempt logged once and every reported landing real? | 2 attempts, 3 slots (2 in its violation runs), validity 1, timeout of 2 polls, Jito interval of 1, status calls of up to 2 (all 1 in the violation runs), 1 abandoned slot |
| `campaign` | over a whole run: is the budget kept, the log a prefix of the run, a reported landing logged as one, the hash fresh, the dashboard truthful; does it end? | 2 transactions, the first starved, 2 attempts each; one slot and height |
| `stream` | does the client lose, reorder or fail to replay anything, report its state truthfully, answer pings, come back? | 3 updates on 2 slots, channel of 1, 2 failures, backoff 2 capped at 3 |
| `clients` | are requests spaced over tasks, delays honoured, and does every call return? | 3 callers, interval of 2 ticks, 2 rate-limited answers each, 3 Gemini attempts |
| `pricing` | is the tip within bounds, dearer on retry, minimal when starved, and the skip rate honest? | 5 slots, window of 3, 2 floors and the fallback |

Why these are enough. Two bundles are needed for one to overtake another and
for two to complete in one call; a third adds no new pair. Two slots give a
landing before, at and after a committed one. Two attempts give a late answer
to the first while the second is in flight, three slots an ancestor, the
landing and a later slot, one of them on an abandoned fork. A status call of no
polls, one or two, against an interval of one and a window of two, ends before
the next is due, outlasts the interval within the window, or outlasts both. Two
transactions of two attempts give a campaign that goes on after a starved,
held, aborted and landed transaction, two records in one drain and an append
that fails between them; one slot suffices there because order among slots is
`Submission`'s question. A channel of one makes every send able to block; three
updates on two slots make an update of the older slot trail one of the newer,
on either side of an outage. Three callers let one wait at the gate while one
pauses in it and one backs off. A window of three over five slots evicts,
leaves gaps of every size up to the span, and reaches the three congestion
tiers. The theorems of section 4 remove these bounds for the tracker, the
transaction, the campaign, the stream client, the tips and the clients.

Six runs show where a document or comment and the code part. Each checks the
one property the quoted line states:

| Run | What is said | What the code does |
| --- | --- | --- |
| `fork_confirmed` | a landing is confirmed when *its* slot is | any later confirmed slot confirms it, ancestor or not |
| `landed_marked_failed` | a landed bundle fails only if its transaction did | a late send error, Jito answer or timeout closes a landed one as failed |
| `records_lost` | the log never loses a completed record | an error after a failed attempt returns before drain |
| `backoff_not_reset` | a clean end resets the backoff | it only ever grows |
| `model_tip_unbounded` | the agent raises the tip within the configured bounds | the model's number is paid unclamped |
| `hold_abandoned` | Hold: re-evaluate on the next tick, driven by the caller | the transaction is over; nothing ticks it again |

Noted while modelling, without a run of their own:

* A status call waits at the throttle, backs off up to six times (about 25 s
  in all, against a poll of 2 s) and sets no HTTP timeout. The confirm loop
  waits for it, so the timeout is noticed late by as much, and never if the call
  hangs, although `confirm_timeout` is said to be how long to wait
  (`executor.rs:110`). A call lasts any number of polls up to `MaxCall` here,
  which the proofs leave open; `RunEnds` assumes that it returns.
* Every confirm timeout is classed `ExpiredBlockhash`, which `failure.rs:13`
  defines by the block height; no height is read there.
* A landing between the last look at the tracker and `mark_failed` ends in a
  failed outcome, so that a retry may land a second time.
* `main.rs:684` says that a campaign never reuses a stale blockhash; after a
  failed refresh the cached one is kept and signed (`SignsFreshHash` has this
  exception).
* The dashboard's row of an attempt that landed at Confirmed stays at
  submitted; the connection shown in a live run is the constant "connected",
  not `NetworkState.connection`; `next_leader_slot` is never set.
* A draw error drops the run with the records it holds, and a partial last
  line is glued to the first record of the next run.
* The preflight check funds one cycle of attempts, not one per transaction of
  a campaign, and neither Sender's minimum nor its priority fee.
* Hybrid broadcast is documented as a fallback to Sender, but
  `should_use_sender` takes Sender whenever the mode is Hybrid;
  `AttemptOutcome::Landed` is documented as landed and finalized but is
  returned at Confirmed; the heuristic decider is documented as the fallback
  for an unreachable Gemini but is chosen once, at start, when there is no
  key, and it ignores an expired hash on the first submission.
* Sender's minimum can lift the band above the operator's ceiling (testnet's
  100,000 against 200,000), which the Gemini prompt denies (`BandWithinBounds`
  states the band with that exception); a slot whose confirmed update comes
  late counts as skipped (`SkipNeverUnderstated` bounds the rate from one side
  only); `TipContext.escalating` is documented for fee failures and set after any.

### Fairness

* `LifecycleTracker`: weak fairness of one update alone, that the highest slot
  is finalized (`TopSlotFinalizes`), for `LandedCompletes`: the chain goes on
  finalizing and the stream says so; any Processed or Confirmed may be missing.
* `Submission.FairSpec`: weak fairness of the executor's task, which the
  runtime polls until it ends, and of Jito's answer, an assumption (see above).
  A send always ends, possibly in an error, because the executor may take the
  error at any time. No fairness of the chain or of the stream: the run ends
  even if nothing is ever seen.
* `Campaign.FairSpec`: weak fairness of the run's task, and of the render loop
  noticing the end and joining, both polled by the runtime. Nobody has to
  press a key and the stream owes nothing.
* `StreamClient.FairSpec`: weak fairness of the stream task and of the receive
  loop, both polled by the runtime; none of the server or of breaks. A dial
  ends, because the client sets connect and request timeouts.
* `RetryingClients.FairSpec`: time passes, sleepers wake, requests are
  answered; strong fairness of a caller's turn at the gate, because a tokio
  mutex hands itself to its waiters first come, first served, while the model's
  gate is free and taken again and again.

Deadlock is checked for the tracker, the clients and pricing. It is not for
submission, campaign and stream, which stop: a run ends in the log or in an
error, a stream task when a fatal error or a dropped receiver ends it.

## 4. Proofs

`TrackerOpsProofs` holds lemmas about the tracker's methods alone: each keeps
a tracker a tracker (`IsTracker`), and each *moves* it. `Moves(tr, after,
kept, news, vouched)` says what one call may do: append records to
`completed`, one per bundle that leaves `active`, while every bundle that
stays is unchanged or goes one stage on. A landing comes from `news` (what the
stream saw of transactions), a success from a slot in `vouched` (what it
confirmed), and a bundle of `kept` is not failed. It needs followed bundles to
be `Sound`: filed under their signature, without a failure, with a slot
exactly past Submitted. `OneOpen(tr, pre, n)` says of the executor's use of the
tracker that the records of attempts 1 .. n stand in order, in what was
taken out (`pre`) followed by `completed`, but that the last may still be
followed; every move keeps it (`MovesOneOpen`), and so does opening the next
attempt when nothing is followed (`TrackOneOpen`). `Marked(tr)` says that a
followed bundle is at the stage of its last event and that a record closed
without a failure `EndsIn` one of the stages: it is what makes the last event
of a record a stage to show. Every method keeps it and takes no record back
(`GrowsTo`).

`LifecycleTrackerProofs`, for every finite set of signatures and every set of slots and heights:

* `TypeCorrect`, `OneRecord`, `Opened`, `SuccessLanded`, `Evidenced`, `Traced`.
* The invariant is `IInv == TypeOK /\ Safe(tracker.active, History, heard)`,
  where `History` is what was drained followed by what is completed. The
  properties are not inductive one by one: that a completion adds no second
  record needs followed bundles to be absent from the history, and that a
  completed record has evidence needs the open record's stage to have it. `Safe`
  states all of them together of an arbitrary followed map, history and set
  of heard updates; one lemma per method shows it kept, and
  `SettleSafe` does so once for every method that closes records. `IInvIsAll` gives the properties back.

`LifecycleTrackerRefinement`: by `NextGrows` every step of the tracker follows
a new bundle, drains, or moves. From that, `Final` (completed records are
never rewritten, reordered or dropped) and `Forward` (nothing regresses or
leaves without a record) follow as action properties, and `Implements`: for each
signature the step is one of `Lifecycle` or none. The mapping takes `outcomes`
from the history, so the uniqueness of records in `IInv` is what makes
`Submit` and the single outcome hold.

`SubmissionProofs`, for any number of attempts and slots, any timeouts and
every order of stream updates, answers and chain events:

* `Typed`, `AllLogged`, `AgentAlone` from `Ordered` (`OneOpen` with the log in
  front, and nothing followed wherever the agent is consulted) and `Timers`
  (Jito was last asked after the receipt). No theorem bounds how far a
  status call overruns the confirm window: the code does not.
* `SuccessTrue` and `LandingsKept` from what ties the tracker to the chain:
  while no fork is abandoned, what the stream saw is what was executed
  (`SeenIsTrue`), every record is `Honest` about its transaction, every
  stage from Confirmed on has its slot confirmed (`SlotsConfirmed`), and what
  the loop was told is on record (`Reports`). A landing is lost neither by
  the flush nor by the stream because `LandedIn` is in `kept` there; the
  executor's own `mark_failed`, which may fail a landed bundle, comes only
  before it reports. The theorems carry the properties' exception for an
  abandoned slot, where the run `fork_confirmed` shows why it is needed.
* `AttemptsImplement`: within the program that makes the tracker's calls, and
  up to the log, each attempt lives one run of `Lifecycle`. The mapping reads the
  stage and slot from the tracker and the outcome from all records, drained or
  not (`AttemptsLiveOnce`). `MovesLive` turns what moved (`Moves`) into a step of
  the attempt's lifecycle; that an attempt is submitted only once, which the
  tracker alone takes as a restriction on its callers, here follows from the
  order of the records (`NoEndYet`).

`CampaignProofs`, for any number of transactions, attempts, slots and both deciders:

* `Budgeted`: the loop counts failures and the executor counts attempts; the
  invariant ties the two at each await (`Counted`), with budget left past
  the decider.
* `InTheLog`: `OneOpen` with the file and the drained records in front
  (`InOrder`). That an attempt's id is a signature at all needs the budget: each
  transaction starts within its share of the ids (`Cycle`). A partial line
  is followed by no other (`torn` with an empty file, or the run has ended).
* `LandingsInTheLog`: from the report on, the landing is `Secure`, on the
  record or on the followed bundle; `MovesSecure` keeps it through the settle
  wait and the flush, and past its transaction the record is in the file.
* `FreshlySigned` and `LeftInOrder`, an action property and an invariant of the
  join, from small invariants of their own.
* `TypeCorrect`: `Typed` adds to `Kept` the types of the loop, the endings and
  the rows. An attempt id is in the cycle because the budget is kept; a row
  has one of the known stages because the tracker is `Marked`.
* `ShownAsRecorded`: the row noted is that of the *last* completed record, so
  it must be that of the attempt just ended. `RowsInv` says why: only a single
  run has a dashboard, its file is empty until it appends, and by `Kept` the
  completed records are then exactly those of the attempts, in order. A row
  once ended stays true because no step changes an account (`AccountsGrow`:
  draining and writing move a record, the stream and the flush add to them).
* `FaultOvercome`: `FaultInv` walks the demo through its stages (armed, met,
  past). That the second attempt's record is finalized takes `SimulatedFiles`,
  that its hash is not the stale one the heuristic's refresh. With a budget of one
  the demo aborts instead, hence the property's condition.

`StreamClientProofs`, for any wire, channel and number of outages:

* `Truthful`: between what the receiver knows and what the client is about to
  tell lies the channel; the invariant says that the last state told is that
  of the client's phase wherever it owes none (`LastTold`).
* `TypeCorrect` from `TypeInv`, which also bounds every place named in the
  channel, the feed or the history by the wire's length.
* `GapsReplayed` from `GapInv`: `last_slot` is the slot of an update read, and
  of every update on the wire one of four things holds while subscribed: it is
  read, it is on its way, a slot past its own was read, or it came before
  everything the client knows of. The replay of a reconnect brings it back
  to the second case.
* `NoneDropped` from `DropInv`: the places of the updates in the channel, in
  ascending order, are carried along as a witness (`Places`); appending,
  receiving and announcing change that witness at its ends only.

`PricingProofs`, for every floor, bounds, window capacity and set of slots:

* `RecommendWithin` and `RecommendEscalates` are facts about the oracle's
  arithmetic alone, from monotonicity of clamp, blend and the tier tables;
  they use that a published floor's percentiles do not decrease
  (`FloorsAssumption`), which is what a percentile is.
* `TypeCorrect`; `BandBounded`, `RetryDearer` and `StarvedOnce` follow because
  the invariant ties the band at a decision to the quote it was built from
  (`QuoteOK`) and the starved tip to the operator's minimum (`StarveOK`).
* `NeverUnderstated`: the window ascends and holds only confirmed slots
  (`WindowOK`), so the span has exactly `Span - Len` slots it does not name, and
  those not confirmed are among them.

`RetryingClientsProofs`, for any set of callers and any limits: `TypeCorrect`;
`SpacedAlways`, because whoever pauses holds the gate and its nap is at least
what is missing from the interval; `HintAlways`, because the nap is at least
what is owed.

The proofs take from the modules' assumptions on constants only that sets are
finite or of numbers, that limits are positive, and that the signatures are
the attempt ids; the chain needs one slot (`MaxSlot`). `None` is no member of
the sets it is the alternative of (`NoneIsNoHash`, `NoneIsNoClass`).

## 5. Only model-checked, and not modelled

Model-checked only:

* liveness (`LandedCompletes`, `RunEnds`, `Recovers`, `PingAnswered`,
  `CallsReturn`), since liveness under fairness is beyond the prover;
* what the six violation runs refute: a counterexample needs no proof.

Every invariant and action property of the passing runs is a theorem. One
theorem is of a property no run checks: `AttemptsLiveOnce` is stated in
`SubmissionProofs`; the tracker's own run checks the mapping as
`ImplementsLifecycle`.

Not modelled:

* leader gating, which `LiveExecutor::new` switches off, and with it
  `getNextScheduledLeader`; `getBundleStatuses`, which no run calls;
* the dashboard's gauges and reasoning feed, which nothing reads back, and the
  times and notes on records;
* signing, serialisation, JSON and gRPC transport, the prompt, the reading of
  error texts (`classify_failure`, `is_fatal` are choices here), and the
  conversion of the published tip floats to lamports;
* configuration, secrets, `canary`, `simulate` and the stream smoke test: read
  once, or one-shot diagnostics that share no state with a run;
* the vendored protocol crate, which is generated code.

## 6. What could come next

The composition of `StreamClient` with `Submission`, so that replayed and
repeated updates reach the tracker through the channel; a proof that the
tracker implements `Lifecycle` within a whole `Campaign` too, whose signatures
are those of many transactions; leader gating, should it be switched on.
