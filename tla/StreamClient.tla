----------------------------- MODULE StreamClient -----------------------------
(***************************************************************************)
(* The Yellowstone stream client (crates/txradar-stream): the supervisor   *)
(* run, one connect_and_stream at a time, and the bounded channel to the   *)
(* ingest task, which keeps the last connection state it was told.         *)
(*                                                                         *)
(* Outside the program: the server.  wire is what it publishes, in order;  *)
(* slot numbers on it may go back, since confirmed and finalized updates   *)
(* trail processed ones.  A subscription streams what is published from    *)
(* then on, after a replay of what is already on the wire at or past       *)
(* from_slot.  Updates are named by their position on the wire.            *)
(*                                                                         *)
(* The server may ask for a sign of life; the pong is sent by the reader,  *)
(* in turn.  The client's own keepalives change no state.  A pong or a     *)
(* keepalive that cannot be sent is a broken stream.                       *)
(***************************************************************************)
EXTENDS Integers, Sequences, FiniteSets, Functions

CONSTANTS
    InitialBackoff,     \* initial_backoff_ms.max(1)
    MaxBackoff,         \* max_backoff_ms
    Replay,             \* replay_from_last_slot
    ReconnectEnabled,   \* reconnect.enabled
    Capacity,           \* channel_capacity.max(1)
    WireSlots,          \* slots the server reports on
    MaxWire,            \* bound: updates published
    MaxFailures,        \* bound: failed dials and ended streams
    None

ASSUME BackoffAssumption == InitialBackoff \in Nat \ {0} /\ MaxBackoff \in Nat
ASSUME ConfigAssumption  == Replay \in BOOLEAN /\ ReconnectEnabled \in BOOLEAN /\ Capacity \in Nat \ {0}
ASSUME WireAssumption    == WireSlots \subseteq Nat /\ None \notin WireSlots
ASSUME BoundsAssumption  == MaxWire \in Nat /\ MaxFailures \in Nat

VARIABLES
    \* the stream task; cleanEnd is history: the last stream ended without an error
    phase, backoff, last_slot, hand, cleanEnd,
    \* the channel, and whether its receiver was dropped
    channel, closed,
    \* the ingest task: NetworkState.connection, and the updates it handled
    connection, handled,
    \* the server: its wire, what is on its way to the client; read is history
    wire, feed, read,
    failures

clientVars == <<phase, backoff, last_slot, hand, cleanEnd>>
ingestVars == <<connection, handled>>
serverVars == <<wire, feed, read, failures>>
vars       == <<clientVars, channel, closed, ingestVars, serverVars>>

ConnectionState == {"Connecting", "Connected", "Reconnecting", "Disconnected"}
Phases == {"announce", "dial", "greet", "pump", "deliver", "ended", "failed", "fatal",
           "retry", "sleep", "farewell", "stopped"}

Status(state)  == [kind |-> "connection", state |-> state]
Update(i)      == [kind |-> "update", at |-> i]
IsUpdate(e)    == e.kind = "update"
Ping           == 0
Subscribed     == phase \in {"greet", "pump", "deliver"}
WireEntry      == [kind : {"slot", "tx"}, slot : WireSlots]

Init ==
    /\ phase = "announce" /\ backoff = InitialBackoff
    /\ last_slot = None /\ hand = <<>> /\ cleanEnd = FALSE
    /\ channel = <<>> /\ closed = FALSE
    /\ connection = "Connecting" /\ handled = <<>>
    /\ wire = <<>> /\ feed = <<>> /\ read = <<>> /\ failures = 0

-------------------------------------------------------------------------------
(* run: a send of a connection state waits for room; to a dropped receiver *)
(* it returns at once, and the error is ignored.                           *)
Announce(from, state, to) ==
    /\ phase = from /\ phase' = to
    /\ IF closed THEN UNCHANGED channel
       ELSE Len(channel) < Capacity /\ channel' = Append(channel, Status(state))
    /\ UNCHANGED <<backoff, last_slot, hand, cleanEnd, closed, ingestVars, serverVars>>

AnnounceConnecting   == Announce("announce", "Connecting", "dial")
AnnounceConnected    == Announce("greet", "Connected", "pump")
AnnounceReconnecting == Announce("retry", "Reconnecting", "sleep")
AnnounceDisconnected == Announce("farewell", "Disconnected", "stopped")

\* A finite set of positions as the one sequence in their order.
Ascending(S) == {s \in [1 .. Cardinality(S) -> S] :
                    Range(s) = S /\ \A i, j \in DOMAIN s : i < j => s[i] < s[j]}

\* What a subscription from slot f starts with.
ReplayFrom(f) == Ascending({i \in DOMAIN wire : wire[i].slot >= f})

from_slot == IF Replay THEN last_slot ELSE None

\* Mutant: the replay starts after the last slot seen.
ConnectPast ==
    /\ phase = "dial" /\ phase' = "greet"
    /\ feed' \in IF from_slot = None THEN {<<>>} ELSE ReplayFrom(from_slot + 1)
    /\ UNCHANGED <<backoff, last_slot, hand, cleanEnd, channel, closed, ingestVars, wire, read, failures>>

\* Connected and subscribed.
Connect ==
    /\ phase = "dial" /\ phase' = "greet"
    /\ feed' \in IF from_slot = None THEN {<<>>} ELSE ReplayFrom(from_slot)
    /\ UNCHANGED <<backoff, last_slot, hand, cleanEnd, channel, closed, ingestVars, wire, read, failures>>

\* connect_and_stream returns: an error when dialling, any result when streaming.
Breaks ==
    /\ phase \in {"dial", "pump"} /\ failures < MaxFailures
    /\ phase' \in IF phase = "dial" THEN {"failed", "fatal"} ELSE {"ended", "failed", "fatal"}
    /\ feed' = <<>> /\ failures' = failures + 1
    /\ cleanEnd' = (phase' = "ended")
    /\ UNCHANGED <<backoff, last_slot, hand, channel, closed, ingestVars, wire, read>>

ReadUpdate ==
    /\ phase = "pump" /\ feed # <<>> /\ Head(feed) # Ping /\ phase' = "deliver"
    /\ hand' = <<Head(feed)>>
    /\ feed' = Tail(feed) /\ read' = Append(read, Head(feed))
    /\ last_slot' = IF wire[Head(feed)].kind = "slot" THEN wire[Head(feed)].slot ELSE last_slot
    /\ UNCHANGED <<backoff, cleanEnd, channel, closed, ingestVars, wire, failures>>

\* Mutant: a ping is read past, and owed for ever.
AnswerPingNever ==
    /\ phase = "pump" /\ feed # <<>> /\ Head(feed) = Ping
    /\ feed' = Append(Tail(feed), Ping)
    /\ UNCHANGED <<clientVars, channel, closed, ingestVars, wire, read, failures>>

\* A ping is answered at once, once the reader gets to it.
AnswerPing ==
    /\ phase = "pump" /\ feed # <<>> /\ Head(feed) = Ping
    /\ feed' = Tail(feed)
    /\ UNCHANGED <<clientVars, channel, closed, ingestVars, wire, read, failures>>

\* Mutant: an update that finds the channel full is dropped.
DeliverOrDrop ==
    /\ phase = "deliver" /\ hand' = <<>>
    /\ IF closed THEN phase' = "ended" /\ feed' = <<>> /\ UNCHANGED channel
       ELSE /\ phase' = "pump" /\ UNCHANGED feed
            /\ channel' = IF Len(channel) < Capacity THEN Append(channel, Update(hand[1])) ELSE channel
    /\ UNCHANGED <<backoff, last_slot, cleanEnd, closed, ingestVars, wire, read, failures>>

\* Mutant: the channel is unbounded.
DeliverUnbounded ==
    /\ phase = "deliver" /\ hand' = <<>>
    /\ IF closed THEN phase' = "ended" /\ feed' = <<>> /\ UNCHANGED channel
       ELSE phase' = "pump" /\ UNCHANGED feed /\ channel' = Append(channel, Update(hand[1]))
    /\ UNCHANGED <<backoff, last_slot, cleanEnd, closed, ingestVars, wire, read, failures>>

\* The update goes into the channel; with the receiver gone the stream is over.
Deliver ==
    /\ phase = "deliver" /\ hand' = <<>>
    /\ IF closed THEN phase' = "ended" /\ feed' = <<>> /\ UNCHANGED channel
       ELSE /\ phase' = "pump" /\ UNCHANGED feed /\ Len(channel) < Capacity
            /\ channel' = Append(channel, Update(hand[1]))
    /\ UNCHANGED <<backoff, last_slot, cleanEnd, closed, ingestVars, wire, read, failures>>

\* Mutants: a fatal error, or the end of a stream, stops the task in silence.
ReviewSilent ==
    /\ phase \in {"ended", "failed", "fatal"}
    /\ phase' = IF closed \/ phase = "fatal" THEN "stopped"
                ELSE IF ReconnectEnabled THEN "retry" ELSE "farewell"
    /\ UNCHANGED <<backoff, last_slot, hand, cleanEnd, channel, closed, ingestVars, serverVars>>

ReviewOnce ==
    /\ phase \in {"ended", "failed", "fatal"}
    /\ phase' = IF closed THEN "stopped"
                ELSE IF phase = "failed" /\ ReconnectEnabled THEN "retry" ELSE "farewell"
    /\ UNCHANGED <<backoff, last_slot, hand, cleanEnd, channel, closed, ingestVars, serverVars>>

\* The supervisor looks at the result.
Review ==
    /\ phase \in {"ended", "failed", "fatal"}
    /\ phase' = IF closed THEN "stopped"
                ELSE IF phase # "fatal" /\ ReconnectEnabled THEN "retry" ELSE "farewell"
    /\ UNCHANGED <<backoff, last_slot, hand, cleanEnd, channel, closed, ingestVars, serverVars>>

Larger(a, b)  == IF a >= b THEN a ELSE b
Smaller(a, b) == IF a <= b THEN a ELSE b

\* The backoff is slept and then doubled.
Sleep ==
    /\ phase = "sleep" /\ phase' = "announce"
    /\ backoff' = Smaller(2 * backoff, Larger(MaxBackoff, backoff))
    /\ cleanEnd' = FALSE
    /\ UNCHANGED <<last_slot, hand, channel, closed, ingestVars, serverVars>>

-------------------------------------------------------------------------------
(* The ingest task.                                                        *)
Receive ==
    /\ ~ closed /\ channel # <<>>
    /\ channel' = Tail(channel)
    /\ LET e == Head(channel)
       IN  IF IsUpdate(e) THEN handled' = Append(handled, e.at) /\ UNCHANGED connection
           ELSE connection' = e.state /\ UNCHANGED handled
    /\ UNCHANGED <<clientVars, closed, serverVars>>

DropHandle ==
    /\ ~ closed
    /\ closed' = TRUE /\ channel' = <<>>
    /\ UNCHANGED <<clientVars, ingestVars, serverVars>>

-------------------------------------------------------------------------------
(* The server.                                                             *)
Publish ==
    /\ Len(wire) < MaxWire
    /\ \E e \in WireEntry : wire' = Append(wire, e)
    /\ feed' = IF Subscribed THEN Append(feed, Len(wire) + 1) ELSE feed
    /\ UNCHANGED <<clientVars, channel, closed, ingestVars, read, failures>>

SendPing ==
    /\ Subscribed /\ Ping \notin Range(feed)
    /\ feed' = Append(feed, Ping)
    /\ UNCHANGED <<clientVars, channel, closed, ingestVars, wire, read, failures>>

-------------------------------------------------------------------------------
Client ==
    \/ AnnounceConnecting \/ AnnounceConnected \/ AnnounceReconnecting \/ AnnounceDisconnected
    \/ Connect \/ ReadUpdate \/ AnswerPing \/ Deliver \/ Review \/ Sleep

Next == Client \/ Breaks \/ Receive \/ DropHandle \/ Publish \/ SendPing

Spec == Init /\ [][Next]_vars

(* The runtime polls both tasks again and again, and a dial ends.          *)
FairSpec == Spec /\ WF_vars(Client) /\ WF_vars(Receive)

-------------------------------------------------------------------------------
(* Type correctness; the channel never holds more than its capacity, and   *)
(* the backoff stays within its cap, or at the configured first one where  *)
(* that is above it.                                                       *)
TypeOK ==
    /\ phase \in Phases /\ backoff \in InitialBackoff .. Larger(InitialBackoff, MaxBackoff)
    /\ last_slot \in WireSlots \cup {None} /\ cleanEnd \in BOOLEAN
    /\ Len(channel) <= Capacity /\ closed \in BOOLEAN
    /\ \A k \in DOMAIN channel : channel[k] \in
         {Status(s) : s \in ConnectionState} \cup {Update(i) : i \in DOMAIN wire}
    /\ connection \in ConnectionState
    /\ Len(wire) <= MaxWire /\ wire \in Seq(WireEntry)
    /\ {Range(feed) \ {Ping}, Range(read), Range(handled), Range(hand)} \subseteq SUBSET DOMAIN wire
    /\ Len(hand) <= 1 /\ failures \in 0 .. MaxFailures

(* The ingest task handles every update read from the wire once, in the    *)
(* order it was read, across any number of reconnects: a full channel      *)
(* holds the reader back and never drops or overtakes an update.           *)
NothingDropped ==
    ~ closed =>
        \E queued \in Ascending({k \in DOMAIN channel : IsUpdate(channel[k])}) :
            read = handled \o [k \in DOMAIN queued |-> channel[queued[k]].at] \o hand

(* The gap of an outage is replayed: once a slot was seen, an update       *)
(* published later is read or on its way to a subscribed client, unless a  *)
(* slot update past its slot had been read.                                *)
GapReplayed ==
    Replay /\ Subscribed =>
        \A i \in DOMAIN wire :
            \/ i \in Range(read) \cup Range(feed)
            \/ ~ \E r \in Range(read) : r < i /\ wire[r].kind = "slot"
            \/ \E r \in Range(read) : wire[r].kind = "slot" /\ wire[r].slot > wire[i].slot

(* The connection state the ingest task ends up with is the client's own,  *)
(* above all Disconnected once the task has stopped for good.              *)
StatusTruthful ==
    ~ closed /\ channel = <<>> =>
        /\ phase \in {"pump", "deliver"} => connection = "Connected"
        /\ phase = "dial"    => connection = "Connecting"
        /\ phase = "sleep"   => connection = "Reconnecting"
        /\ phase = "stopped" => connection = "Disconnected"

(* A stream that ended or failed is taken up again, unless the next error  *)
(* is a fatal one or nobody listens any more.                              *)
Recovers ==
    ReconnectEnabled =>
        (phase \in {"ended", "failed"}) ~> (phase \in {"pump", "fatal"} \/ closed)

(* A ping does not stay unanswered behind a full channel: the reader comes *)
(* to it, unless the stream is lost first.                                 *)
PingAnswered == (Ping \in Range(feed)) ~> (Ping \notin Range(feed))

(* connect_and_stream says it resets the caller's backoff by returning     *)
(* normally on a clean end: the next sleep is the initial one.             *)
BackoffResets == phase = "sleep" /\ cleanEnd => backoff = InitialBackoff
===============================================================================
