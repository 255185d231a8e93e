-------------------------- MODULE StreamClientProofs --------------------------
(***************************************************************************)
(* What the ingest task believes of the connection and what it is handed,  *)
(* and what an outage can hide from it, for every capacity of the channel, *)
(* every backoff and any number of updates and failures.                   *)
(***************************************************************************)
EXTENDS StreamClient, SequenceTheorems, FiniteSetTheorems, TLAPS

(***************************************************************************)
(* The last state told: by the last status still in the channel or, with   *)
(* none in it, by the last one the ingest task received.  Where the client *)
(* has something to tell, it is told as soon as it enters the phase; the   *)
(* phases not in Owed lie between two announcements.                       *)
(***************************************************************************)
LastTold(ch, known, state) ==
    \/ known = state /\ \A k \in DOMAIN ch : IsUpdate(ch[k])
    \/ \E k \in DOMAIN ch :
          /\ ch[k] = Status(state)
          /\ \A j \in DOMAIN ch : j > k => IsUpdate(ch[j])

Owed == [dial |-> "Connecting", greet |-> "Connecting", pump |-> "Connected", deliver |-> "Connected",
         sleep |-> "Reconnecting", stopped |-> "Disconnected"]

StatusInv ==
    /\ \E S : channel \in Seq(S)
    /\ phase \in DOMAIN Owed /\ ~ closed => LastTold(channel, connection, Owed[phase])

(* What Append does, whatever is appended.                                 *)
LEMMA AppendAny ==
    ASSUME NEW S, NEW s \in Seq(S), NEW e
    PROVE  /\ \E T : Append(s, e) \in Seq(T)
           /\ Len(s) \in Nat
           /\ DOMAIN s = 1 .. Len(s)
           /\ DOMAIN Append(s, e) = 1 .. Len(s) + 1
           /\ Append(s, e)[Len(s) + 1] = e
           /\ \A k \in 1 .. Len(s) : Append(s, e)[k] = s[k]
<1> DEFINE T == S \cup {e}
<1>1. s \in Seq(T) /\ e \in T
  BY SeqMonotonic
<1> HIDE DEF T
<1> QED
  BY <1>1, AppendProperties, LenProperties

(* A status appended is the last one told.                                 *)
LEMMA TellStatus ==
    ASSUME NEW S, NEW ch \in Seq(S), NEW known, NEW state
    PROVE  LastTold(Append(ch, Status(state)), known, state)
<1> DEFINE after == Append(ch, Status(state))
<1>1. /\ Len(ch) \in Nat /\ DOMAIN after = 1 .. Len(ch) + 1
      /\ after[Len(ch) + 1] = Status(state)
  BY AppendAny
<1> HIDE DEF after
<1>2. Len(ch) + 1 \in DOMAIN after /\ \A j \in DOMAIN after : ~ (j > Len(ch) + 1)
  BY <1>1
<1> QED
  BY <1>1, <1>2 DEF LastTold, after

(* An update appended tells nothing.                                       *)
LEMMA TellUpdate ==
    ASSUME NEW S, NEW ch \in Seq(S), NEW known, NEW state, NEW i, LastTold(ch, known, state)
    PROVE  LastTold(Append(ch, Update(i)), known, state)
<1> DEFINE after == Append(ch, Update(i))
<1>1. /\ Len(ch) \in Nat /\ DOMAIN ch = 1 .. Len(ch) /\ DOMAIN after = 1 .. Len(ch) + 1
      /\ after[Len(ch) + 1] = Update(i)
      /\ \A k \in 1 .. Len(ch) : after[k] = ch[k]
  BY AppendAny
<1>2. IsUpdate(Update(i))
  BY DEF IsUpdate, Update
<1> HIDE DEF after
<1>3. CASE known = state /\ \A k \in DOMAIN ch : IsUpdate(ch[k])
  <2>1. \A k \in DOMAIN after : IsUpdate(after[k])
    <3> TAKE k \in DOMAIN after
    <3>1. k \in 1 .. Len(ch) \/ k = Len(ch) + 1
      BY <1>1
    <3> QED
      BY <1>1, <1>2, <1>3, <3>1
  <2> QED
    BY <1>3, <2>1 DEF LastTold, after
<1>4. ASSUME NEW k \in DOMAIN ch, ch[k] = Status(state),
             \A j \in DOMAIN ch : j > k => IsUpdate(ch[j])
      PROVE  LastTold(after, known, state)
  <2>1. k \in DOMAIN after /\ after[k] = Status(state)
    BY <1>1, <1>4
  <2>2. \A j \in DOMAIN after : j > k => IsUpdate(after[j])
    <3> TAKE j \in DOMAIN after
    <3> HAVE j > k
    <3>1. j \in 1 .. Len(ch) \/ j = Len(ch) + 1
      BY <1>1
    <3> QED
      BY <1>1, <1>2, <1>4, <3>1
  <2> QED
    BY <2>1, <2>2 DEF LastTold
<1> QED
  BY <1>3, <1>4 DEF LastTold, after

(* The ingest task takes the head of the channel.                          *)
LEMMA TellTaken ==
    ASSUME NEW S, NEW ch \in Seq(S), ch # <<>>, NEW known, NEW state, LastTold(ch, known, state)
    PROVE  /\ \E T : Tail(ch) \in Seq(T)
           /\ IsUpdate(Head(ch)) => LastTold(Tail(ch), known, state)
           /\ ~ IsUpdate(Head(ch)) => LastTold(Tail(ch), Head(ch).state, state)
<1> DEFINE rest == Tail(ch)
<1>1. /\ rest \in Seq(S) /\ Len(ch) \in Nat \ {0}
      /\ DOMAIN ch = 1 .. Len(ch) /\ DOMAIN rest = 1 .. Len(ch) - 1
      /\ \A k \in 1 .. Len(ch) - 1 : rest[k] = ch[k + 1]
      /\ Head(ch) = ch[1]
  BY HeadTailProperties, LenProperties, EmptySeq
<1> HIDE DEF rest
<1>2. CASE known = state /\ \A k \in DOMAIN ch : IsUpdate(ch[k])
  <2>1. IsUpdate(ch[1]) /\ \A k \in DOMAIN rest : IsUpdate(rest[k])
    BY <1>1, <1>2
  <2> QED
    BY <1>1, <1>2, <2>1 DEF LastTold, rest
<1>3. ASSUME NEW k \in DOMAIN ch, ch[k] = Status(state),
             \A j \in DOMAIN ch : j > k => IsUpdate(ch[j])
      PROVE  /\ IsUpdate(ch[1]) => LastTold(rest, known, state)
             /\ ~ IsUpdate(ch[1]) => LastTold(rest, ch[1].state, state)
  <2>1. CASE k = 1
    <3>1. ~ IsUpdate(ch[1]) /\ ch[1].state = state
      BY <1>3, <2>1 DEF IsUpdate, Status
    <3>2. \A j \in DOMAIN rest : IsUpdate(rest[j])
      BY <1>1, <1>3, <2>1
    <3> QED
      BY <3>1, <3>2 DEF LastTold
  <2>2. CASE k # 1
    <3>1. k - 1 \in DOMAIN rest /\ rest[k - 1] = Status(state)
      BY <1>1, <1>3, <2>2
    <3>2. \A j \in DOMAIN rest : j > k - 1 => IsUpdate(rest[j])
      <4> TAKE j \in DOMAIN rest
      <4> HAVE j > k - 1
      <4>1. j + 1 \in DOMAIN ch /\ j + 1 > k /\ rest[j] = ch[j + 1]
        BY <1>1, <1>3
      <4> QED
        BY <1>3, <4>1
    <3> QED
      BY <3>1, <3>2 DEF LastTold
  <2> QED
    BY <2>1, <2>2
<1> QED
  BY <1>1, <1>2, <1>3 DEF LastTold, rest

-------------------------------------------------------------------------------
LEMMA StatusInit == Init => StatusInv
BY EmptySeq DEF Init, StatusInv, Owed

(* An announcement, where the phase it leads to owes that state.           *)
LEMMA StatusAnnounce ==
    ASSUME StatusInv, NEW from, NEW state, NEW to, Announce(from, state, to),
           to \in DOMAIN Owed => Owed[to] = state
    PROVE  StatusInv'
<1>1. PICK S : channel \in Seq(S)
  BY DEF StatusInv
<1>2. CASE closed
  BY <1>1, <1>2 DEF Announce, StatusInv, ingestVars
<1>3. CASE ~ closed
  <2>1. channel' = Append(channel, Status(state)) /\ phase' = to
    BY <1>3 DEF Announce
  <2>2. \E T : channel' \in Seq(T)
    BY <1>1, <2>1, AppendAny
  <2>3. LastTold(channel', connection', state)
    BY <1>1, <2>1, TellStatus
  <2> QED
    BY <2>1, <2>2, <2>3 DEF StatusInv
<1> QED
  BY <1>2, <1>3

(* Steps that tell nothing: the state owed stays, or none is owed.         *)
LEMMA StatusRest ==
    ASSUME StatusInv, UNCHANGED <<channel, closed, connection>>,
           \/ phase' = phase
           \/ phase' \notin DOMAIN Owed
           \/ phase' = "stopped" /\ closed
           \/ phase \in DOMAIN Owed /\ phase' \in DOMAIN Owed /\ Owed[phase'] = Owed[phase]
    PROVE  StatusInv'
BY DEF StatusInv

LEMMA StatusStep == StatusInv /\ [Next]_vars => StatusInv'
<1> SUFFICES ASSUME StatusInv, [Next]_vars PROVE StatusInv'
  OBVIOUS
<1>1. PICK S : channel \in Seq(S)
  BY DEF StatusInv
<1>2. CASE AnnounceConnecting
  BY <1>2, StatusAnnounce DEF AnnounceConnecting, Owed
<1>3. CASE AnnounceConnected
  BY <1>3, StatusAnnounce DEF AnnounceConnected, Owed
<1>4. CASE AnnounceReconnecting
  BY <1>4, StatusAnnounce DEF AnnounceReconnecting, Owed
<1>5. CASE AnnounceDisconnected
  BY <1>5, StatusAnnounce DEF AnnounceDisconnected, Owed
<1>6. CASE Connect
  BY <1>6, StatusRest DEF Connect, ingestVars, Owed
<1>7. CASE ReadUpdate
  BY <1>7, StatusRest DEF ReadUpdate, ingestVars, Owed
<1>8. CASE AnswerPing \/ Publish \/ SendPing
  BY <1>8, StatusRest DEF AnswerPing, Publish, SendPing, clientVars, ingestVars
<1>9. CASE Deliver
  <2>1. phase = "deliver" /\ UNCHANGED <<closed, connection>>
    BY <1>9 DEF Deliver, ingestVars
  <2>2. CASE closed
    BY <1>9, <2>1, <2>2 DEF Deliver, StatusInv
  <2>3. CASE ~ closed
    <3>1. phase' = "pump" /\ channel' = Append(channel, Update(hand[1]))
      BY <1>9, <2>3 DEF Deliver
    <3>2. LastTold(channel, connection, "Connected")
      BY <2>1, <2>3 DEF StatusInv, Owed
    <3>3. LastTold(channel', connection', "Connected")
      BY <1>1, <2>1, <3>1, <3>2, TellUpdate
    <3>4. \E T : channel' \in Seq(T)
      BY <1>1, <3>1, AppendAny
    <3> QED
      BY <3>1, <3>3, <3>4 DEF StatusInv, Owed
  <2> QED
    BY <2>2, <2>3
<1>10. CASE Review
  BY <1>10, StatusRest DEF Review, ingestVars, Owed
<1>11. CASE Sleep
  BY <1>11, StatusRest DEF Sleep, ingestVars, Owed
<1>12. CASE Breaks
  BY <1>12, StatusRest DEF Breaks, ingestVars, Owed
<1>13. CASE Receive
  <2>1. /\ ~ closed /\ channel # <<>> /\ channel' = Tail(channel)
        /\ connection' = IF IsUpdate(Head(channel)) THEN connection ELSE Head(channel).state
        /\ phase' = phase /\ closed' = closed
    BY <1>13 DEF Receive, clientVars
  <2>2. \E T : channel' \in Seq(T)
    BY <1>1, <2>1, HeadTailProperties
  <2>3. ASSUME phase \in DOMAIN Owed PROVE LastTold(channel', connection', Owed[phase])
    <3>1. LastTold(channel, connection, Owed[phase])
      BY <2>1, <2>3 DEF StatusInv
    <3> QED
      BY <1>1, <2>1, <3>1, TellTaken
  <2> QED
    BY <2>1, <2>2, <2>3 DEF StatusInv
<1>14. CASE DropHandle
  BY <1>14, EmptySeq DEF DropHandle, StatusInv
<1>15. CASE UNCHANGED vars
  BY <1>15, StatusRest DEF vars, clientVars, ingestVars
<1> QED
  BY <1>2, <1>3, <1>4, <1>5, <1>6, <1>7, <1>8, <1>9, <1>10, <1>11, <1>12, <1>13, <1>14, <1>15
  DEF Next, Client

(* Once the channel is empty the ingest task knows the client's state, and *)
(* that it has stopped for good if it has.                                 *)
THEOREM Truthful == Spec => []StatusTruthful
<1>1. StatusInv => StatusTruthful
  <2> SUFFICES ASSUME StatusInv, ~ closed, channel = <<>>, phase \in DOMAIN Owed
               PROVE  connection = Owed[phase]
    BY DEF StatusTruthful, Owed
  <2>1. DOMAIN channel = {}
    BY EmptySeq
  <2> QED
    BY <2>1 DEF StatusInv, LastTold
<1> QED
  BY <1>1, StatusInit, StatusStep, PTL DEF Spec

-------------------------------------------------------------------------------
(***************************************************************************)
(* Types that a step keeps: TypeOK, with what is in the channel, on its    *)
(* way and in hand as sequences, and an update in hand just while one is   *)
(* delivered.                                                              *)
(***************************************************************************)
Message(n) == {Status(s) : s \in ConnectionState} \cup {Update(i) : i \in 1 .. n}

ClientTypes ==
    /\ phase \in Phases /\ backoff \in InitialBackoff .. Larger(InitialBackoff, MaxBackoff)
    /\ last_slot \in WireSlots \cup {None} /\ cleanEnd \in BOOLEAN
    /\ hand \in Seq(1 .. Len(wire))
    /\ Len(hand) = IF phase = "deliver" THEN 1 ELSE 0

ChannelTypes ==
    /\ channel \in Seq(Message(Len(wire))) /\ Len(channel) <= Capacity /\ closed \in BOOLEAN
    /\ connection \in ConnectionState /\ handled \in Seq(1 .. Len(wire))

ServerTypes ==
    /\ wire \in Seq(WireEntry) /\ Len(wire) <= MaxWire
    /\ feed \in Seq(0 .. Len(wire)) /\ read \in Seq(1 .. Len(wire))
    /\ failures \in 0 .. MaxFailures

TypeInv == ClientTypes /\ ChannelTypes /\ ServerTypes

(***************************************************************************)
(* What no replay has to bring: an update of a slot already passed, and    *)
(* one that came before all slot updates read and all updates to come.     *)
(***************************************************************************)
SlotRead(r) == r \in Range(read) /\ wire[r].kind = "slot"
Passed(i)   == \E r \in Range(read) : SlotRead(r) /\ wire[r].slot > wire[i].slot
Before(i)   == /\ \A r \in Range(read) : SlotRead(r) => ~ (r < i)
               /\ \A r \in Range(feed) : r = Ping \/ ~ (r < i)

GapInv ==
    /\ last_slot = None => \A r \in Range(read) : ~ SlotRead(r)
    /\ last_slot # None => \E r \in Range(read) : SlotRead(r) /\ wire[r].slot = last_slot
    /\ Replay /\ Subscribed =>
         \A i \in DOMAIN wire : i \in Range(read) \cup Range(feed) \/ Passed(i) \/ Before(i)

-------------------------------------------------------------------------------
(* What the range of a sequence gains and loses.                           *)
LEMMA RangeAppended ==
    ASSUME NEW S, NEW s \in Seq(S), NEW e \in S
    PROVE  Range(Append(s, e)) = Range(s) \cup {e}
<1> DEFINE after == Append(s, e)
<1>1. /\ Len(s) \in Nat /\ DOMAIN s = 1 .. Len(s) /\ DOMAIN after = 1 .. Len(s) + 1
      /\ after[Len(s) + 1] = e /\ \A k \in 1 .. Len(s) : after[k] = s[k]
  BY AppendAny
<1> HIDE DEF after
<1>2. ASSUME NEW x \in Range(after) PROVE x \in Range(s) \cup {e}
  <2>1. PICK k \in DOMAIN after : x = after[k]
    BY <1>2 DEF Range
  <2>2. k \in 1 .. Len(s) \/ k = Len(s) + 1
    BY <1>1
  <2> QED
    BY <1>1, <2>1, <2>2 DEF Range
<1>3. \A k \in DOMAIN s : k \in DOMAIN after /\ s[k] = after[k]
  BY <1>1
<1>4. Len(s) + 1 \in DOMAIN after /\ e = after[Len(s) + 1]
  BY <1>1
<1> QED
  BY <1>2, <1>3, <1>4 DEF Range, after

LEMMA RangeHeadTail ==
    ASSUME NEW S, NEW s \in Seq(S), s # <<>>
    PROVE  /\ Head(s) \in S /\ Tail(s) \in Seq(S)
           /\ Range(s) = {Head(s)} \cup Range(Tail(s))
<1> DEFINE rest == Tail(s)
<1>1. /\ rest \in Seq(S) /\ Len(s) \in Nat \ {0} /\ Head(s) \in S
      /\ DOMAIN s = 1 .. Len(s) /\ DOMAIN rest = 1 .. Len(s) - 1
      /\ \A k \in 1 .. Len(s) - 1 : rest[k] = s[k + 1]
      /\ Head(s) = s[1]
  BY HeadTailProperties, LenProperties, EmptySeq
<1> HIDE DEF rest
<1>2. ASSUME NEW x \in Range(s) PROVE x = Head(s) \/ x \in Range(rest)
  <2>1. PICK k \in 1 .. Len(s) : x = s[k]
    BY <1>1, <1>2 DEF Range
  <2>2. CASE k = 1
    BY <1>1, <2>1, <2>2
  <2>3. CASE k # 1
    <3>1. k - 1 \in DOMAIN rest /\ rest[k - 1] = s[k]
      BY <1>1, <2>3
    <3> QED
      BY <2>1, <3>1 DEF Range
  <2> QED
    BY <2>2, <2>3
<1>3. \A k \in DOMAIN rest : k + 1 \in DOMAIN s /\ rest[k] = s[k + 1]
  BY <1>1
<1>4. 1 \in DOMAIN s
  BY <1>1
<1> QED
  BY <1>1, <1>2, <1>3, <1>4 DEF Range, rest

LEMMA RangeIn ==
    ASSUME NEW S, NEW s \in Seq(S)
    PROVE  Range(s) \in SUBSET S
BY LenProperties DEF Range

(* A longer wire carries what a shorter one did.                           *)
LEMMA WiderSeq ==
    ASSUME NEW m \in Nat, NEW n \in Nat, m <= n
    PROVE  /\ Seq(1 .. m) \subseteq Seq(1 .. n)
           /\ Seq(0 .. m) \subseteq Seq(0 .. n)
           /\ Seq(Message(m)) \subseteq Seq(Message(n))
<1>1. 1 .. m \subseteq 1 .. n /\ 0 .. m \subseteq 0 .. n /\ Message(m) \subseteq Message(n)
  BY DEF Message
<1> QED
  BY <1>1, SeqMonotonic

(* An ascending sequence enumerates its set.                               *)
LEMMA AscendingType ==
    ASSUME NEW n \in Nat, NEW S \in SUBSET (1 .. n), NEW s \in Ascending(S)
    PROVE  s \in Seq(S) /\ s \in Seq(1 .. n) /\ s \in Seq(0 .. n) /\ Range(s) = S
<1>1. IsFiniteSet(S)
  <2>1. 1 \in Int /\ n \in Int
    OBVIOUS
  <2>2. IsFiniteSet(1 .. n)
    BY <2>1, FS_Interval
  <2> QED
    BY <2>2, FS_Subset
<1>2. Cardinality(S) \in Nat
  BY <1>1, FS_CardinalityType
<1>3. s \in [1 .. Cardinality(S) -> S]
  BY DEF Ascending
<1>4. s \in Seq(S)
  BY <1>2, <1>3
<1>5. S \subseteq 1 .. n /\ S \subseteq 0 .. n
  OBVIOUS
<1>6. s \in Seq(1 .. n) /\ s \in Seq(0 .. n)
  BY <1>4, <1>5, SeqMonotonic
<1>7. Range(s) = S
  BY DEF Ascending
<1> QED
  BY <1>4, <1>6, <1>7

-------------------------------------------------------------------------------
LEMMA EmptyType ==
    ASSUME NEW S, NEW s, s = <<>>
    PROVE  s \in Seq(S) /\ Len(s) = 0
BY EmptySeq

LEMMA TypesInit == Init => TypeInv
<1> SUFFICES ASSUME Init PROVE TypeInv
  OBVIOUS
<1>1. hand \in Seq(1 .. Len(wire)) /\ Len(hand) = 0
  BY EmptyType, Zenon DEF Init
<1>2. channel \in Seq(Message(Len(wire))) /\ Len(channel) = 0
  BY EmptyType, Zenon DEF Init
<1>3. handled \in Seq(1 .. Len(wire)) /\ read \in Seq(1 .. Len(wire))
  BY EmptyType, Zenon DEF Init
<1>4. feed \in Seq(0 .. Len(wire)) /\ wire \in Seq(WireEntry) /\ Len(wire) = 0
  BY EmptyType, Zenon DEF Init
<1>5. /\ phase = "announce" /\ backoff = InitialBackoff /\ last_slot = None
      /\ connection = "Connecting" /\ failures = 0
  BY DEF Init
<1> cleanEnd \in BOOLEAN /\ closed \in BOOLEAN
  BY Zenon DEF Init
<1>6. ClientTypes
  BY <1>1, <1>5, BackoffAssumption DEF ClientTypes, Phases, Larger
<1>7. ChannelTypes
  BY <1>2, <1>3, <1>5, ConfigAssumption DEF ChannelTypes, ConnectionState
<1>8. ServerTypes
  BY <1>3, <1>4, <1>5, BoundsAssumption DEF ServerTypes
<1> QED
  BY <1>6, <1>7, <1>8 DEF TypeInv

LEMMA LensNat ==
    ASSUME TypeInv
    PROVE  Len(wire) \in Nat /\ Len(channel) \in Nat /\ DOMAIN wire = 1 .. Len(wire)
BY LenProperties DEF TypeInv, ChannelTypes, ServerTypes

(* The server's part, and the channel's, when they do not change.          *)
LEMMA TypesClientStep ==
    ASSUME TypeInv, UNCHANGED <<channel, closed, ingestVars, serverVars>>, ClientTypes'
    PROVE  TypeInv'
BY DEF TypeInv, ChannelTypes, ServerTypes, ingestVars, serverVars

LEMMA TypesAnnounce ==
    ASSUME TypeInv, NEW from \in Phases \ {"deliver"}, NEW state \in ConnectionState,
           NEW to \in Phases \ {"deliver"}, Announce(from, state, to)
    PROVE  TypeInv'
<1>1. /\ phase = from /\ phase' = to
      /\ UNCHANGED <<backoff, last_slot, hand, cleanEnd, closed, connection, handled, serverVars>>
  BY DEF Announce, ingestVars
<1>2. ClientTypes' /\ ServerTypes'
  BY <1>1 DEF TypeInv, ClientTypes, ServerTypes, serverVars
<1>3. channel' \in Seq(Message(Len(wire))) /\ Len(channel') <= Capacity
  <2>1. CASE UNCHANGED channel
    BY <2>1 DEF TypeInv, ChannelTypes
  <2>2. CASE Len(channel) < Capacity /\ channel' = Append(channel, Status(state))
    <3>1. Status(state) \in Message(Len(wire))
      BY DEF Message
    <3>2. channel \in Seq(Message(Len(wire)))
      BY DEF TypeInv, ChannelTypes
    <3>3. channel' \in Seq(Message(Len(wire))) /\ Len(channel') = Len(channel) + 1
      BY <2>2, <3>1, <3>2, AppendProperties
    <3> QED
      BY <2>2, <3>3, LensNat, ConfigAssumption
  <2> QED
    BY <2>1, <2>2 DEF Announce
<1> QED
  BY <1>1, <1>2, <1>3 DEF TypeInv, ChannelTypes, serverVars

LEMMA TypesRead == TypeInv /\ ReadUpdate => TypeInv'
<1> SUFFICES ASSUME TypeInv, ReadUpdate PROVE TypeInv'
  OBVIOUS
<1>1. /\ phase = "pump" /\ phase' = "deliver" /\ feed # <<>> /\ Head(feed) # Ping
      /\ hand' = <<Head(feed)>> /\ feed' = Tail(feed) /\ read' = Append(read, Head(feed))
      /\ last_slot' = IF wire[Head(feed)].kind = "slot" THEN wire[Head(feed)].slot ELSE last_slot
      /\ UNCHANGED <<backoff, cleanEnd, channel, closed, connection, handled, wire, failures>>
  BY DEF ReadUpdate, ingestVars
<1>2. feed \in Seq(0 .. Len(wire)) /\ wire \in [1 .. Len(wire) -> WireEntry] /\ Len(wire) \in Nat
  BY LenProperties DEF TypeInv, ServerTypes
<1>3. Head(feed) \in 1 .. Len(wire) /\ Tail(feed) \in Seq(0 .. Len(wire))
  BY <1>1, <1>2, HeadTailProperties DEF Ping
<1>4. last_slot' \in WireSlots \cup {None}
  BY <1>1, <1>2, <1>3 DEF TypeInv, ClientTypes, WireEntry
<1>5. hand' \in Seq(1 .. Len(wire)) /\ Len(hand') = 1
  BY <1>1, <1>3
<1>6. read' \in Seq(1 .. Len(wire))
  BY <1>1, <1>3, AppendProperties DEF TypeInv, ServerTypes
<1>7. ClientTypes'
  BY <1>1, <1>4, <1>5 DEF TypeInv, ClientTypes, Phases
<1> QED
  BY <1>1, <1>3, <1>6, <1>7 DEF TypeInv, ChannelTypes, ServerTypes

LEMMA TypesDeliver == TypeInv /\ Deliver => TypeInv'
<1> SUFFICES ASSUME TypeInv, Deliver PROVE TypeInv'
  OBVIOUS
<1>1. /\ phase = "deliver" /\ hand' = <<>>
      /\ UNCHANGED <<backoff, last_slot, cleanEnd, closed, connection, handled, wire, read, failures>>
  BY DEF Deliver, ingestVars
<1>2. CASE closed
  <2>1. phase' = "ended" /\ feed' = <<>> /\ channel' = channel
    BY <1>2 DEF Deliver
  <2> QED
    BY <1>1, <2>1, EmptySeq DEF TypeInv, ClientTypes, ChannelTypes, ServerTypes, Phases
<1>3. CASE ~ closed
  <2>1. /\ phase' = "pump" /\ feed' = feed /\ Len(channel) < Capacity
        /\ channel' = Append(channel, Update(hand[1]))
    BY <1>3 DEF Deliver
  <2>2. hand \in [1 .. 1 -> 1 .. Len(wire)]
    BY <1>1, LenProperties DEF TypeInv, ClientTypes
  <2>3. Update(hand[1]) \in Message(Len(wire))
    BY <2>2 DEF Message
  <2>4. channel \in Seq(Message(Len(wire)))
    BY DEF TypeInv, ChannelTypes
  <2>5. channel' \in Seq(Message(Len(wire))) /\ Len(channel') = Len(channel) + 1
    BY <2>1, <2>3, <2>4, AppendProperties
  <2>6. Len(channel') <= Capacity
    BY <2>1, <2>5, LensNat, ConfigAssumption
  <2>7. ClientTypes'
    BY <1>1, <2>1, EmptySeq DEF TypeInv, ClientTypes, Phases
  <2> QED
    BY <1>1, <2>1, <2>5, <2>6, <2>7 DEF TypeInv, ChannelTypes, ServerTypes
<1> QED
  BY <1>2, <1>3

LEMMA TypesReceive == TypeInv /\ Receive => TypeInv'
<1> SUFFICES ASSUME TypeInv, Receive PROVE TypeInv'
  OBVIOUS
<1> DEFINE e == Head(channel)
<1>1. /\ channel # <<>> /\ channel' = Tail(channel)
      /\ \/ IsUpdate(e) /\ handled' = Append(handled, e.at) /\ connection' = connection
         \/ ~ IsUpdate(e) /\ connection' = e.state /\ handled' = handled
      /\ UNCHANGED <<clientVars, closed, serverVars>>
  BY DEF Receive
<1>2. channel \in Seq(Message(Len(wire)))
  BY DEF TypeInv, ChannelTypes
<1>3. /\ e \in Message(Len(wire)) /\ channel' \in Seq(Message(Len(wire)))
      /\ Len(channel') = Len(channel) - 1
  BY <1>1, <1>2, HeadTailProperties
<1> HIDE DEF e
<1>4. /\ IsUpdate(e) => e.at \in 1 .. Len(wire)
      /\ ~ IsUpdate(e) => e.state \in ConnectionState
  BY <1>3 DEF Message, Status, Update, IsUpdate
<1>5. connection' \in ConnectionState /\ handled' \in Seq(1 .. Len(wire))
  <2>1. connection \in ConnectionState /\ handled \in Seq(1 .. Len(wire))
    BY DEF TypeInv, ChannelTypes
  <2>2. CASE IsUpdate(e)
    <3>1. handled' = Append(handled, e.at) /\ connection' = connection
      BY <1>1, <2>2
    <3> QED
      BY <1>4, <2>1, <2>2, <3>1, AppendProperties
  <2>3. CASE ~ IsUpdate(e)
    BY <1>1, <1>4, <2>1, <2>3
  <2> QED
    BY <2>2, <2>3
<1>6. Len(channel') <= Capacity
  BY <1>3, LensNat, ConfigAssumption DEF TypeInv, ChannelTypes
<1>7. ClientTypes' /\ ServerTypes' /\ closed' \in BOOLEAN /\ wire' = wire
  BY <1>1 DEF TypeInv, ClientTypes, ChannelTypes, ServerTypes, clientVars, serverVars
<1> QED
  BY <1>3, <1>5, <1>6, <1>7 DEF TypeInv, ChannelTypes

LEMMA TypesPublish == TypeInv /\ Publish => TypeInv'
<1> SUFFICES ASSUME TypeInv, Publish PROVE TypeInv'
  OBVIOUS
<1> DEFINE n == Len(wire)
           m == Len(wire')
<1>1. PICK e \in WireEntry : wire' = Append(wire, e)
  BY DEF Publish
<1>2. /\ n < MaxWire
      /\ feed' = IF Subscribed THEN Append(feed, n + 1) ELSE feed
      /\ UNCHANGED <<clientVars, channel, closed, connection, handled, read, failures>>
  BY DEF Publish, ingestVars
<1>3. wire \in Seq(WireEntry) /\ n \in Nat
  BY LensNat DEF TypeInv, ServerTypes
<1>4. wire' \in Seq(WireEntry) /\ m = n + 1
  BY <1>1, <1>3, AppendProperties
<1> HIDE DEF n, m
<1>5. /\ hand \in Seq(1 .. n) /\ handled \in Seq(1 .. n) /\ read \in Seq(1 .. n)
      /\ channel \in Seq(Message(n)) /\ feed \in Seq(0 .. n)
  BY DEF TypeInv, ClientTypes, ChannelTypes, ServerTypes, n
<1>6. /\ hand \in Seq(1 .. m) /\ handled \in Seq(1 .. m) /\ read \in Seq(1 .. m)
      /\ channel \in Seq(Message(m)) /\ feed \in Seq(0 .. m)
  <2>1. m \in Nat /\ n <= m
    BY <1>3, <1>4
  <2> QED
    BY <1>3, <1>5, <2>1, WiderSeq
<1>7. feed' \in Seq(0 .. m)
  <2>1. n + 1 \in 0 .. m
    BY <1>3, <1>4
  <2> QED
    BY <1>2, <1>6, <2>1, AppendProperties
<1>8. m <= MaxWire
  BY <1>2, <1>3, <1>4, BoundsAssumption
<1>9. ClientTypes'
  BY <1>2, <1>6 DEF TypeInv, ClientTypes, clientVars, m
<1>10. ChannelTypes'
  BY <1>2, <1>6 DEF TypeInv, ChannelTypes, m
<1>11. ServerTypes'
  BY <1>2, <1>4, <1>6, <1>7, <1>8 DEF TypeInv, ServerTypes, m
<1> QED
  BY <1>9, <1>10, <1>11 DEF TypeInv

LEMMA TypesStep == TypeInv /\ [Next]_vars => TypeInv'
<1> SUFFICES ASSUME TypeInv, [Next]_vars PROVE TypeInv'
  OBVIOUS
<1>1. CASE AnnounceConnecting
  BY <1>1, TypesAnnounce DEF AnnounceConnecting, Phases, ConnectionState
<1>2. CASE AnnounceConnected
  BY <1>2, TypesAnnounce DEF AnnounceConnected, Phases, ConnectionState
<1>3. CASE AnnounceReconnecting
  BY <1>3, TypesAnnounce DEF AnnounceReconnecting, Phases, ConnectionState
<1>4. CASE AnnounceDisconnected
  BY <1>4, TypesAnnounce DEF AnnounceDisconnected, Phases, ConnectionState
<1>5. CASE Connect
  <2>1. /\ phase = "dial" /\ phase' = "greet"
        /\ UNCHANGED <<backoff, last_slot, hand, cleanEnd, channel, closed, connection, handled, wire, read, failures>>
    BY <1>5 DEF Connect, ingestVars
  <2>2. feed' \in Seq(0 .. Len(wire))
    <3>1. CASE feed' = <<>>
      BY <3>1, EmptySeq
    <3>2. CASE feed' \in ReplayFrom(from_slot)
      <4>1. {i \in DOMAIN wire : wire[i].slot >= from_slot} \in SUBSET (1 .. Len(wire))
        BY LensNat
      <4> QED
        BY <3>2, <4>1, LensNat, AscendingType DEF ReplayFrom
    <3> QED
      BY <1>5, <3>1, <3>2 DEF Connect
  <2> QED
    BY <2>1, <2>2 DEF TypeInv, ClientTypes, ChannelTypes, ServerTypes, Phases
<1>6. CASE ReadUpdate
  BY <1>6, TypesRead
<1>7. CASE AnswerPing
  <2>1. feed' \in Seq(0 .. Len(wire))
    BY <1>7, HeadTailProperties DEF AnswerPing, TypeInv, ServerTypes
  <2> QED
    BY <1>7, <2>1 DEF AnswerPing, clientVars, ingestVars, TypeInv, ClientTypes, ChannelTypes, ServerTypes
<1>8. CASE Deliver
  BY <1>8, TypesDeliver
<1>9. CASE Review
  <2>1. ClientTypes'
    BY <1>9 DEF Review, serverVars, TypeInv, ClientTypes, Phases
  <2> QED
    BY <1>9, <2>1, TypesClientStep DEF Review
<1>10. CASE Sleep
  <2>1. backoff' \in InitialBackoff .. Larger(InitialBackoff, MaxBackoff)
    BY <1>10, BackoffAssumption DEF Sleep, Smaller, Larger, TypeInv, ClientTypes
  <2>2. ClientTypes'
    BY <1>10, <2>1 DEF Sleep, serverVars, TypeInv, ClientTypes, Phases
  <2> QED
    BY <1>10, <2>2, TypesClientStep DEF Sleep
<1>11. CASE Breaks
  <2>1. /\ phase' \in {"ended", "failed", "fatal"} /\ phase \in {"dial", "pump"}
        /\ feed' = <<>> /\ failures < MaxFailures /\ failures' = failures + 1
        /\ cleanEnd' \in BOOLEAN
        /\ UNCHANGED <<backoff, last_slot, hand, channel, closed, connection, handled, wire, read>>
    BY <1>11 DEF Breaks, ingestVars
  <2>2. failures' \in 0 .. MaxFailures
    BY <2>1, BoundsAssumption DEF TypeInv, ServerTypes
  <2> QED
    BY <2>1, <2>2, EmptySeq DEF TypeInv, ClientTypes, ChannelTypes, ServerTypes, Phases
<1>12. CASE Receive
  BY <1>12, TypesReceive
<1>13. CASE DropHandle
  <2>1. /\ channel' = <<>> /\ Len(channel') = 0 /\ closed' = TRUE
        /\ UNCHANGED <<clientVars, connection, handled, serverVars>>
    BY <1>13 DEF DropHandle, ingestVars
  <2>2. ChannelTypes'
    BY <2>1, EmptySeq, ConfigAssumption DEF TypeInv, ChannelTypes, serverVars
  <2> QED
    BY <2>1, <2>2 DEF TypeInv, ClientTypes, ServerTypes, clientVars, serverVars
<1>14. CASE Publish
  BY <1>14, TypesPublish
<1>15. CASE SendPing
  <2>1. feed' \in Seq(0 .. Len(wire))
    <3>1. Ping \in 0 .. Len(wire)
      BY LensNat DEF Ping
    <3> QED
      BY <1>15, <3>1, AppendProperties DEF SendPing, TypeInv, ServerTypes
  <2> QED
    BY <1>15, <2>1 DEF SendPing, clientVars, ingestVars, TypeInv, ClientTypes, ChannelTypes, ServerTypes
<1>16. CASE UNCHANGED vars
  BY <1>16 DEF vars, clientVars, ingestVars, serverVars, TypeInv, ClientTypes, ChannelTypes, ServerTypes
<1> QED
  BY <1>1, <1>2, <1>3, <1>4, <1>5, <1>6, <1>7, <1>8, <1>9, <1>10, <1>11, <1>12, <1>13, <1>14, <1>15, <1>16
  DEF Next, Client

(* Type correctness: the channel stays within its capacity, the backoff    *)
(* within its cap, and only what was published is ever read or handled.    *)
THEOREM TypeCorrect == Spec => []TypeOK
<1>1. TypeInv => TypeOK
  <2> SUFFICES ASSUME TypeInv PROVE TypeOK
    OBVIOUS
  <2>1. \A k \in DOMAIN channel :
           channel[k] \in {Status(s) : s \in ConnectionState} \cup {Update(i) : i \in DOMAIN wire}
    BY LensNat, LenProperties DEF TypeInv, ChannelTypes, Message
  <2>2. /\ Range(read) \in SUBSET DOMAIN wire /\ Range(handled) \in SUBSET DOMAIN wire
        /\ Range(hand) \in SUBSET DOMAIN wire
    BY LensNat, RangeIn DEF TypeInv, ClientTypes, ChannelTypes, ServerTypes
  <2>3. Range(feed) \ {Ping} \in SUBSET DOMAIN wire
    <3>1. Range(feed) \in SUBSET (0 .. Len(wire))
      BY LensNat, RangeIn DEF TypeInv, ServerTypes
    <3> QED
      BY <3>1, LensNat DEF Ping
  <2>4. Len(hand) <= 1
    BY DEF TypeInv, ClientTypes
  <2> QED
    BY <2>1, <2>2, <2>3, <2>4 DEF TypeInv, ClientTypes, ChannelTypes, ServerTypes, TypeOK
<1> QED
  BY <1>1, TypesInit, TypesStep, PTL DEF Spec

-------------------------------------------------------------------------------
LEMMA GapInit == Init => GapInv
<1> SUFFICES ASSUME Init PROVE GapInv
  OBVIOUS
<1>1. read = <<>> /\ DOMAIN read = {} /\ last_slot = None /\ ~ Subscribed
  BY EmptySeq DEF Init, Subscribed
<1>2. Range(read) = {}
  BY <1>1 DEF Range
<1> QED
  BY <1>1, <1>2 DEF GapInv

(* What was read and what is to come, but for a ping, stays.               *)
LEMMA GapRest ==
    ASSUME TypeInv, GapInv, UNCHANGED <<read, last_slot, wire>>,
           Subscribed' => Subscribed /\ Range(feed') \ {Ping} = Range(feed) \ {Ping}
    PROVE  GapInv'
<1>1. \A r : SlotRead(r)' <=> SlotRead(r)
  BY DEF SlotRead
<1>2. \A i : Passed(i)' <=> Passed(i)
  BY <1>1 DEF Passed
<1>3. ASSUME Replay, Subscribed', NEW i \in DOMAIN wire
      PROVE  i \in Range(read) \cup Range(feed') \/ Passed(i) \/ Before(i)'
  <2>1. i # Ping
    BY LensNat DEF Ping
  <2>2. i \in Range(read) \cup Range(feed) \/ Passed(i) \/ Before(i)
    BY <1>3 DEF GapInv
  <2>3. Range(feed') \ {Ping} = Range(feed) \ {Ping}
    BY <1>3
  <2>4. CASE Before(i)
    BY <1>1, <2>3, <2>4 DEF Before
  <2> QED
    BY <2>1, <2>2, <2>3, <2>4
<1> QED
  BY <1>1, <1>2, <1>3 DEF GapInv

(* A subscription without a replay is the first with a slot to go by, one  *)
(* with a replay skips the slots that were passed.                         *)
LEMMA GapConnect == TypeInv /\ GapInv /\ Connect => GapInv'
<1> SUFFICES ASSUME TypeInv, GapInv, Connect PROVE GapInv'
  OBVIOUS
<1>1. UNCHANGED <<read, last_slot, wire>>
  BY DEF Connect
<1>2. \A r : SlotRead(r)' <=> SlotRead(r)
  BY <1>1 DEF SlotRead
<1>3. \A i : Passed(i)' <=> Passed(i)
  BY <1>1, <1>2 DEF Passed
<1>4. ASSUME Replay, NEW i \in DOMAIN wire
      PROVE  i \in Range(feed') \/ Passed(i) \/ Before(i)'
  <2>1. CASE last_slot = None
    <3>1. feed' = <<>> /\ DOMAIN feed' = {}
      BY <1>4, <2>1, EmptySeq DEF Connect, from_slot
    <3>2. Range(feed') = {}
      BY <3>1 DEF Range
    <3>3. \A r \in Range(read) : ~ SlotRead(r)
      BY <2>1 DEF GapInv
    <3> QED
      BY <1>1, <1>2, <3>2, <3>3 DEF Before
  <2>2. CASE last_slot # None
    <3>1. Range(feed') = {k \in DOMAIN wire : wire[k].slot >= last_slot}
      <4>1. {k \in DOMAIN wire : wire[k].slot >= last_slot} \in SUBSET (1 .. Len(wire))
        BY LensNat
      <4>2. feed' \in Ascending({k \in DOMAIN wire : wire[k].slot >= last_slot})
        BY <1>4, <2>2 DEF Connect, from_slot, ReplayFrom
      <4> QED
        BY <4>1, <4>2, LensNat, AscendingType
    <3>2. PICK r \in Range(read) : SlotRead(r) /\ wire[r].slot = last_slot
      BY <2>2 DEF GapInv
    <3>3. wire[i].slot \in Nat /\ last_slot \in Nat
      <4>1. wire[i] \in WireEntry
        BY LenProperties DEF TypeInv, ServerTypes
      <4> QED
        BY <2>2, <4>1, WireAssumption DEF WireEntry, TypeInv, ClientTypes
    <3>4. wire[i].slot >= last_slot \/ last_slot > wire[i].slot
      BY <3>3
    <3> QED
      BY <3>1, <3>2, <3>4 DEF Passed
  <2> QED
    BY <2>1, <2>2
<1> QED
  BY <1>1, <1>2, <1>3, <1>4 DEF GapInv

(* What was to come is read, and in its order.                             *)
LEMMA GapRead == TypeInv /\ GapInv /\ ReadUpdate => GapInv'
<1> SUFFICES ASSUME TypeInv, GapInv, ReadUpdate PROVE GapInv'
  OBVIOUS
<1> DEFINE h == Head(feed)
<1>1. /\ phase = "pump" /\ feed # <<>> /\ h # Ping
      /\ feed' = Tail(feed) /\ read' = Append(read, h) /\ wire' = wire
      /\ last_slot' = IF wire[h].kind = "slot" THEN wire[h].slot ELSE last_slot
  BY DEF ReadUpdate
<1>2. /\ feed \in Seq(0 .. Len(wire)) /\ read \in Seq(1 .. Len(wire)) /\ Len(wire) \in Nat
      /\ DOMAIN wire = 1 .. Len(wire) /\ \A i \in DOMAIN wire : wire[i] \in WireEntry
  BY LensNat, LenProperties DEF TypeInv, ServerTypes
<1>3. h \in 0 .. Len(wire) /\ Range(feed) = {h} \cup Range(feed')
  BY <1>1, <1>2, RangeHeadTail
<1>4. h \in 1 .. Len(wire)
  BY <1>1, <1>2, <1>3 DEF Ping
<1>5. Range(read') = Range(read) \cup {h}
  <2> HIDE DEF h
  <2>1. read \in Seq(1 .. Len(wire)) /\ h \in 1 .. Len(wire)
    BY <1>2, <1>4
  <2>2. Range(Append(read, h)) = Range(read) \cup {h}
    BY <2>1, RangeAppended
  <2> QED
    BY <1>1, <2>2
<1> HIDE DEF h
<1>6. \A r : SlotRead(r)' <=> SlotRead(r) \/ (r = h /\ wire[h].kind = "slot")
  BY <1>1, <1>5 DEF SlotRead
<1>7. last_slot' = None => \A r \in Range(read') : ~ SlotRead(r)'
  <2>1. wire[h].slot # None
    BY <1>2, <1>4, WireAssumption DEF WireEntry
  <2> QED
    BY <1>1, <1>6, <2>1 DEF GapInv, SlotRead
<1>8. last_slot' # None => \E r \in Range(read') : SlotRead(r)' /\ wire[r].slot = last_slot'
  BY <1>1, <1>5, <1>6 DEF GapInv
<1>9. ASSUME Replay, NEW i \in DOMAIN wire
      PROVE  i \in Range(read') \cup Range(feed') \/ Passed(i)' \/ Before(i)'
  <2>1. i \in Range(read) \cup Range(feed) \/ Passed(i) \/ Before(i)
    BY <1>1, <1>9 DEF GapInv, Subscribed
  <2>2. CASE i \in Range(read) \cup Range(feed)
    BY <1>3, <1>5, <2>2
  <2>3. CASE Passed(i)
    BY <1>1, <1>5, <1>6, <2>3 DEF Passed
  <2>4. CASE Before(i)
    <3>1. ~ (h < i)
      BY <1>1, <1>3, <2>4 DEF Before
    <3>2. \A r \in Range(read') : SlotRead(r)' => ~ (r < i)
      BY <1>5, <1>6, <2>4, <3>1 DEF Before, SlotRead
    <3>3. \A r \in Range(feed') : r = Ping \/ ~ (r < i)
      BY <1>3, <2>4 DEF Before
    <3> QED
      BY <3>2, <3>3 DEF Before
  <2> QED
    BY <2>1, <2>2, <2>3, <2>4
<1> QED
  BY <1>1, <1>7, <1>8, <1>9 DEF GapInv

(* What is published reaches a subscribed client after all the rest.       *)
LEMMA GapPublish == TypeInv /\ GapInv /\ Publish => GapInv'
<1> SUFFICES ASSUME TypeInv, GapInv, Publish PROVE GapInv'
  OBVIOUS
<1> DEFINE n == Len(wire)
<1>1. /\ UNCHANGED <<read, last_slot, phase>>
      /\ feed' = IF Subscribed THEN Append(feed, n + 1) ELSE feed
  BY DEF Publish, clientVars
<1>2. PICK e \in WireEntry : wire' = Append(wire, e)
  BY DEF Publish
<1>3. /\ n \in Nat /\ DOMAIN wire = 1 .. n /\ DOMAIN wire' = 1 .. n + 1
      /\ \A i \in 1 .. n : wire'[i] = wire[i]
  BY <1>2, AppendAny DEF TypeInv, ServerTypes
<1>4. feed \in Seq(0 .. n) /\ Range(read) \in SUBSET (1 .. n)
  BY RangeIn DEF TypeInv, ServerTypes
<1> HIDE DEF n
<1>5. \A r : SlotRead(r)' <=> SlotRead(r)
  BY <1>1, <1>3, <1>4 DEF SlotRead
<1>6. \A i \in 1 .. n : Passed(i) => Passed(i)'
  BY <1>1, <1>3, <1>4, <1>5 DEF Passed
<1>7. /\ last_slot' = None => \A r \in Range(read') : ~ SlotRead(r)'
      /\ last_slot' # None => \E r \in Range(read') : SlotRead(r)' /\ wire'[r].slot = last_slot'
  BY <1>1, <1>3, <1>4, <1>5 DEF GapInv
<1>8. ASSUME Replay, Subscribed', NEW i \in 1 .. n + 1
      PROVE  i \in Range(read') \cup Range(feed') \/ Passed(i)' \/ Before(i)'
  <2>1. Subscribed
    BY <1>1, <1>8 DEF Subscribed
  <2>2. Range(feed') = Range(feed) \cup {n + 1}
    <3>1. feed \in Seq(0 .. n + 1) /\ n + 1 \in 0 .. n + 1
      BY <1>3, <1>4, WiderSeq
    <3> QED
      BY <1>1, <2>1, <3>1, RangeAppended
  <2>3. CASE i = n + 1
    BY <2>2, <2>3
  <2>4. CASE i \in 1 .. n
    <3>1. i \in Range(read) \cup Range(feed) \/ Passed(i) \/ Before(i)
      BY <1>3, <1>8, <2>1, <2>4 DEF GapInv
    <3>2. Before(i) => Before(i)'
      <4>1. ~ (n + 1 < i)
        BY <1>3, <2>4
      <4> QED
        BY <1>1, <1>5, <2>2, <4>1 DEF Before
    <3> QED
      BY <1>1, <1>6, <2>2, <2>4, <3>1, <3>2
  <2> QED
    BY <1>3, <1>8, <2>3, <2>4
<1> QED
  BY <1>3, <1>7, <1>8 DEF GapInv

LEMMA GapStep == TypeInv /\ GapInv /\ [Next]_vars => GapInv'
<1> SUFFICES ASSUME TypeInv, GapInv, [Next]_vars PROVE GapInv'
  OBVIOUS
<1>1. ASSUME NEW from, NEW state, NEW to, Announce(from, state, to),
             to = "pump" => from = "greet", to \notin {"greet", "deliver"}
      PROVE  GapInv'
  BY <1>1, GapRest DEF Announce, serverVars, Subscribed
<1>2. CASE AnnounceConnecting \/ AnnounceConnected \/ AnnounceReconnecting \/ AnnounceDisconnected
  BY <1>1, <1>2
  DEF AnnounceConnecting, AnnounceConnected, AnnounceReconnecting, AnnounceDisconnected
<1>3. CASE Connect
  BY <1>3, GapConnect
<1>4. CASE ReadUpdate
  BY <1>4, GapRead
<1>5. CASE AnswerPing
  <2>1. /\ feed \in Seq(0 .. Len(wire)) /\ feed # <<>> /\ Head(feed) = Ping /\ feed' = Tail(feed)
        /\ UNCHANGED <<read, last_slot, wire, phase>>
    BY <1>5 DEF AnswerPing, clientVars, TypeInv, ServerTypes
  <2>2. Range(feed) = {Ping} \cup Range(feed')
    BY <2>1, RangeHeadTail
  <2> QED
    BY <2>1, <2>2, GapRest DEF Subscribed
<1>6. CASE SendPing
  <2>1. /\ feed \in Seq(0 .. Len(wire)) /\ feed' = Append(feed, Ping) /\ Ping \in 0 .. Len(wire)
        /\ UNCHANGED <<read, last_slot, wire, phase>>
    BY <1>6, LensNat DEF SendPing, clientVars, TypeInv, ServerTypes, Ping
  <2>2. Range(feed') = Range(feed) \cup {Ping}
    BY <2>1, RangeAppended
  <2> QED
    BY <2>1, <2>2, GapRest DEF Subscribed
<1>7. CASE Deliver
  BY <1>7, GapRest DEF Deliver, Subscribed
<1>8. CASE Review
  BY <1>8, GapRest DEF Review, serverVars, Subscribed
<1>9. CASE Sleep
  BY <1>9, GapRest DEF Sleep, serverVars, Subscribed
<1>10. CASE Breaks
  BY <1>10, GapRest DEF Breaks, Subscribed
<1>11. CASE Receive \/ DropHandle
  BY <1>11, GapRest DEF Receive, DropHandle, clientVars, serverVars, Subscribed
<1>12. CASE Publish
  BY <1>12, GapPublish
<1>13. CASE UNCHANGED vars
  BY <1>13, GapRest DEF vars, clientVars, serverVars, Subscribed
<1> QED
  BY <1>2, <1>3, <1>4, <1>5, <1>6, <1>7, <1>8, <1>9, <1>10, <1>11, <1>12, <1>13 DEF Next, Client

(* What an outage hid is replayed: once a slot was read, a later update    *)
(* was read or is on its way, unless its slot was passed.                  *)
THEOREM GapsReplayed == Spec => []GapReplayed
<1>1. TypeInv /\ GapInv => GapReplayed
  <2> SUFFICES ASSUME GapInv, Replay, Subscribed, NEW i \in DOMAIN wire
               PROVE  \/ i \in Range(read) \cup Range(feed)
                      \/ ~ \E r \in Range(read) : r < i /\ wire[r].kind = "slot"
                      \/ \E r \in Range(read) : wire[r].kind = "slot" /\ wire[r].slot > wire[i].slot
    BY DEF GapReplayed
  <2> QED
    BY DEF GapInv, Passed, Before, SlotRead
<1> QED
  BY <1>1, TypesInit, TypesStep, GapInit, GapStep, PTL DEF Spec

-------------------------------------------------------------------------------
(***************************************************************************)
(* The updates in the channel: q leads to their places, in order, and      *)
(* Picked takes them from there.                                           *)
(***************************************************************************)
Places(q, ch) ==
    /\ q \in Seq(Nat)
    /\ Range(q) = {k \in DOMAIN ch : IsUpdate(ch[k])}
    /\ \A i, j \in DOMAIN q : i < j => q[i] < q[j]

Picked(q, ch) == [k \in DOMAIN q |-> ch[q[k]].at]

DropInv ==
    ~ closed => \E q : Places(q, channel) /\ read = (handled \o Picked(q, channel)) \o hand

LEMMA PickedType ==
    ASSUME NEW n \in Nat, NEW ch \in Seq(Message(n)), NEW q, Places(q, ch)
    PROVE  /\ Picked(q, ch) \in Seq(1 .. n) /\ Len(Picked(q, ch)) = Len(q)
           /\ Len(q) \in Nat /\ DOMAIN q = 1 .. Len(q)
           /\ \A k \in DOMAIN q : q[k] \in DOMAIN ch /\ IsUpdate(ch[q[k]])
<1>1. Len(q) \in Nat /\ DOMAIN q = 1 .. Len(q)
  BY LenProperties DEF Places
<1>2. \A k \in DOMAIN q : q[k] \in DOMAIN ch /\ IsUpdate(ch[q[k]])
  BY DEF Places, Range
<1>3. \A k \in DOMAIN ch : ch[k] \in Message(n)
  BY LenProperties
<1>4. \A k \in DOMAIN q : ch[q[k]].at \in 1 .. n
  BY <1>2, <1>3 DEF Message, Status, Update, IsUpdate
<1>5. Picked(q, ch) \in [1 .. Len(q) -> 1 .. n]
  BY <1>1, <1>4 DEF Picked
<1> QED
  BY <1>1, <1>2, <1>5

(* A status that is appended has no place.                                 *)
LEMMA PlacesStatus ==
    ASSUME NEW n \in Nat, NEW ch \in Seq(Message(n)), NEW state \in ConnectionState,
           NEW q, Places(q, ch)
    PROVE  /\ Places(q, Append(ch, Status(state)))
           /\ Picked(q, Append(ch, Status(state))) = Picked(q, ch)
<1> DEFINE after == Append(ch, Status(state))
<1>1. /\ Len(ch) \in Nat /\ DOMAIN ch = 1 .. Len(ch) /\ DOMAIN after = 1 .. Len(ch) + 1
      /\ after[Len(ch) + 1] = Status(state)
      /\ \A k \in 1 .. Len(ch) : after[k] = ch[k]
  BY AppendAny
<1>2. ~ IsUpdate(Status(state))
  BY DEF IsUpdate, Status
<1> HIDE DEF after
<1>3. \A k : k \in DOMAIN after /\ IsUpdate(after[k]) <=> k \in DOMAIN ch /\ IsUpdate(ch[k])
  <2> TAKE k
  <2>1. k \in DOMAIN after <=> k \in DOMAIN ch \/ k = Len(ch) + 1
    BY <1>1
  <2>2. Len(ch) + 1 \notin DOMAIN ch
    BY <1>1
  <2> QED
    BY <1>1, <1>2, <2>1, <2>2
<1>4. Places(q, after)
  BY <1>3 DEF Places
<1>5. \A k \in DOMAIN q : q[k] \in 1 .. Len(ch)
  BY <1>1, PickedType
<1>6. Picked(q, after) = Picked(q, ch)
  BY <1>1, <1>5 DEF Picked
<1> QED
  BY <1>4, <1>6 DEF after

(* An update that is appended has the last one.                            *)
LEMMA PlacesUpdate ==
    ASSUME NEW n \in Nat, NEW ch \in Seq(Message(n)), NEW i \in 1 .. n, NEW q, Places(q, ch)
    PROVE  LET p == Append(q, Len(ch) + 1)
           IN  /\ Places(p, Append(ch, Update(i)))
               /\ Picked(p, Append(ch, Update(i))) = Picked(q, ch) \o <<i>>
<1> DEFINE after == Append(ch, Update(i))
           last  == Len(ch) + 1
           p     == Append(q, last)
<1>1. /\ Len(ch) \in Nat /\ DOMAIN ch = 1 .. Len(ch) /\ DOMAIN after = 1 .. last
      /\ after[last] = Update(i)
      /\ \A k \in 1 .. Len(ch) : after[k] = ch[k]
  BY AppendAny
<1>2. IsUpdate(Update(i)) /\ Update(i).at = i
  BY DEF IsUpdate, Update
<1>3. /\ q \in Seq(Nat) /\ Len(q) \in Nat /\ DOMAIN q = 1 .. Len(q)
      /\ \A k \in DOMAIN q : q[k] \in DOMAIN ch /\ IsUpdate(ch[q[k]])
      /\ Picked(q, ch) \in Seq(1 .. n) /\ Len(Picked(q, ch)) = Len(q)
  BY PickedType DEF Places
<1>4. /\ p \in Seq(Nat) /\ DOMAIN p = 1 .. Len(q) + 1 /\ p[Len(q) + 1] = last
      /\ \A k \in 1 .. Len(q) : p[k] = q[k]
  BY <1>1, <1>3, AppendAny, AppendProperties
<1>5. Range(p) = Range(q) \cup {last}
  <2>1. last \in Nat /\ q \in Seq(Nat)
    BY <1>1, <1>3
  <2> HIDE DEF last
  <2> QED
    BY <2>1, RangeAppended
<1> HIDE DEF after, p
<1>6. Range(p) = {k \in DOMAIN after : IsUpdate(after[k])}
  <2>1. DOMAIN after = DOMAIN ch \cup {last} /\ last \notin DOMAIN ch
    BY <1>1
  <2> QED
    BY <1>1, <1>2, <1>5, <2>1 DEF Places
<1>7. ASSUME NEW k \in DOMAIN p, NEW j \in DOMAIN p, k < j
      PROVE  p[k] < p[j]
  <2>1. k \in 1 .. Len(q) /\ p[k] = q[k]
    BY <1>3, <1>4, <1>7
  <2>2. CASE j = Len(q) + 1
    BY <1>1, <1>3, <1>4, <2>1, <2>2
  <2>3. CASE j \in 1 .. Len(q)
    BY <1>3, <1>4, <1>7, <2>1, <2>3 DEF Places
  <2> QED
    BY <1>3, <1>4, <2>2, <2>3
<1>8. Places(p, after)
  BY <1>4, <1>6, <1>7 DEF Places
<1>9. Picked(p, after) = Picked(q, ch) \o <<i>>
  <2>1. <<i>> \in Seq(1 .. n) /\ Len(<<i>>) = 1 /\ <<i>>[1] = i
    OBVIOUS
  <2> DEFINE one == <<i>>
             r   == Picked(q, ch) \o one
  <2> HIDE DEF one
  <2>2. /\ r \in Seq(1 .. n) /\ Len(r) = Len(q) + 1
        /\ \A k \in 1 .. Len(q) + 1 :
             r[k] = IF k <= Len(q) THEN Picked(q, ch)[k] ELSE one[k - Len(q)]
    BY <1>3, <2>1, ConcatProperties DEF one
  <2> HIDE DEF r
  <2>3. DOMAIN r = 1 .. Len(q) + 1 /\ r = [k \in DOMAIN r |-> r[k]]
    BY <2>2, LenProperties
  <2>4. ASSUME NEW k \in 1 .. Len(q) + 1 PROVE after[p[k]].at = r[k]
    <3>1. CASE k \in 1 .. Len(q)
      <4>1. k \in DOMAIN q /\ k <= Len(q)
        BY <1>3, <3>1
      <4>2. r[k] = Picked(q, ch)[k]
        BY <2>2, <4>1
      <4>3. r[k] = ch[q[k]].at
        BY <4>1, <4>2 DEF Picked
      <4> QED
        BY <1>1, <1>3, <1>4, <3>1, <4>3
    <3>2. CASE k = Len(q) + 1
      <4>1. ~ (k <= Len(q)) /\ k - Len(q) = 1
        BY <1>3, <3>2
      <4>2. r[k] = i
        BY <2>1, <2>2, <4>1 DEF one
      <4> QED
        BY <1>1, <1>2, <1>4, <3>2, <4>2
    <3> QED
      BY <1>3, <3>1, <3>2
  <2>5. Picked(p, after) = [k \in 1 .. Len(q) + 1 |-> after[p[k]].at]
    BY <1>4 DEF Picked
  <2> QED
    BY <2>3, <2>4, <2>5 DEF r, one
<1> QED
  BY <1>8, <1>9 DEF p, after

(* The head of the channel leaves, and the first place if it is an update. *)
LEMMA PlacesTaken ==
    ASSUME NEW n \in Nat, NEW ch \in Seq(Message(n)), ch # <<>>, NEW q, Places(q, ch)
    PROVE  \E p : /\ Places(p, Tail(ch))
                  /\ Picked(q, ch) = IF IsUpdate(Head(ch)) THEN <<Head(ch).at>> \o Picked(p, Tail(ch))
                                     ELSE Picked(p, Tail(ch))
<1> DEFINE rest == Tail(ch)
           d    == IF IsUpdate(Head(ch)) THEN 1 ELSE 0
           p    == [k \in 1 .. Len(q) - d |-> q[k + d] - 1]
<1>1. /\ rest \in Seq(Message(n)) /\ Len(ch) \in Nat \ {0} /\ Head(ch) = ch[1]
      /\ DOMAIN ch = 1 .. Len(ch) /\ DOMAIN rest = 1 .. Len(ch) - 1
      /\ \A k \in 1 .. Len(ch) - 1 : rest[k] = ch[k + 1]
  BY HeadTailProperties, LenProperties, EmptySeq
<1>2. /\ Len(q) \in Nat /\ DOMAIN q = 1 .. Len(q)
      /\ \A k \in DOMAIN q : q[k] \in 1 .. Len(ch) /\ IsUpdate(ch[q[k]])
      /\ \A i, j \in DOMAIN q : i < j => q[i] < q[j]
      /\ \A k \in 1 .. Len(ch) : IsUpdate(ch[k]) => \E i \in DOMAIN q : q[i] = k
      /\ Picked(q, ch) \in Seq(1 .. n) /\ Len(Picked(q, ch)) = Len(q)
  <2>1. \A k \in 1 .. Len(ch) : IsUpdate(ch[k]) => k \in Range(q)
    BY <1>1 DEF Places
  <2>2. \A k \in 1 .. Len(ch) : IsUpdate(ch[k]) => \E i \in DOMAIN q : q[i] = k
    BY <2>1 DEF Range
  <2>3. \A i, j \in DOMAIN q : i < j => q[i] < q[j]
    BY DEF Places
  <2>4. /\ Picked(q, ch) \in Seq(1 .. n) /\ Len(Picked(q, ch)) = Len(q)
        /\ Len(q) \in Nat /\ DOMAIN q = 1 .. Len(q)
        /\ \A k \in DOMAIN q : q[k] \in DOMAIN ch /\ IsUpdate(ch[q[k]])
    BY PickedType
  <2> HIDE DEF d, p
  <2> QED
    BY <1>1, <2>2, <2>3, <2>4
<1> HIDE DEF rest
<1>3. /\ d = 1 => Len(q) >= 1 /\ q[1] = 1
      /\ \A k \in DOMAIN q : k > d => q[k] > 1
  <2>1. CASE IsUpdate(Head(ch))
    <3>1. PICK i \in DOMAIN q : q[i] = 1
      BY <1>1, <1>2, <2>1
    <3>2. i = 1
      <4>1. CASE 1 < i
        <5>1. 1 \in DOMAIN q /\ q[1] < q[i] /\ q[1] \in 1 .. Len(ch)
          BY <1>2, <3>1, <4>1
        <5> QED
          BY <1>1, <3>1, <5>1
      <4> QED
        BY <1>2, <3>1, <4>1
    <3>3. d = 1 /\ Len(q) >= 1 /\ q[1] = 1 /\ 1 \in DOMAIN q
      BY <1>2, <2>1, <3>1, <3>2
    <3>4. \A k \in DOMAIN q : k > 1 => q[k] > 1
      <4> TAKE k \in DOMAIN q
      <4> HAVE k > 1
      <4>1. 1 < k /\ q[k] \in 1 .. Len(ch)
        BY <1>2
      <4>2. q[1] < q[k]
        BY <1>2, <3>3, <4>1
      <4> QED
        BY <1>1, <3>3, <4>1, <4>2
    <3> QED
      BY <3>3, <3>4
  <2>2. CASE ~ IsUpdate(Head(ch))
    <3>1. d = 0
      BY <2>2
    <3>2. \A k \in DOMAIN q : q[k] # 1
      BY <1>1, <1>2, <2>2
    <3>3. \A k \in DOMAIN q : q[k] > 1
      BY <1>1, <1>2, <3>2
    <3> QED
      BY <3>1, <3>3
  <2> QED
    BY <2>1, <2>2
<1>4. d \in {0, 1} /\ (d = 1 <=> IsUpdate(Head(ch)))
  OBVIOUS
<1> HIDE DEF d
<1>5. Len(q) - d \in Nat
  BY <1>2, <1>3, <1>4
<1>6. \A k \in 1 .. Len(q) - d :
        /\ k + d \in DOMAIN q /\ k + d > d
        /\ p[k] = q[k + d] - 1 /\ p[k] \in 1 .. Len(ch) - 1 /\ p[k] + 1 = q[k + d]
  <2> TAKE k \in 1 .. Len(q) - d
  <2>1. k + d \in DOMAIN q /\ k + d > d
    BY <1>2, <1>4, <1>5
  <2>2. q[k + d] > 1 /\ q[k + d] \in 1 .. Len(ch)
    BY <1>2, <1>3, <2>1
  <2> QED
    BY <1>1, <2>1, <2>2
<1>7. DOMAIN p = 1 .. Len(q) - d /\ p \in Seq(Nat) /\ Len(p) = Len(q) - d
  <2>1. p \in [1 .. Len(q) - d -> Nat]
    BY <1>1, <1>6
  <2> QED
    BY <1>5, <2>1
<1> HIDE DEF p
<1>8. \A i, j \in DOMAIN p : i < j => p[i] < p[j]
  <2> TAKE i, j \in DOMAIN p
  <2> HAVE i < j
  <2>1. i + d \in DOMAIN q /\ j + d \in DOMAIN q /\ i + d < j + d
    BY <1>4, <1>5, <1>6, <1>7
  <2>2. q[i + d] < q[j + d]
    BY <1>2, <2>1
  <2> QED
    BY <1>1, <1>2, <1>6, <1>7, <2>1, <2>2
<1>9. Range(p) = {k \in DOMAIN rest : IsUpdate(rest[k])}
  <2>1. ASSUME NEW x \in Range(p) PROVE x \in DOMAIN rest /\ IsUpdate(rest[x])
    <3>1. PICK k \in 1 .. Len(q) - d : x = p[k]
      BY <1>7, <2>1 DEF Range
    <3>2. x \in 1 .. Len(ch) - 1 /\ x + 1 = q[k + d] /\ k + d \in DOMAIN q
      BY <1>6, <3>1
    <3> QED
      BY <1>1, <1>2, <3>2
  <2>2. ASSUME NEW x \in DOMAIN rest, IsUpdate(rest[x]) PROVE x \in Range(p)
    <3>1. x \in Nat \ {0} /\ x + 1 \in 1 .. Len(ch) /\ IsUpdate(ch[x + 1])
      BY <1>1, <2>2
    <3>2. PICK i \in DOMAIN q : q[i] = x + 1
      BY <1>2, <3>1
    <3>3. i > d
      BY <1>2, <1>3, <1>4, <3>1, <3>2
    <3>4. i - d \in 1 .. Len(q) - d /\ (i - d) + d = i
      BY <1>2, <1>4, <3>2, <3>3
    <3>5. p[i - d] = x
      BY <1>6, <3>1, <3>2, <3>4
    <3> QED
      BY <1>7, <3>4, <3>5 DEF Range
  <2> QED
    BY <2>1, <2>2
<1>10. Places(p, rest)
  BY <1>7, <1>8, <1>9 DEF Places
<1>11. /\ Picked(p, rest) \in Seq(1 .. n) /\ Len(Picked(p, rest)) = Len(q) - d
       /\ \A k \in 1 .. Len(q) - d : Picked(p, rest)[k] = Picked(q, ch)[k + d]
  <2>1. Picked(p, rest) \in Seq(1 .. n) /\ Len(Picked(p, rest)) = Len(q) - d
    BY <1>1, <1>7, <1>10, PickedType
  <2>2. ASSUME NEW k \in 1 .. Len(q) - d PROVE Picked(p, rest)[k] = Picked(q, ch)[k + d]
    <3>1. Picked(p, rest)[k] = rest[p[k]].at /\ Picked(q, ch)[k + d] = ch[q[k + d]].at
      BY <1>6, <1>7 DEF Picked
    <3>2. rest[p[k]] = ch[p[k] + 1] /\ p[k] + 1 = q[k + d]
      BY <1>1, <1>6
    <3> QED
      BY <3>1, <3>2
  <2> QED
    BY <2>1, <2>2
<1>12. CASE d = 0
  <2>1. Picked(p, rest) = Picked(q, ch)
    BY <1>2, <1>11, <1>12, SeqEqual
  <2> QED
    BY <1>4, <1>10, <1>12, <2>1 DEF rest
<1>13. CASE d = 1
  <2> DEFINE one == <<Head(ch).at>>
             r   == one \o Picked(p, rest)
  <2>1. Picked(q, ch)[1] = Head(ch).at /\ Head(ch).at \in 1 .. n
    <3>1. 1 \in DOMAIN q /\ q[1] = 1
      BY <1>2, <1>3, <1>13
    <3>2. Picked(q, ch)[1] = Head(ch).at
      BY <1>1, <3>1 DEF Picked
    <3>3. Picked(q, ch)[1] \in 1 .. n
      BY <1>2, <3>1, LenProperties
    <3> QED
      BY <3>2, <3>3
  <2>2. one \in Seq(1 .. n) /\ Len(one) = 1 /\ one[1] = Head(ch).at
    BY <2>1
  <2> HIDE DEF one
  <2>3. /\ r \in Seq(1 .. n) /\ Len(r) = Len(q)
        /\ \A k \in 1 .. Len(q) :
             r[k] = IF k <= 1 THEN one[k] ELSE Picked(p, rest)[k - 1]
    <3> DEFINE t == Picked(p, rest)
    <3>1. t \in Seq(1 .. n) /\ Len(t) = Len(q) - 1
      BY <1>11, <1>13
    <3> HIDE DEF t
    <3>2. /\ one \o t \in Seq(1 .. n) /\ Len(one \o t) = Len(one) + Len(t)
          /\ \A k \in 1 .. Len(one) + Len(t) :
               (one \o t)[k] = IF k <= Len(one) THEN one[k] ELSE t[k - Len(one)]
      BY <2>2, <3>1, ConcatProperties
    <3>3. Len(one) + Len(t) = Len(q)
      BY <1>2, <2>2, <3>1
    <3> QED
      BY <2>2, <3>2, <3>3 DEF t
  <2> HIDE DEF r
  <2>4. ASSUME NEW k \in 1 .. Len(q) PROVE r[k] = Picked(q, ch)[k]
    <3>1. CASE k = 1
      <4>1. 1 \in 1 .. Len(q) /\ 1 <= 1
        BY <3>1
      <4>2. r[1] = one[1]
        BY <2>3, <4>1
      <4> QED
        BY <2>1, <2>2, <3>1, <4>2
    <3>2. CASE k # 1
      <4>1. k - 1 \in 1 .. Len(q) - d /\ (k - 1) + d = k
        BY <1>2, <1>13, <3>2
      <4>2. Picked(p, rest)[k - 1] = Picked(q, ch)[k]
        BY <1>11, <4>1
      <4>3. r[k] = Picked(p, rest)[k - 1]
        BY <1>2, <2>3, <3>2
      <4> QED
        BY <4>2, <4>3
    <3> QED
      BY <3>1, <3>2
  <2>5. r = Picked(q, ch)
    BY <1>2, <2>3, <2>4, SeqEqual
  <2> QED
    BY <1>4, <1>10, <1>13, <2>5 DEF rest, r, one
<1> QED
  BY <1>4, <1>12, <1>13

(* A sequence of places enumerates them, each once.                        *)
LEMMA PlacesAscend ==
    ASSUME NEW S, NEW ch \in Seq(S), NEW q, Places(q, ch)
    PROVE  q \in Ascending({k \in DOMAIN ch : IsUpdate(ch[k])})
<1> DEFINE T == {k \in DOMAIN ch : IsUpdate(ch[k])}
<1>1. /\ q \in Seq(Nat) /\ Range(q) = T
      /\ \A i, j \in DOMAIN q : i < j => q[i] < q[j]
  BY DEF Places
<1> HIDE DEF T
<1>2. Len(q) \in Nat /\ DOMAIN q = 1 .. Len(q) /\ \A k \in DOMAIN q : q[k] \in Nat
  BY <1>1, LenProperties
<1>3. q \in [1 .. Len(q) -> T]
  <2>1. \A k \in 1 .. Len(q) : q[k] \in T
    BY <1>1, <1>2 DEF Range
  <2> QED
    BY <1>1, <1>2, <2>1, LenProperties
<1>4. \A i, j \in 1 .. Len(q) : q[i] = q[j] => i = j
  <2> TAKE i, j \in 1 .. Len(q)
  <2>1. i < j => q[i] # q[j]
    BY <1>1, <1>2
  <2>2. j < i => q[j] # q[i]
    <3>1. q[i] \in Nat /\ q[j] \in Nat /\ i \in DOMAIN q /\ j \in DOMAIN q
      BY <1>2
    <3>2. j < i => q[j] < q[i]
      BY <1>1, <3>1
    <3> QED
      BY <3>1, <3>2
  <2> QED
    BY <1>2, <2>1, <2>2
<1>5. \A t \in T : \E k \in 1 .. Len(q) : q[k] = t
  BY <1>1, <1>2 DEF Range
<1>6. q \in Bijection(1 .. Len(q), T)
  BY <1>3, <1>4, <1>5 DEF Bijection, Injection, Surjection, IsInjective
<1>7. Cardinality(T) = Len(q)
  <2>1. ExistsBijection(1 .. Len(q), T)
    BY <1>6 DEF ExistsBijection
  <2> QED
    BY <1>2, <2>1, FS_CountingElements
<1> QED
  BY <1>1, <1>3, <1>7 DEF Ascending, T

-------------------------------------------------------------------------------
LEMMA DropInit == Init => DropInv
<1> SUFFICES ASSUME Init PROVE DropInv
  OBVIOUS
<1> DEFINE q == <<>>
<1>1. /\ channel = <<>> /\ DOMAIN channel = {} /\ DOMAIN q = {}
      /\ read = <<>> /\ handled = <<>> /\ hand = <<>> /\ q \in Seq(Nat)
  BY EmptySeq DEF Init
<1>2. Range(q) = {}
  BY <1>1 DEF Range
<1>3. Places(q, channel)
  <2> HIDE DEF q
  <2> QED
    BY <1>1, <1>2 DEF Places
<1>4. Picked(q, channel) = <<>>
  <2>1. Picked(q, channel) = [k \in {} |-> channel[q[k]].at]
    BY <1>1 DEF Picked
  <2> QED
    BY <2>1
<1>5. read = (handled \o <<>>) \o hand
  BY <1>1, ConcatEmptySeq, EmptySeq
<1> QED
  BY <1>3, <1>4, <1>5 DEF DropInv

(* The channel, and all before and behind it, stays.                       *)
LEMMA DropRest ==
    ASSUME DropInv, UNCHANGED <<closed, channel, handled, read, hand>>
    PROVE  DropInv'
BY DEF DropInv

LEMMA DropAnnounce ==
    ASSUME TypeInv, DropInv, NEW from, NEW state \in ConnectionState, NEW to,
           Announce(from, state, to)
    PROVE  DropInv'
<1>1. UNCHANGED <<closed, handled, read, hand>>
  BY DEF Announce, ingestVars, serverVars
<1>2. CASE closed
  BY <1>1, <1>2 DEF DropInv
<1>3. CASE ~ closed
  <2>1. channel' = Append(channel, Status(state))
    BY <1>3 DEF Announce
  <2>2. PICK q : Places(q, channel) /\ read = (handled \o Picked(q, channel)) \o hand
    BY <1>3 DEF DropInv
  <2>3. channel \in Seq(Message(Len(wire))) /\ Len(wire) \in Nat
    BY LensNat DEF TypeInv, ChannelTypes
  <2>4. Places(q, channel') /\ Picked(q, channel') = Picked(q, channel)
    BY <2>1, <2>2, <2>3, PlacesStatus
  <2> QED
    BY <1>1, <2>2, <2>4 DEF DropInv
<1> QED
  BY <1>2, <1>3

(* The update just read is the one in hand.                                *)
LEMMA DropRead == TypeInv /\ DropInv /\ ReadUpdate => DropInv'
<1> SUFFICES ASSUME TypeInv, DropInv, ReadUpdate PROVE DropInv'
  OBVIOUS
<1>0. closed' = closed
  BY DEF ReadUpdate
<1> SUFFICES ASSUME ~ closed PROVE DropInv'
  BY <1>0, Zenon DEF DropInv
<1> DEFINE h == Head(feed)
<1>1. /\ phase = "pump" /\ feed # <<>> /\ h # Ping /\ hand' = <<h>> /\ read' = Append(read, h)
      /\ UNCHANGED <<closed, channel, handled>>
  BY DEF ReadUpdate, ingestVars
<1>2. h \in 1 .. Len(wire)
  BY <1>1, LensNat, HeadTailProperties DEF TypeInv, ServerTypes, Ping
<1> HIDE DEF h
<1>3. PICK q : Places(q, channel) /\ read = (handled \o Picked(q, channel)) \o hand
  BY DEF DropInv
<1> DEFINE N == 1 .. Len(wire)
           s == handled \o Picked(q, channel)
<1>4. handled \in Seq(N) /\ Picked(q, channel) \in Seq(N) /\ read \in Seq(N) /\ h \in N
  BY <1>2, <1>3, LensNat, PickedType DEF TypeInv, ChannelTypes, ServerTypes
<1>5. hand = <<>>
  <2>1. hand \in Seq(N) /\ Len(hand) = 0
    BY <1>1 DEF TypeInv, ClientTypes
  <2> QED
    BY <2>1, EmptySeq
<1> HIDE DEF N
<1>6. s \in Seq(N)
  BY <1>4, ConcatProperties
<1>7. read = s
  <2> HIDE DEF s
  <2>1. s \o <<>> = s
    BY <1>6, ConcatEmptySeq
  <2> QED
    BY <1>3, <1>5, <2>1 DEF s
<1>8. read' = s \o <<h>>
  <2>1. Append(read, h) = read \o <<h>>
    BY <1>4, AppendIsConcat
  <2> QED
    BY <1>1, <1>7, <2>1
<1> QED
  BY <1>1, <1>3, <1>8 DEF DropInv

(* The update in hand goes to the end of the channel.                      *)
LEMMA DropDeliver == TypeInv /\ DropInv /\ Deliver => DropInv'
<1> SUFFICES ASSUME TypeInv, DropInv, Deliver PROVE DropInv'
  OBVIOUS
<1>0. closed' = closed
  BY DEF Deliver
<1> SUFFICES ASSUME ~ closed PROVE DropInv'
  BY <1>0, Zenon DEF DropInv
<1> DEFINE i == hand[1]
           N == 1 .. Len(wire)
<1>1. /\ phase = "deliver" /\ hand' = <<>> /\ channel' = Append(channel, Update(i))
      /\ UNCHANGED <<closed, handled, read>>
  BY DEF Deliver, ingestVars
<1>2. hand \in Seq(N) /\ Len(hand) = 1
  BY <1>1 DEF TypeInv, ClientTypes
<1>3. i \in N /\ hand = <<i>>
  <2>1. hand \in [1 .. 1 -> N]
    BY <1>2, LenProperties
  <2>2. i \in N
    BY <2>1
  <2>3. /\ <<i>> \in Seq(N) /\ Len(<<i>>) = 1
        /\ \A k \in 1 .. 1 : hand[k] = <<i>>[k]
    BY <2>2
  <2> QED
    BY <1>2, <2>2, <2>3, SeqEqual
<1>4. PICK q : Places(q, channel) /\ read = (handled \o Picked(q, channel)) \o hand
  BY DEF DropInv
<1>5. channel \in Seq(Message(Len(wire))) /\ Len(wire) \in Nat
  BY LensNat DEF TypeInv, ChannelTypes
<1> DEFINE p == Append(q, Len(channel) + 1)
<1>6. /\ Places(p, channel')
      /\ Picked(p, channel') = Picked(q, channel) \o <<i>>
  BY <1>1, <1>3, <1>4, <1>5, PlacesUpdate
<1>7. handled \in Seq(N) /\ Picked(q, channel) \in Seq(N) /\ <<i>> \in Seq(N) /\ read \in Seq(N)
  BY <1>3, <1>4, <1>5, PickedType DEF TypeInv, ChannelTypes, ServerTypes
<1> HIDE DEF N, i, p
<1>8. read = handled \o (Picked(q, channel) \o <<i>>)
  BY <1>3, <1>4, <1>7, ConcatAssociative
<1>9. read = read \o <<>>
  BY <1>7, ConcatEmptySeq
<1>10. read' = (handled' \o Picked(p, channel')) \o hand'
  BY <1>1, <1>6, <1>8, <1>9
<1> QED
  BY <1>6, <1>10 DEF DropInv

(* The first update of the channel joins those handled.                    *)
LEMMA DropReceive == TypeInv /\ DropInv /\ Receive => DropInv'
<1> SUFFICES ASSUME TypeInv, DropInv, Receive PROVE DropInv'
  OBVIOUS
<1> DEFINE e == Head(channel)
           N == 1 .. Len(wire)
<1>1. /\ ~ closed /\ channel # <<>> /\ channel' = Tail(channel)
      /\ handled' = IF IsUpdate(e) THEN Append(handled, e.at) ELSE handled
      /\ UNCHANGED <<closed, read, hand>>
  BY DEF Receive, clientVars, serverVars
<1>2. channel \in Seq(Message(Len(wire))) /\ Len(wire) \in Nat
  BY LensNat DEF TypeInv, ChannelTypes
<1>3. PICK q : Places(q, channel) /\ read = (handled \o Picked(q, channel)) \o hand
  BY <1>1 DEF DropInv
<1>4. PICK p : /\ Places(p, channel')
               /\ Picked(q, channel) = IF IsUpdate(e) THEN <<e.at>> \o Picked(p, channel')
                                       ELSE Picked(p, channel')
  BY <1>1, <1>2, <1>3, PlacesTaken
<1>5. e \in Message(Len(wire)) /\ channel' \in Seq(Message(Len(wire)))
  BY <1>1, <1>2, HeadTailProperties
<1> HIDE DEF e
<1>6. IsUpdate(e) => e.at \in N
  BY <1>5 DEF Message, Status, Update, IsUpdate
<1>7. handled \in Seq(N) /\ Picked(p, channel') \in Seq(N)
  BY <1>2, <1>4, <1>5, PickedType DEF TypeInv, ChannelTypes
<1> HIDE DEF N
<1>8. handled \o Picked(q, channel) = handled' \o Picked(p, channel')
  <2>1. CASE IsUpdate(e)
    <3> DEFINE one == <<e.at>>
    <3>1. one \in Seq(N) /\ handled' = handled \o one
      BY <1>1, <1>6, <1>7, <2>1, AppendIsConcat
    <3> DEFINE more == Picked(p, channel')
    <3>2. handled \o (one \o more) = (handled \o one) \o more
      <4>1. handled \in Seq(N) /\ one \in Seq(N) /\ more \in Seq(N)
        BY <1>7, <3>1
      <4> HIDE DEF one, more
      <4> QED
        BY <4>1, ConcatAssociative
    <3> HIDE DEF one
    <3> QED
      BY <1>4, <2>1, <3>1, <3>2 DEF one
  <2>2. CASE ~ IsUpdate(e)
    BY <1>1, <1>4, <2>2
  <2> QED
    BY <2>1, <2>2
<1> QED
  BY <1>1, <1>3, <1>4, <1>8 DEF DropInv

LEMMA DropStep == TypeInv /\ DropInv /\ [Next]_vars => DropInv'
<1> SUFFICES ASSUME TypeInv, DropInv, [Next]_vars PROVE DropInv'
  OBVIOUS
<1>1. CASE AnnounceConnecting \/ AnnounceConnected \/ AnnounceReconnecting \/ AnnounceDisconnected
  BY <1>1, DropAnnounce
  DEF AnnounceConnecting, AnnounceConnected, AnnounceReconnecting, AnnounceDisconnected, ConnectionState
<1>2. CASE ReadUpdate
  BY <1>2, DropRead
<1>3. CASE Deliver
  BY <1>3, DropDeliver
<1>4. CASE Receive
  BY <1>4, DropReceive
<1>5. CASE DropHandle
  BY <1>5 DEF DropHandle, DropInv
<1>6. CASE Connect \/ AnswerPing \/ Review \/ Sleep \/ Breaks \/ Publish \/ SendPing
  BY <1>6, DropRest
  DEF Connect, AnswerPing, Review, Sleep, Breaks, Publish, SendPing, clientVars, ingestVars, serverVars
<1>7. CASE UNCHANGED vars
  BY <1>7, DropRest DEF vars, clientVars, ingestVars, serverVars
<1> QED
  BY <1>1, <1>2, <1>3, <1>4, <1>5, <1>6, <1>7 DEF Next, Client

(* Until it drops the handle, the ingest task handles every update read    *)
(* from the wire, once and in the order it was read.                       *)
THEOREM NoneDropped == Spec => []NothingDropped
<1>1. TypeInv /\ DropInv => NothingDropped
  <2> SUFFICES ASSUME TypeInv, DropInv, ~ closed PROVE NothingDropped
    BY DEF NothingDropped
  <2>1. PICK q : Places(q, channel) /\ read = (handled \o Picked(q, channel)) \o hand
    BY DEF DropInv
  <2>2. channel \in Seq(Message(Len(wire)))
    BY DEF TypeInv, ChannelTypes
  <2>3. q \in Ascending({k \in DOMAIN channel : IsUpdate(channel[k])})
    BY <2>1, <2>2, PlacesAscend
  <2> QED
    BY <2>1, <2>3 DEF NothingDropped, Picked
<1> QED
  BY <1>1, TypesInit, TypesStep, DropInit, DropStep, PTL DEF Spec
===============================================================================
