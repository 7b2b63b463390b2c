----------------------------- MODULE StreamHub -----------------------------
(***************************************************************************)
(* One recall thread's event stream: the hub's entry for it with its replay *)
(* ring and broadcast channel (app-server/src/wire/hub.rs, replay.rs), the  *)
(* turns that publish to it (recall.rs), the SSE response (sse.rs,         *)
(* routes.rs), and the app's SseClient with the screen that reads it       *)
(* (core/net/sse_client.dart, features/recall/recall_provider.dart).       *)
(*                                                                         *)
(* The client treats the end of a response as a lost connection and comes  *)
(* back with since_seq; before its first frame it has none to send, and    *)
(* its request starts another turn.  A turn that ends removes the entry,   *)
(* whoever else uses it.                                                   *)
(***************************************************************************)
EXTENDS Integers, Sequences, FiniteSets, Functions

CONSTANTS
    Turn,           \* bound of the model: turns of the thread, each run once
    Length,         \* events of a turn; the last is done or error
    RingCap,        \* REPLAY_RING_CAP
    BufferCap,      \* BROADCAST_CAP
    MaxDrops,       \* bound of the model: connections lost and entries reaped
    Crowding        \* bound of the model: whether the registry may be full

ASSUME HubAssumption ==
    /\ IsFiniteSet(Turn)
    /\ {Length, RingCap, BufferCap} \subseteq Nat \ {0}
    /\ MaxDrops \in Nat /\ Crowding \in BOOLEAN

VARIABLES
    hub,        \* the thread's entry, see Entry
    turn,       \* the turns, see TurnState
    conn,       \* the client's connection, see Connection
    client,     \* SseClient and the screen, see Client
    drops       \* connections lost and entries reaped so far

hubVars == <<hub, turn, conn, client, drops>>

Event == [turn : Turn, n : 1..Length, seq : Nat]

Entry == [open : BOOLEAN, seq : Nat, ring : Seq(Event)]

\* sent events; the seq of the event being published, 0 when there is none.
\* torn is history: the entry was removed while the turn ran.
TurnState == [pc : {"idle", "run", "ended"}, sent : 0..Length, seq : Nat, torn : BOOLEAN]

\* "replay": subscribed, the ring not yet read.  live: the receiver's channel is
\* the one turns publish to.  back is the backfill that is sent first, floor
\* its last seq, queue the receiver's part of the channel.
Connection == [pc : {"off", "replay", "open"}, live : BOOLEAN, back : Seq(Event),
               floor : Nat, queue : Seq(Event)]
Off == [pc |-> "off", live |-> FALSE, back |-> <<>>, floor |-> 0, queue |-> <<>>]

\* shown is history: the events of this question in the order they reached
\* the screen.  disturbed tells that turns shared the thread, the reader
\* lagged or came back too late for the ring, or the entry went while the
\* client was away.
Client == [streaming : BOOLEAN, asking : BOOLEAN, lastSeq : Nat, shown : Seq(Event),
           disturbed : BOOLEAN]

HubTypeOK ==
    /\ hub \in Entry /\ Len(hub.ring) <= RingCap
    /\ turn \in [Turn -> TurnState]
    /\ conn \in Connection /\ Len(conn.queue) <= BufferCap
    /\ client \in Client
    /\ drops \in 0..MaxDrops

HubInit ==
    /\ hub = [open |-> FALSE, seq |-> 0, ring |-> <<>>]
    /\ turn = [t \in Turn |-> [pc |-> "idle", sent |-> 0, seq |-> 0, torn |-> FALSE]]
    /\ conn = Off
    /\ client = [streaming |-> FALSE, asking |-> FALSE, lastSeq |-> 0, shown |-> <<>>,
                 disturbed |-> FALSE]
    /\ drops = 0

----------------------------------------------------------------------------
(* The hub.                                                                *)

\* or_insert_with: the entry, a new one when there is none.
Present(seq) ==
    IF hub.open THEN hub ELSE [open |-> TRUE, seq |-> seq, ring |-> <<>>]

\* The entry goes, and with it the channel of every receiver.
Remove ==
    /\ hub' = [open |-> FALSE, seq |-> 0, ring |-> <<>>]
    /\ conn' = [conn EXCEPT !.live = FALSE]

\* ReplayRing::push.
RingPush(ring, e) == Append(IF Len(ring) = RingCap THEN Tail(ring) ELSE ring, e)

\* ReplayRing::since: NoTail when the ring starts later than asked.
Evicted(ring, since) == ring # <<>> /\ since < Head(ring).seq

\* The elements of the ring at the indices in kept, in their order.
Filter(ring, kept) ==
    [j \in 1..Cardinality(kept) |->
       ring[CHOOSE i \in kept : Cardinality({k \in kept : k <= i}) = j]]

\* Variant: the resume point is taken for the last event received.
SinceAfter(ring, since) == Filter(ring, {i \in DOMAIN ring : ring[i].seq > since + 1})

Since(ring, since) == Filter(ring, {i \in DOMAIN ring : ring[i].seq >= since})

----------------------------------------------------------------------------
(* A turn, as far as its stream goes.                                      *)

Running == {t \in Turn : turn[t].pc = "run"}

\* next_seq, a lock of its own.
NextSeq(t) ==
    /\ turn[t].pc = "run" /\ turn[t].seq = 0 /\ turn[t].sent < Length
    /\ hub' = [Present(0) EXCEPT !.seq = @ + 1]
    /\ turn' = [turn EXCEPT ![t].seq = hub'.seq]
    /\ UNCHANGED <<conn, client, drops>>

\* Variant: an event goes to the ring only.
NotSent(e) == conn

\* The receiver's view of a send: it skips what the backfill held, and loses
\* the oldest frame when it lags.
Received(e) ==
    IF ~conn.live THEN conn
    ELSE [conn EXCEPT !.queue = Append(IF Len(@) = BufferCap THEN Tail(@) ELSE @, e)]
Lags == conn.live /\ Len(conn.queue) = BufferCap

Publish(t) ==
    LET e == [turn |-> t, n |-> turn[t].sent + 1, seq |-> turn[t].seq] IN
    /\ turn[t].pc = "run" /\ turn[t].seq # 0
    /\ hub' = [Present(e.seq) EXCEPT !.ring = RingPush(@, e)]
    /\ conn' = Received(e)
    /\ client' = [client EXCEPT !.disturbed = @ \/ Lags]
    /\ turn' = [turn EXCEPT ![t].sent = @ + 1, ![t].seq = 0]
    /\ UNCHANGED drops

\* The other turns of the thread, when the entry goes under them.
Torn(u) == [turn[u] EXCEPT !.torn = @ \/ u \in Running]

\* close.
Close(t) ==
    /\ turn[t].pc = "run" /\ turn[t].seq = 0 /\ turn[t].sent = Length
    /\ turn' = [u \in Turn |-> IF u = t THEN [turn[t] EXCEPT !.pc = "ended"] ELSE Torn(u)]
    /\ Remove
    /\ client' = [client EXCEPT !.disturbed = @ \/ ~(conn.pc = "open" /\ conn.live)]
    /\ UNCHANGED drops

\* A subscription elsewhere finds the registry at its cap: entries without a
\* receiver go, that of a running turn whose client is away too.
Reap ==
    /\ Crowding /\ hub.open /\ ~conn.live /\ drops < MaxDrops
    /\ Remove /\ drops' = drops + 1
    /\ turn' = [u \in Turn |-> Torn(u)]
    /\ client' = [client EXCEPT !.disturbed = @ \/ Running # {}]

----------------------------------------------------------------------------
(* Requests.                                                               *)

Spawn(t) == turn' = [turn EXCEPT ![t].pc = "run"]

\* The client's record when a turn is started for its question.
WithTurn == [client EXCEPT !.asking = FALSE, !.disturbed = @ \/ Running # {}]

\* stream_or_resume without a resume point: subscribe, start the turn.
ConnectFresh(t) ==
    /\ client.asking \/ client.streaming
    /\ conn.pc = "off" /\ client.lastSeq = 0 /\ turn[t].pc = "idle"
    /\ hub' = Present(0)
    /\ conn' = [Off EXCEPT !.pc = "open", !.live = TRUE]
    /\ Spawn(t) /\ client' = WithTurn
    /\ UNCHANGED drops

\* The registry is full of live streams: the response is empty, and the turn
\* is started all the same.
ConnectRefused(t) ==
    /\ Crowding /\ ~hub.open
    /\ client.asking \/ client.streaming
    /\ conn.pc = "off" /\ client.lastSeq = 0 /\ turn[t].pc = "idle"
    /\ Spawn(t) /\ client' = [WithTurn EXCEPT !.disturbed = TRUE]
    /\ UNCHANGED <<hub, conn, drops>>

\* With a resume point: subscribe, or get a receiver without a channel ...
Resume ==
    /\ conn.pc = "off" /\ client.lastSeq > 0
    /\ \/ /\ hub' = Present(0)
          /\ conn' = [Off EXCEPT !.pc = "replay", !.live = TRUE]
       \/ /\ Crowding /\ ~hub.open
          /\ conn' = [Off EXCEPT !.pc = "replay"]
          /\ UNCHANGED hub
    /\ UNCHANGED <<turn, client, drops>>

\* ... then replay_since; a tail that is gone reads as nothing to replay.
Replay ==
    LET since == client.lastSeq
        gone == hub.open /\ Evicted(hub.ring, since)
        back == IF ~hub.open \/ gone THEN <<>> ELSE Since(hub.ring, since)
        last == IF back = <<>> THEN 0 ELSE CHOOSE m \in {back[i].seq : i \in DOMAIN back} :
                                             \A i \in DOMAIN back : back[i].seq <= m IN
    /\ conn.pc = "replay"
    /\ conn' = [conn EXCEPT !.pc = "open", !.back = back, !.floor = last]
    /\ client' = [client EXCEPT !.disturbed = @ \/ gone]
    /\ UNCHANGED <<hub, turn, drops>>

----------------------------------------------------------------------------
(* The client.                                                             *)

\* RecallNotifier.ask: the old subscription is cancelled, single flight.
Ask ==
    /\ ~client.streaming /\ ~client.asking
    /\ \E t \in Turn : turn[t].pc = "idle"
    /\ conn' = Off
    /\ client' = [client EXCEPT !.streaming = TRUE, !.asking = TRUE, !.lastSeq = 0, !.shown = <<>>]
    /\ UNCHANGED <<hub, turn, drops>>

\* Variant: a frame with the last seq passes again.
NewAtLast(e) == e.seq >= client.lastSeq

\* SseClient drops a frame it has seen.
New(e) == e.seq > client.lastSeq

\* The screen shows an event; done and error end the question, not the stream.
Shows(e) ==
    IF ~New(e) THEN client
    ELSE [client EXCEPT !.lastSeq = e.seq,
                        !.shown = IF client.streaming THEN Append(@, e) ELSE @,
                        !.streaming = @ /\ e.n # Length]

ReadBack ==
    /\ conn.pc = "open" /\ conn.back # <<>>
    /\ conn' = [conn EXCEPT !.back = Tail(@)]
    /\ client' = Shows(Head(conn.back))
    /\ UNCHANGED <<hub, turn, drops>>

\* sse_with_backfill drops a live frame that the backfill covered.
ReadLive ==
    LET e == Head(conn.queue) IN
    /\ conn.pc = "open" /\ conn.back = <<>> /\ conn.queue # <<>>
    /\ conn' = [conn EXCEPT !.queue = Tail(@)]
    /\ client' = IF e.seq <= conn.floor THEN client ELSE Shows(e)
    /\ UNCHANGED <<hub, turn, drops>>

\* The channel is gone and read to its end.
Finish ==
    /\ conn.pc = "open" /\ conn.back = <<>> /\ conn.queue = <<>>
    /\ ~conn.live
    /\ conn' = Off
    /\ UNCHANGED <<hub, turn, client, drops>>

Drop ==
    /\ conn.pc # "off" /\ drops < MaxDrops
    /\ drops' = drops + 1 /\ conn' = Off
    /\ client' = [client EXCEPT !.disturbed = @ \/ (client.streaming /\ ~conn.live)]
    /\ UNCHANGED <<hub, turn>>

\* Another screen asks on the same thread.
AskElsewhere(t) ==
    /\ turn[t].pc = "idle"
    /\ Spawn(t)
    /\ hub' = Present(0)
    /\ client' = [client EXCEPT !.disturbed = TRUE]
    /\ UNCHANGED <<conn, drops>>

TurnStep(t) == NextSeq(t) \/ Publish(t) \/ Close(t)
ClientStep == Resume \/ Replay \/ ReadBack \/ ReadLive \/ Finish \/ \E t \in Turn : ConnectFresh(t)

HubNext ==
    \/ \E t \in Turn : TurnStep(t) \/ ConnectRefused(t) \/ AskElsewhere(t)
    \/ ClientStep \/ Ask \/ Drop \/ Reap

HubSpec == HubInit /\ [][HubNext]_hubVars
HubFairSpec == HubSpec /\ WF_hubVars(ClientStep) /\ \A t \in Turn : WF_hubVars(TurnStep(t))

----------------------------------------------------------------------------
(* Properties.                                                             *)

\* Whatever is dropped, replayed and resumed, the screen shows each event of a
\* turn once and in its order: the answer is never assembled twice.  Only a
\* turn under which the thread's entry was removed is excepted: its events
\* start again at seq 1, and a receiver may still have the older ones.
OnceInOrder ==
    \A i, j \in DOMAIN client.shown :
      i < j /\ client.shown[i].turn = client.shown[j].turn /\ ~turn[client.shown[i].turn].torn
        => client.shown[i].n < client.shown[j].n

\* What is shown is one turn's answer from its first event on, nothing missing
\* from the middle, unless turns shared the thread, the reader lagged or came
\* back too late for the ring, or the entry (and its ring) went while the
\* client was away.
NoSilentGap ==
    ~client.disturbed =>
      \A i \in DOMAIN client.shown :
        client.shown[i].n = i /\ client.shown[i].turn = client.shown[1].turn

\* A question gets its last event, through lost connections too, when nothing
\* disturbed the stream.
Answered == client.streaming ~> (~client.streaming \/ client.disturbed)

----------------------------------------------------------------------------
(* The inductive invariant.                                                *)

\* The events that may still be read, and those that were.
Events == Range(hub.ring) \cup Range(conn.back) \cup Range(conn.queue) \cup Range(client.shown)

Turns ==
    /\ \A t \in Turn : /\ turn[t].pc = "idle" => turn[t].sent = 0 /\ turn[t].seq = 0
                       /\ turn[t].seq # 0 => turn[t].pc = "run" /\ turn[t].sent < Length
    /\ \A e \in Events : e.n <= turn[e.turn].sent

\* A turn that runs over one entry all along takes its seqs from one counter.
OneCounter ==
    \A t \in Running : ~turn[t].torn =>
      /\ turn[t].sent > 0 \/ turn[t].seq # 0 => hub.open
      /\ turn[t].seq <= hub.seq
      /\ \A e \in Events : e.turn = t =>
           e.seq <= hub.seq /\ (turn[t].seq # 0 => e.seq < turn[t].seq)

\* So its events have their seqs in their order.
SeqsInOrder ==
    \A e, f \in Events : e.turn = f.turn /\ ~turn[e.turn].torn =>
      /\ e.n < f.n => e.seq < f.seq
      /\ e.n = f.n => e.seq = f.seq

\* The client lets seqs pass in increasing order only.
ShownInOrder ==
    \A i \in DOMAIN client.shown :
      /\ client.shown[i].seq <= client.lastSeq
      /\ \A j \in DOMAIN client.shown : i < j => client.shown[i].seq < client.shown[j].seq

\* s is the part of turn t's stream that ends with event last.
Stretch(s, t, last) ==
    /\ Len(s) <= last
    /\ \A i \in DOMAIN s :
         s[i] = [turn |-> t, n |-> last - Len(s) + i, seq |-> last - Len(s) + i]

\* Turn t has the entry for itself: its counter and ring are those of t.
Alone(t) ==
    /\ ~hub.open => turn[t].sent = 0 /\ turn[t].seq = 0
    /\ turn[t].seq \in {0, turn[t].sent + 1}
    /\ hub.seq = IF turn[t].seq = 0 THEN turn[t].sent ELSE turn[t].seq
    /\ Stretch(hub.ring, t, turn[t].sent)
    /\ turn[t].sent # 0 => hub.ring # <<>>

\* The client reads turn t: what it has shown, what it will be sent first and
\* what waits in its queue leave nothing out.
Follows(t) ==
    LET sent == turn[t].sent
        last == client.lastSeq IN
    /\ \/ turn[t].pc = "run" /\ (conn.pc # "off" => conn.live)
       \/ turn[t].pc = "ended" /\ sent = Length /\ conn.pc = "open" /\ ~conn.live
    /\ last = Len(client.shown) /\ last <= sent /\ last < Length
    /\ \A i \in DOMAIN client.shown : client.shown[i].turn = t
    /\ conn.pc = "replay" => last > 0
    /\ conn.pc # "off" => Stretch(conn.queue, t, sent)
    /\ conn.pc = "open" =>
         /\ Stretch(conn.back, t, conn.floor) /\ conn.floor <= sent
         /\ conn.floor - Len(conn.back) <= last
         /\ sent - Len(conn.queue) <= last \/ sent - Len(conn.queue) <= conn.floor

Undisturbed ==
    /\ \A t, u \in Running : t = u
    /\ Running = {} => hub.seq = 0 /\ hub.ring = <<>>
    /\ \A t \in Running : Alone(t)
    /\ \A i \in DOMAIN client.shown :
         client.shown[i].n = i /\ client.shown[i].turn = client.shown[1].turn
    /\ client.asking => /\ client.streaming /\ conn = Off
                        /\ client.lastSeq = 0 /\ client.shown = <<>>
    /\ client.streaming /\ ~client.asking => \E t \in Turn : Follows(t)

HubInv ==
    /\ HubTypeOK /\ Turns /\ OneCounter /\ SeqsInOrder /\ ShownInOrder
    /\ ~client.disturbed => Undisturbed
=============================================================================
