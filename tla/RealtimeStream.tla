---------------------------- MODULE RealtimeStream ----------------------------
(***************************************************************************)
(* realtime.Hub and realtime.Handler: server-sent events with replay.      *)
(*                                                                         *)
(* An application appends events to the store and broadcasts them in order.*)
(* Every connection of a client subscribes first, replays what the store   *)
(* holds after the client's Last-Event-ID, and then forwards its           *)
(* subscriber buffer, skipping what it replayed.  Events are the numbers   *)
(* 1..MaxEvents in append order; Match is the set the endpoint's filter    *)
(* lets through.  The broadcaster is go-sse's: a non-blocking send into    *)
(* bounded per-subscriber buffers.                                         *)
(***************************************************************************)
EXTENDS Naturals, Sequences, FiniteSets

CONSTANTS
  Clients,      \* browsers, each with at most one open connection
  MaxEvents,    \* bound: events the application publishes
  MaxConns,     \* bound: connections one client opens
  BufferSize,   \* per-subscriber channel capacity (WithBufferSize)
  Match,        \* the events the filter accepts (all, without WithFilter)
  HasStore      \* WithStore was given

ASSUME RealtimeAssumption ==
  /\ MaxEvents \in Nat
  /\ MaxConns \in Nat
  /\ BufferSize \in Nat \ {0}
  /\ Match \subseteq 1..MaxEvents
  /\ HasStore \in BOOLEAN

Events == 1..MaxEvents

VARIABLES
  stored,     \* events 1..stored are in the store
  sent,       \* events 1..sent have been broadcast
  hub,        \* the broadcaster: "open", "draining" or "closed"
  pc,         \* client -> where the handler of its connection is
  conns,      \* client -> connections opened so far
  subs,       \* the clients whose connection is subscribed
  buf,        \* client -> its subscriber channel
  chClosed,   \* client -> that channel has been closed
  pending,    \* client -> the events read from the store, not yet replayed
  replayed,   \* client -> the IDs replayed on this connection
  lastID,     \* client -> the Last-Event-ID the browser holds (0: none)
  from,       \* client -> this connection owes the client the events above
  got,        \* client -> event -> deliveries on this connection (history)
  seen,       \* client -> event -> deliveries ever (history)
  dropped     \* client -> events its full buffer lost on this connection

pubVars  == <<stored, sent>>
chanVars == <<subs, buf, chClosed>>
rcvVars  == <<lastID, got, seen>>
vars == <<pubVars, hub, pc, conns, chanVars, pending, replayed, rcvVars, from, dropped>>

HandlerPC == {"off", "opened", "subscribed", "replay", "live"}

TypeOK ==
  /\ stored \in 0..MaxEvents
  /\ sent \in 0..stored
  /\ hub \in {"open", "draining", "closed"}
  /\ pc \in [Clients -> HandlerPC]
  /\ conns \in [Clients -> 0..MaxConns]
  /\ subs \subseteq Clients
  /\ buf \in [Clients -> Seq(Match)]
  /\ \A c \in Clients : Len(buf[c]) <= BufferSize
  /\ chClosed \in [Clients -> BOOLEAN]
  /\ pending \in [Clients -> SUBSET Match]
  /\ replayed \in [Clients -> SUBSET Match]
  /\ lastID \in [Clients -> 0..MaxEvents]
  /\ from \in [Clients -> 0..MaxEvents]
  /\ got \in [Clients -> [Events -> Nat]]
  /\ seen \in [Clients -> [Events -> Nat]]
  /\ dropped \in [Clients -> SUBSET Match]

Init ==
  /\ stored = 0
  /\ sent = 0
  /\ hub = "open"
  /\ pc = [c \in Clients |-> "off"]
  /\ conns = [c \in Clients |-> 0]
  /\ subs = {}
  /\ buf = [c \in Clients |-> <<>>]
  /\ chClosed = [c \in Clients |-> FALSE]
  /\ pending = [c \in Clients |-> {}]
  /\ replayed = [c \in Clients |-> {}]
  /\ lastID = [c \in Clients |-> 0]
  /\ from = [c \in Clients |-> 0]
  /\ got = [c \in Clients |-> [e \in Events |-> 0]]
  /\ seen = [c \in Clients |-> [e \in Events |-> 0]]
  /\ dropped = [c \in Clients |-> {}]

\* The matching events above a and up to b.
Between(a, b) == {e \in Match : a < e /\ e <= b}

Goto(c, at, to) == pc[c] = at /\ pc' = [pc EXCEPT ![c] = to]

-----------------------------------------------------------------------------
(* The application *)

AppendEvent ==
  /\ stored < MaxEvents
  /\ stored' = stored + 1
  /\ UNCHANGED <<sent, hub, pc, conns, chanVars, pending, replayed, rcvVars, from, dropped>>

\* Hub.Broadcast: every matching subscriber with room gets the event, a full
\* buffer loses it.  Whether a draining broadcaster still fans out is open.
Broadcast ==
  LET e == sent + 1
      Accepts(c) == c \in subs /\ ~chClosed[c] /\ e \in Match
      Room(c) == Len(buf[c]) < BufferSize
  IN
  /\ sent < stored
  /\ sent' = e
  /\ \/ /\ hub # "closed"
        /\ buf' = [c \in Clients |-> IF Accepts(c) /\ Room(c) THEN Append(buf[c], e) ELSE buf[c]]
        /\ dropped' = [c \in Clients |->
                         IF Accepts(c) /\ ~Room(c) THEN dropped[c] \cup {e} ELSE dropped[c]]
     \/ /\ hub # "open"
        /\ dropped' = [c \in Clients |->
                         IF e \in Match /\ c \in subs THEN dropped[c] \cup {e} ELSE dropped[c]]
        /\ UNCHANGED buf
  /\ UNCHANGED <<stored, hub, pc, conns, subs, chClosed, pending, replayed, rcvVars, from>>

-----------------------------------------------------------------------------
(* One connection: Handler, replayMissedEvents, forwardLive *)

\* NewStream and the early Flush: the client has its 200 before it is subscribed.
Open(c) ==
  /\ Goto(c, "off", "opened")
  /\ conns[c] < MaxConns
  /\ conns' = [conns EXCEPT ![c] = @ + 1]
  /\ got' = [got EXCEPT ![c] = [e \in Events |-> 0]]
  /\ replayed' = [replayed EXCEPT ![c] = {}]
  /\ dropped' = [dropped EXCEPT ![c] = {}]
  /\ UNCHANGED <<pubVars, hub, chanVars, pending, lastID, seen, from>>

\* Subscribe or SubscribeFilter; a broadcaster that stopped accepting
\* subscribers hands out a closed channel.
Subscribe(c) ==
  /\ Goto(c, "opened", "subscribed")
  /\ subs' = IF hub = "open" THEN subs \cup {c} ELSE subs
  /\ buf' = [buf EXCEPT ![c] = <<>>]
  /\ chClosed' = [chClosed EXCEPT ![c] = hub # "open"]
  /\ from' = [from EXCEPT ![c] = IF HasStore /\ lastID[c] > 0 THEN lastID[c] ELSE sent]
  /\ UNCHANGED <<pubVars, hub, conns, pending, replayed, rcvVars, dropped>>

\* Mutant of Finish: no deferred Unsubscribe.
FinishWithoutUnsubscribe(c) ==
  /\ pc' = [pc EXCEPT ![c] = "off"]
  /\ pending' = [pending EXCEPT ![c] = {}]
  /\ UNCHANGED <<pubVars, hub, conns, chanVars, replayed, from, dropped>>

\* The handler returns: the deferred Unsubscribe removes and closes the channel.
Finish(c) ==
  /\ pc' = [pc EXCEPT ![c] = "off"]
  /\ subs' = subs \ {c}
  /\ buf' = [buf EXCEPT ![c] = <<>>]
  /\ pending' = [pending EXCEPT ![c] = {}]
  /\ UNCHANGED <<pubVars, hub, conns, chClosed, replayed, from, dropped>>

\* eventsAfter: the store is read at one moment, through the filter.
ReadStore(c) ==
  /\ Goto(c, "subscribed", "replay")
  /\ pending' = [pending EXCEPT ![c] =
                   IF HasStore /\ lastID[c] > 0 THEN Between(lastID[c], stored) ELSE {}]
  /\ UNCHANGED <<pubVars, hub, conns, chanVars, replayed, rcvVars, from, dropped>>

\* The store read fails: an error event with no ID and a retry hint is sent,
\* and the handler returns.
StoreFails(c) ==
  /\ pc[c] = "subscribed"
  /\ HasStore /\ lastID[c] > 0
  /\ Finish(c)
  /\ UNCHANGED rcvVars

\* stream.Send(evt) succeeds: the browser has the event and remembers its ID.
Deliver(c, e) ==
  /\ lastID' = [lastID EXCEPT ![c] = e]
  /\ got' = [got EXCEPT ![c][e] = @ + 1]
  /\ seen' = [seen EXCEPT ![c][e] = @ + 1]

\* The store returns the events in append order: the oldest is replayed next.
ReplaySend(c) ==
  /\ pc[c] = "replay"
  /\ \E e \in pending[c] :
       /\ \A d \in pending[c] : e <= d
       /\ Deliver(c, e)
       /\ replayed' = [replayed EXCEPT ![c] = @ \cup {e}]
       /\ pending' = [pending EXCEPT ![c] = @ \ {e}]
  /\ UNCHANGED <<pubVars, hub, pc, conns, chanVars, from, dropped>>

\* Mutant of ReplayDone: the handler subscribes only now, after the replay.
SubscribeAfterReplay(c) ==
  /\ Goto(c, "replay", "live")
  /\ pending[c] = {}
  /\ buf' = [buf EXCEPT ![c] = <<>>]
  /\ UNCHANGED <<pubVars, hub, conns, subs, chClosed, pending, replayed, rcvVars, from, dropped>>

ReplayDone(c) ==
  /\ Goto(c, "replay", "live")
  /\ pending[c] = {}
  /\ UNCHANGED <<pubVars, hub, conns, chanVars, pending, replayed, rcvVars, from, dropped>>

\* Mutant of Forward: replayed events are not skipped.
ForwardWithoutDedup(c) ==
  /\ pc[c] = "live"
  /\ buf[c] # <<>>
  /\ buf' = [buf EXCEPT ![c] = Tail(@)]
  /\ Deliver(c, Head(buf[c]))
  /\ UNCHANGED <<pubVars, hub, pc, conns, subs, chClosed, pending, replayed, from, dropped>>

\* Mutant of Forward: live events are forwarded while the replay is running.
ForwardDuringReplay(c) ==
  /\ pc[c] \in {"replay", "live"}
  /\ buf[c] # <<>>
  /\ buf' = [buf EXCEPT ![c] = Tail(@)]
  /\ \/ Head(buf[c]) \in replayed[c] /\ UNCHANGED rcvVars
     \/ Head(buf[c]) \notin replayed[c] /\ Deliver(c, Head(buf[c]))
  /\ UNCHANGED <<pubVars, hub, pc, conns, subs, chClosed, pending, replayed, from, dropped>>

\* Mutant of Forward: everything is taken for a duplicate once there was a replay.
ForwardSkipsAll(c) ==
  /\ pc[c] = "live"
  /\ buf[c] # <<>>
  /\ buf' = [buf EXCEPT ![c] = Tail(@)]
  /\ \/ replayed[c] # {} /\ UNCHANGED rcvVars
     \/ replayed[c] = {} /\ Deliver(c, Head(buf[c]))
  /\ UNCHANGED <<pubVars, hub, pc, conns, subs, chClosed, pending, replayed, from, dropped>>

\* forwardLive receives one event: a replayed one is skipped, another is sent.
Forward(c) ==
  /\ pc[c] = "live"
  /\ buf[c] # <<>>
  /\ buf' = [buf EXCEPT ![c] = Tail(@)]
  /\ \/ /\ Head(buf[c]) \in replayed[c]
        /\ UNCHANGED rcvVars
     \/ /\ Head(buf[c]) \notin replayed[c]
        /\ Deliver(c, Head(buf[c]))
  /\ UNCHANGED <<pubVars, hub, pc, conns, subs, chClosed, pending, replayed, from, dropped>>

\* The channel is closed and empty: forwardLive returns.
ChannelEnds(c) ==
  /\ pc[c] = "live"
  /\ chClosed[c] /\ buf[c] = <<>>
  /\ Finish(c)
  /\ UNCHANGED rcvVars

\* The client went away: ctx.Done in the live loop, a failing Send elsewhere.
Disconnect(c) ==
  /\ pc[c] \in {"replay", "live"}
  /\ Finish(c)
  /\ UNCHANGED rcvVars

-----------------------------------------------------------------------------
(* Hub.Shutdown and Hub.Close *)

ShutdownBegins ==
  /\ hub = "open"
  /\ hub' = "draining"
  /\ UNCHANGED <<pubVars, pc, conns, chanVars, pending, replayed, rcvVars, from, dropped>>

CloseChannels ==
  /\ hub' = "closed"
  /\ chClosed' = [c \in Clients |-> chClosed[c] \/ c \in subs]

\* The subscriber buffers are empty: the channels are closed.
ShutdownDrained ==
  /\ hub = "draining"
  /\ \A c \in subs : buf[c] = <<>>
  /\ CloseChannels
  /\ UNCHANGED <<pubVars, pc, conns, subs, buf, pending, replayed, rcvVars, from, dropped>>

\* Hub.Close: channels are closed at once; a closed Go channel still yields
\* what it buffers.
CloseNow ==
  /\ hub # "closed"
  /\ CloseChannels
  /\ UNCHANGED <<pubVars, pc, conns, subs, buf, pending, replayed, rcvVars, from, dropped>>

-----------------------------------------------------------------------------
HandlerStep(c) ==
  \/ Subscribe(c) \/ ReadStore(c) \/ ReplaySend(c) \/ ReplayDone(c)
  \/ Forward(c) \/ ChannelEnds(c)

Next ==
  \/ AppendEvent \/ Broadcast
  \/ ShutdownBegins \/ ShutdownDrained \/ CloseNow
  \/ \E c \in Clients : HandlerStep(c) \/ Open(c) \/ StoreFails(c) \/ Disconnect(c)

Spec == Init /\ [][Next]_vars

\* Handlers and the publisher are scheduled and a client that stays reads its
\* stream; nobody must connect, stay, publish or shut down.
Fairness ==
  /\ WF_vars(Broadcast)
  /\ WF_vars(ShutdownDrained)
  /\ \A c \in Clients : WF_vars(HandlerStep(c))

FairSpec == Spec /\ Fairness

-----------------------------------------------------------------------------
(* Properties *)

\* Subscribe-before-replay makes overlap possible, the dedup set keeps delivery
\* on one connection exactly-once, whatever is appended, broadcast or dropped
\* between the subscription, the store read and the live loop.
AtMostOncePerConnection == \A c \in Clients, e \in Events : got[c][e] <= 1

\* No event slips between replay and live: up to the newest ID it was given, a
\* connection has delivered every matching event it owes, except those its
\* own full buffer lost.
NoGap ==
  \A c \in Clients : pc[c] \in {"replay", "live"} =>
    \A e \in Match : from[c] < e /\ e <= lastID[c] /\ got[c][e] = 0 => e \in dropped[c]

\* Replayed and live events arrive in append order: on one connection the
\* browser's Last-Event-ID only moves back to an event that an earlier
\* connection had replayed before it was broadcast.
OrderPreserved ==
  [][\A c \in Clients : lastID'[c] < lastID[c] => lastID'[c] <= from[c]]_vars

\* A connection that stays open on an open hub is eventually given every
\* matching event that was broadcast and that its buffer did not lose.
EventuallyDelivered ==
  \A c \in Clients, e \in Match :
    (pc[c] = "live" /\ sent >= e /\ from[c] < e) ~>
      (got[c][e] = 1 \/ e \in dropped[c] \/ pc[c] # "live")

\* Hub.Shutdown ends: handlers empty their buffers or leave.
ShutdownCompletes == hub = "draining" ~> hub = "closed"

\* What a browser sees of its connection.
On(c) == pc[c] \in {"subscribed", "replay", "live"}

BaseNow(c) == IF On(c) THEN from[c] ELSE 0
GivenNow(c) == IF On(c) THEN {e \in Match : got[c][e] # 0} ELSE {}
LostNow(c) == IF On(c) THEN dropped[c] ELSE {}

Contract ==
  INSTANCE StreamContract WITH
    Resumes   <- HasStore,
    published <- stored,
    fanned    <- sent,
    link      <- [c \in Clients |-> IF On(c) THEN "on" ELSE "off"],
    bookmark  <- lastID,
    base      <- [c \in Clients |-> BaseNow(c)],
    given     <- [c \in Clients |-> GivenNow(c)],
    lost      <- [c \in Clients |-> LostNow(c)]

\* Hub and Handler implement StreamContract: the interleavings of replay, live
\* fan-out, full buffers, reconnects and a hub that shuts down look to every
\* browser like one ordered log that is read once per connection.
ImplementsContract == Contract!Spec

(* Statements of the documentation that the code does not keep. *)

\* handler.go: "clients heal via the standard Last-Event-ID reconnect, which
\* replays exactly the gap": once a reconnected client is live and has lost
\* nothing since, it has every matching event its history covers.
ReconnectHeals ==
  \A c \in Clients : pc[c] = "live" /\ conns[c] > 1 /\ dropped[c] = {} =>
    \A e \in Match : e <= lastID[c] /\ (\E d \in Match : d < e /\ seen[c][d] > 0)
                       => seen[c][e] > 0

\* handler.go: "dedup keeps delivery exactly-once", over a client's connections.
ExactlyOnceAcrossReconnects == \A c \in Clients, e \in Events : seen[c][e] <= 1

=============================================================================
