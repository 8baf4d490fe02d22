------------------------ MODULE RealtimeStreamProofs ------------------------
(***************************************************************************)
(* TLAPS proofs about RealtimeStream, for any clients, any number of       *)
(* events and connections, any filter and buffer size, with and without a  *)
(* store.                                                                  *)
(*                                                                         *)
(* IInv says where every event a connection owes its client is: delivered, *)
(* dropped, in the subscriber buffer or still to be replayed.  With it     *)
(* every step maps to a step of StreamContract or to none (ContractNext).  *)
(***************************************************************************)
EXTENDS RealtimeStream, TLAPS, SequenceTheorems

Members(s) == {s[i] : i \in 1..Len(s)}

Increasing(s) == \A i, j \in 1..Len(s) : i < j => s[i] < s[j]

\* Only a connection past Subscribe is fanned out to, and a subscriber whose
\* channel is closed is one of a closed broadcaster.
Subscribed(c) ==
  /\ c \in subs => pc[c] \in {"subscribed", "replay", "live"}
  /\ c \in subs /\ chClosed[c] => hub = "closed"
  /\ c \notin subs => buf[c] = <<>>

\* A buffer holds broadcast events in order, and none that was dropped.
Buffered(c) ==
  /\ Increasing(buf[c])
  /\ \A e \in Members(buf[c]) : e <= sent /\ e \notin dropped[c]
  /\ \A e \in dropped[c] : e <= sent

\* What was delivered and is in the buffer, or will be, was replayed.
Delivered(c) ==
  /\ \A e \in Events : got[c][e] <= 1
  /\ pc[c] # "off" =>
       /\ \A e \in replayed[c] : got[c][e] = 1
       /\ \A e \in Events : got[c][e] # 0 /\ (sent < e \/ e \in Members(buf[c])) => e \in replayed[c]
  /\ pc[c] \in {"opened", "subscribed"} => \A e \in Events : got[c][e] = 0

\* The events still to be replayed are the next ones: new to the client, and
\* with every matching event below them.
Replaying(c) ==
  /\ pc[c] # "replay" \/ ~HasStore => pending[c] = {}
  /\ \A e \in pending[c] : lastID[c] < e /\ got[c][e] = 0
  /\ \A e \in Match, p \in pending[c] : lastID[c] < e /\ e <= p => e \in pending[c]

\* Where a connection takes up.
TakenUp(c) ==
  /\ ~HasStore => lastID[c] <= sent
  /\ pc[c] = "subscribed" =>
       /\ lastID[c] <= from[c]
       /\ HasStore /\ lastID[c] > 0 => from[c] = lastID[c]

\* A subscriber has lost track of no broadcast event it is owed.
Covered(c) ==
  c \in subs => \A e \in Match : from[c] < e /\ e <= sent =>
    /\ pc[c] = "subscribed" /\ ~(HasStore /\ lastID[c] > 0) =>
         e \in dropped[c] \/ e \in Members(buf[c])
    /\ pc[c] \in {"replay", "live"} =>
         got[c][e] = 1 \/ e \in dropped[c] \/ e \in Members(buf[c]) \/ e \in pending[c]

\* NoGap of one client.
Gapless(c) ==
  pc[c] \in {"replay", "live"} =>
    \A e \in Match : from[c] < e /\ e <= lastID[c] /\ got[c][e] = 0 => e \in dropped[c]

Connection(c) ==
  /\ Subscribed(c) /\ Buffered(c) /\ Delivered(c) /\ Replaying(c)
  /\ TakenUp(c) /\ Covered(c) /\ Gapless(c)

IInv == TypeOK /\ \A c \in Clients : Connection(c)

-----------------------------------------------------------------------------
(* Buffers *)

LEMMA MembersEmpty == Members(<<>>) = {} /\ Increasing(<<>>)
  BY DEF Members, Increasing

LEMMA MembersAppend ==
  ASSUME NEW S, NEW s \in Seq(S), NEW e
  PROVE  /\ Members(Append(s, e)) = Members(s) \cup {e}
         /\ Increasing(s) /\ (\A x \in Members(s) : x < e) => Increasing(Append(s, e))
<1>1. Len(s) \in Nat /\ Len(Append(s, e)) = Len(s) + 1
  OBVIOUS
<1>2. /\ \A i \in 1..Len(s) : Append(s, e)[i] = s[i]
      /\ Append(s, e)[Len(s) + 1] = e
  OBVIOUS
<1>3. 1..(Len(s) + 1) = (1..Len(s)) \cup {Len(s) + 1}
  BY <1>1
<1>4. Members(Append(s, e)) = Members(s) \cup {e}
  BY <1>1, <1>2, <1>3 DEF Members
<1>5. ASSUME Increasing(s), \A x \in Members(s) : x < e
      PROVE  Increasing(Append(s, e))
  <2>1. SUFFICES ASSUME NEW i \in 1..(Len(s) + 1), NEW j \in 1..(Len(s) + 1), i < j
                 PROVE  Append(s, e)[i] < Append(s, e)[j]
    BY <1>1 DEF Increasing
  <2>2. i \in 1..Len(s)
    BY <1>1, <2>1
  <2>3. s[i] < e
    BY <1>5, <2>2 DEF Members
  <2>4. j \in 1..Len(s) => s[i] < s[j]
    BY <1>5, <2>1, <2>2 DEF Increasing
  <2> QED
    BY <1>2, <1>3, <2>2, <2>3, <2>4
<1> QED
  BY <1>4, <1>5

LEMMA MembersTail ==
  ASSUME NEW S, NEW s \in Seq(S), s # <<>>, Increasing(s)
  PROVE  /\ Head(s) \in S /\ Head(s) \in Members(s)
         /\ Tail(s) \in Seq(S) /\ Len(Tail(s)) = Len(s) - 1
         /\ Members(s) = {Head(s)} \cup Members(Tail(s))
         /\ \A x \in Members(Tail(s)) : Head(s) < x
         /\ Increasing(Tail(s))
<1>1. /\ Len(s) \in Nat \ {0} /\ Head(s) = s[1]
      /\ Tail(s) \in Seq(S) /\ Len(Tail(s)) = Len(s) - 1
      /\ \A i \in 1..(Len(s) - 1) : Tail(s)[i] = s[i + 1]
  OBVIOUS
<1>2. \A i \in 1..Len(s) : i = 1 \/ i - 1 \in 1..(Len(s) - 1)
  BY <1>1
<1>3. \A i \in 1..(Len(s) - 1) : i + 1 \in 1..Len(s)
  BY <1>1
<1>4. Head(s) \in S /\ Head(s) \in Members(s)
  BY <1>1 DEF Members
<1>5. Members(Tail(s)) = {s[i + 1] : i \in 1..(Len(s) - 1)}
  BY <1>1 DEF Members
<1>6. Members(s) = {Head(s)} \cup Members(Tail(s))
  <2>1. ASSUME NEW x \in Members(s)
        PROVE  x \in {Head(s)} \cup Members(Tail(s))
    <3>1. PICK i \in 1..Len(s) : x = s[i]
      BY DEF Members
    <3>2. i # 1 => x = s[(i - 1) + 1]
      BY <3>1
    <3> QED
      BY <1>1, <1>2, <1>5, <3>1, <3>2
  <2>2. Members(Tail(s)) \subseteq Members(s)
    BY <1>3, <1>5 DEF Members
  <2> QED
    BY <1>4, <2>1, <2>2
<1>7. \A i \in 1..(Len(s) - 1) : s[1] < s[i + 1]
  <2> TAKE i \in 1..(Len(s) - 1)
  <2> QED
    BY <1>1, <1>3 DEF Increasing
<1>8. Increasing(Tail(s))
  <2>1. SUFFICES ASSUME NEW i \in 1..(Len(s) - 1), NEW j \in 1..(Len(s) - 1), i < j
                 PROVE  s[i + 1] < s[j + 1]
    BY <1>1 DEF Increasing
  <2> QED
    BY <1>3, <2>1 DEF Increasing
<1> QED
  BY <1>1, <1>4, <1>5, <1>6, <1>7, <1>8

-----------------------------------------------------------------------------
(* Types *)

LEMMA TypeInit == Init => TypeOK
  BY RealtimeAssumption DEF Init, TypeOK, Events, HandlerPC

\* Deliver of an event to a client.
LEMMA DeliverType ==
  ASSUME TypeOK, NEW c \in Clients, NEW e \in Match, Deliver(c, e)
  PROVE  /\ lastID' \in [Clients -> 0..MaxEvents] /\ got' \in [Clients -> [Events -> Nat]]
         /\ seen' \in [Clients -> [Events -> Nat]]
         /\ lastID'[c] = e
         /\ \A d \in Events : got'[c][d] = IF d = e THEN got[c][d] + 1 ELSE got[c][d]
         /\ \A d \in Clients : d # c => lastID'[d] = lastID[d] /\ got'[d] = got[d]
<1>1. e \in Events /\ e \in 0..MaxEvents
  BY RealtimeAssumption DEF Events
<1>2. /\ lastID \in [Clients -> 0..MaxEvents] /\ got \in [Clients -> [Events -> Nat]]
      /\ seen \in [Clients -> [Events -> Nat]]
  BY DEF TypeOK
<1>3. lastID' \in [Clients -> 0..MaxEvents] /\ lastID'[c] = e
  BY <1>1, <1>2 DEF Deliver
<1>4. [got[c] EXCEPT ![e] = @ + 1] \in [Events -> Nat] /\ [seen[c] EXCEPT ![e] = @ + 1] \in [Events -> Nat]
  BY <1>1, <1>2
<1>5. /\ got' = [got EXCEPT ![c] = [got[c] EXCEPT ![e] = @ + 1]]
      /\ seen' = [seen EXCEPT ![c] = [seen[c] EXCEPT ![e] = @ + 1]]
  BY <1>2 DEF Deliver
<1>6. got' \in [Clients -> [Events -> Nat]] /\ seen' \in [Clients -> [Events -> Nat]]
  BY <1>2, <1>4, <1>5
<1>7. got'[c] = [got[c] EXCEPT ![e] = @ + 1]
  BY <1>2, <1>5
<1>8. \A d \in Events : got'[c][d] = IF d = e THEN got[c][d] + 1 ELSE got[c][d]
  BY <1>2, <1>7
<1>9. \A d \in Clients : d # c => lastID'[d] = lastID[d] /\ got'[d] = got[d]
  BY <1>2, <1>5 DEF Deliver
<1> QED
  BY <1>3, <1>6, <1>8, <1>9

LEMMA FinishType ==
  ASSUME TypeOK, NEW c \in Clients, Finish(c), UNCHANGED rcvVars
  PROVE  TypeOK'
<1>1. buf' \in [Clients -> Seq(Match)] /\ \A d \in Clients : Len(buf'[d]) <= BufferSize
  BY RealtimeAssumption DEF TypeOK, Finish
<1>2. /\ pc' \in [Clients -> HandlerPC] /\ subs' \subseteq Clients
      /\ pending' \in [Clients -> SUBSET Match]
  BY DEF TypeOK, Finish, HandlerPC
<1> QED
  BY <1>1, <1>2 DEF TypeOK, Finish, pubVars, rcvVars

LEMMA TypeStep ==
  ASSUME TypeOK, \A c \in Clients : Connection(c), [Next]_vars
  PROVE  TypeOK'
<1>1. CASE AppendEvent
  BY <1>1, RealtimeAssumption DEF TypeOK, AppendEvent, chanVars, rcvVars
<1>2. CASE Broadcast
  <2>1. sent' = sent + 1 /\ sent < stored /\ stored' = stored
    BY <1>2 DEF Broadcast
  <2>2. sent' \in 0..stored'
    BY <2>1 DEF TypeOK
  <2>3. sent + 1 \in Match => \A c \in Clients : /\ Append(buf[c], sent + 1) \in Seq(Match)
                                                 /\ Len(Append(buf[c], sent + 1)) = Len(buf[c]) + 1
    BY DEF TypeOK
  <2>4. /\ buf' \in [Clients -> Seq(Match)] /\ \A c \in Clients : Len(buf'[c]) <= BufferSize
        /\ dropped' \in [Clients -> SUBSET Match]
    <3>1. /\ \A c \in Clients : buf[c] \in Seq(Match) /\ Len(buf[c]) \in Nat /\ Len(buf[c]) <= BufferSize
          /\ BufferSize \in Nat
      BY RealtimeAssumption DEF TypeOK
    <3>4. \A c \in Clients : /\ dropped[c] \in SUBSET Match
                             /\ sent + 1 \in Match => dropped[c] \cup {sent + 1} \in SUBSET Match
      BY DEF TypeOK
    <3>5. dropped' \in [Clients -> SUBSET Match]
      <4>1. CASE dropped' = [c \in Clients |->
                               IF (c \in subs /\ ~chClosed[c] /\ sent + 1 \in Match) /\ ~(Len(buf[c]) < BufferSize)
                               THEN dropped[c] \cup {sent + 1} ELSE dropped[c]]
        BY <3>4, <4>1
      <4>2. CASE dropped' = [c \in Clients |-> IF sent + 1 \in Match /\ c \in subs
                                              THEN dropped[c] \cup {sent + 1} ELSE dropped[c]]
        BY <3>4, <4>2
      <4> QED
        BY <1>2, <4>1, <4>2 DEF Broadcast
    <3>2. CASE UNCHANGED buf
      <4>1. buf \in [Clients -> Seq(Match)]
        BY DEF TypeOK
      <4> QED
        BY <3>1, <3>2, <3>5, <4>1
    <3>3. CASE ~UNCHANGED buf
      <4> DEFINE Take(c) == c \in subs /\ ~chClosed[c] /\ sent + 1 \in Match
      <4>1. buf' = [c \in Clients |-> IF Take(c) /\ Len(buf[c]) < BufferSize
                                      THEN Append(buf[c], sent + 1) ELSE buf[c]]
        BY <1>2, <3>3 DEF Broadcast
      <4>3. \A c \in Clients : Take(c) => sent + 1 \in Match
        OBVIOUS
      <4> HIDE DEF Take
      <4>4. \A c \in Clients : buf'[c] \in Seq(Match) /\ Len(buf'[c]) <= BufferSize
        BY <2>3, <3>1, <4>1, <4>3
      <4> QED
        BY <3>5, <4>1, <4>4
    <3> QED
      BY <3>2, <3>3
  <2> QED
    BY <1>2, <2>2, <2>4 DEF TypeOK, Broadcast, rcvVars
<1>3. CASE ShutdownBegins
  BY <1>3 DEF TypeOK, ShutdownBegins, pubVars, chanVars, rcvVars
<1>4. CASE ShutdownDrained \/ CloseNow
  <2>1. chClosed' \in [Clients -> BOOLEAN] /\ hub' = "closed"
    BY <1>4 DEF TypeOK, ShutdownDrained, CloseNow, CloseChannels
  <2> QED
    BY <1>4, <2>1 DEF TypeOK, ShutdownDrained, CloseNow, pubVars, rcvVars
<1>5. ASSUME NEW c \in Clients, HandlerStep(c) \/ Open(c) \/ StoreFails(c) \/ Disconnect(c)
      PROVE  TypeOK'
  <2>1. CASE Subscribe(c)
    <3>1. sent \in 0..MaxEvents /\ lastID[c] \in 0..MaxEvents
      BY RealtimeAssumption DEF TypeOK
    <3>2. from' \in [Clients -> 0..MaxEvents] /\ chClosed' \in [Clients -> BOOLEAN]
      BY <2>1, <3>1 DEF Subscribe, TypeOK
    <3>3. buf' \in [Clients -> Seq(Match)] /\ \A d \in Clients : Len(buf'[d]) <= BufferSize
      BY <2>1, RealtimeAssumption DEF Subscribe, TypeOK
    <3>4. subs' \subseteq Clients /\ pc' \in [Clients -> HandlerPC]
      BY <2>1 DEF Subscribe, TypeOK, HandlerPC, Goto
    <3> QED
      BY <2>1, <3>2, <3>3, <3>4 DEF Subscribe, TypeOK, pubVars, rcvVars
  <2>2. CASE ReadStore(c)
    <3>1. pending' \in [Clients -> SUBSET Match] /\ pc' \in [Clients -> HandlerPC]
      BY <2>2 DEF ReadStore, TypeOK, Between, HandlerPC, Goto
    <3> QED
      BY <2>2, <3>1 DEF ReadStore, TypeOK, pubVars, chanVars, rcvVars
  <2>3. CASE ReplaySend(c)
    <3>1. PICK e \in pending[c] : /\ Deliver(c, e)
                                  /\ replayed' = [replayed EXCEPT ![c] = @ \cup {e}]
                                  /\ pending' = [pending EXCEPT ![c] = @ \ {e}]
      BY <2>3 DEF ReplaySend
    <3>2. e \in Match
      BY DEF TypeOK
    <3>3. pending' \in [Clients -> SUBSET Match] /\ replayed' \in [Clients -> SUBSET Match]
      BY <3>1, <3>2 DEF TypeOK
    <3> QED
      BY <2>3, <3>1, <3>2, <3>3, DeliverType DEF ReplaySend, TypeOK, pubVars, chanVars
  <2>4. CASE ReplayDone(c)
    BY <2>4 DEF ReplayDone, TypeOK, Goto, HandlerPC, pubVars, chanVars, rcvVars
  <2>5. CASE Forward(c)
    <3>1. buf[c] \in Seq(Match) /\ buf[c] # <<>> /\ Increasing(buf[c])
      BY <2>5 DEF Forward, TypeOK, Connection, Buffered
    <3>2. /\ Head(buf[c]) \in Match /\ Tail(buf[c]) \in Seq(Match)
          /\ Len(Tail(buf[c])) = Len(buf[c]) - 1
      BY <3>1, MembersTail
    <3>3. Len(buf[c]) \in Nat /\ BufferSize \in Nat /\ Len(buf[c]) <= BufferSize
      BY <3>1, RealtimeAssumption DEF TypeOK
    <3>4. buf' \in [Clients -> Seq(Match)] /\ \A d \in Clients : Len(buf'[d]) <= BufferSize
      BY <2>5, <3>2, <3>3 DEF Forward, TypeOK
    <3>5. /\ lastID' \in [Clients -> 0..MaxEvents] /\ got' \in [Clients -> [Events -> Nat]]
          /\ seen' \in [Clients -> [Events -> Nat]]
      BY <2>5, <3>2, DeliverType DEF Forward, TypeOK, rcvVars
    <3> QED
      BY <2>5, <3>4, <3>5 DEF Forward, TypeOK, pubVars
  <2>6. CASE ChannelEnds(c) \/ StoreFails(c) \/ Disconnect(c)
    BY <2>6, FinishType DEF ChannelEnds, StoreFails, Disconnect
  <2>7. CASE Open(c)
    <3>1. /\ conns' \in [Clients -> 0..MaxConns] /\ got' \in [Clients -> [Events -> Nat]]
          /\ replayed' \in [Clients -> SUBSET Match] /\ dropped' \in [Clients -> SUBSET Match]
          /\ pc' \in [Clients -> HandlerPC]
      BY <2>7, RealtimeAssumption DEF Open, TypeOK, Goto, HandlerPC
    <3> QED
      BY <2>7, <3>1 DEF Open, TypeOK, pubVars, chanVars
  <2> QED
    BY <1>5, <2>1, <2>2, <2>3, <2>4, <2>5, <2>6, <2>7 DEF HandlerStep
<1>6. CASE UNCHANGED vars
  BY <1>6 DEF TypeOK, vars, pubVars, chanVars, rcvVars
<1> QED
  BY <1>1, <1>2, <1>3, <1>4, <1>5, <1>6 DEF Next

-----------------------------------------------------------------------------
(* Steps of others *)

\* Nothing a connection's invariant reads about client c changes.
Same(c) ==
  /\ pc'[c] = pc[c] /\ (c \in subs') = (c \in subs) /\ buf'[c] = buf[c] /\ chClosed'[c] = chClosed[c]
  /\ pending'[c] = pending[c] /\ replayed'[c] = replayed[c] /\ lastID'[c] = lastID[c]
  /\ from'[c] = from[c] /\ got'[c] = got[c] /\ dropped'[c] = dropped[c]

LEMMA SameConnection ==
  ASSUME NEW c \in Clients, Connection(c), Same(c), sent' = sent, hub' = hub
  PROVE  Connection(c)'
<1>1. Subscribed(c)' /\ TakenUp(c)'
  BY DEF Connection, Subscribed, TakenUp, Same
<1>2. Buffered(c)' /\ Replaying(c)'
  BY DEF Connection, Buffered, Replaying, Same
<1>3. Delivered(c)'
  BY DEF Connection, Delivered, Same
<1>4. Covered(c)' /\ Gapless(c)'
  BY DEF Connection, Covered, Gapless, Same
<1> QED
  BY <1>1, <1>2, <1>3, <1>4 DEF Connection

\* A handler's step concerns its own client.
LEMMA OwnClient ==
  ASSUME TypeOK, NEW c \in Clients,
         HandlerStep(c) \/ Open(c) \/ StoreFails(c) \/ Disconnect(c)
  PROVE  sent' = sent /\ hub' = hub /\ stored' = stored /\ \A d \in Clients : d # c => Same(d)
<1>1. CASE Subscribe(c) \/ ReadStore(c) \/ ReplayDone(c)
  BY <1>1 DEF Subscribe, ReadStore, ReplayDone, Goto, TypeOK, Same, pubVars, chanVars, rcvVars
<1>2. CASE ReplaySend(c)
  <2>1. PICK e \in pending[c] : /\ Deliver(c, e)
                                /\ replayed' = [replayed EXCEPT ![c] = @ \cup {e}]
                                /\ pending' = [pending EXCEPT ![c] = @ \ {e}]
    BY <1>2 DEF ReplaySend
  <2> QED
    BY <1>2, <2>1 DEF ReplaySend, Deliver, TypeOK, Same, pubVars, chanVars
<1>3. CASE Forward(c)
  BY <1>3 DEF Forward, Deliver, TypeOK, Same, pubVars, rcvVars
<1>4. CASE ChannelEnds(c) \/ StoreFails(c) \/ Disconnect(c)
  BY <1>4 DEF ChannelEnds, StoreFails, Disconnect, Finish, TypeOK, Same, pubVars, rcvVars
<1>5. CASE Open(c)
  BY <1>5 DEF Open, Goto, TypeOK, Same, pubVars, chanVars
<1> QED
  BY <1>1, <1>2, <1>3, <1>4, <1>5 DEF HandlerStep

-----------------------------------------------------------------------------
(* The handler *)

LEMMA OpenConnection ==
  ASSUME TypeOK, NEW c \in Clients, Connection(c), Open(c)
  PROVE  Connection(c)'
<1>1. /\ pc[c] = "off" /\ pc'[c] = "opened" /\ got'[c] = [e \in Events |-> 0]
      /\ replayed'[c] = {} /\ dropped'[c] = {}
  BY DEF Open, Goto, TypeOK
<1>2. /\ sent' = sent /\ hub' = hub /\ subs' = subs /\ buf' = buf /\ chClosed' = chClosed
      /\ pending' = pending /\ lastID' = lastID /\ from' = from
  BY DEF Open, pubVars, chanVars
<1>3. c \notin subs /\ buf[c] = <<>> /\ pending[c] = {}
  BY <1>1 DEF Connection, Subscribed, Replaying
<1>4. Subscribed(c)' /\ TakenUp(c)' /\ Covered(c)' /\ Gapless(c)'
  BY <1>1, <1>2, <1>3 DEF Connection, Subscribed, TakenUp, Covered, Gapless
<1>5. Buffered(c)' /\ Replaying(c)'
  BY <1>1, <1>2, <1>3, MembersEmpty DEF Buffered, Replaying
<1>6. Delivered(c)'
  BY <1>1 DEF Delivered
<1> QED
  BY <1>4, <1>5, <1>6 DEF Connection

LEMMA SubscribeConnection ==
  ASSUME TypeOK, NEW c \in Clients, Connection(c), Subscribe(c)
  PROVE  Connection(c)'
<1>1. /\ pc[c] = "opened" /\ pc'[c] = "subscribed" /\ buf'[c] = <<>>
      /\ from'[c] = IF HasStore /\ lastID[c] > 0 THEN lastID[c] ELSE sent
      /\ c \in subs' => hub = "open" \/ c \in subs
      /\ chClosed'[c] = (hub # "open")
  BY DEF Subscribe, Goto, TypeOK
<1>2. /\ sent' = sent /\ hub' = hub /\ pending' = pending /\ lastID' = lastID
      /\ got' = got /\ replayed' = replayed /\ dropped' = dropped
  BY DEF Subscribe, pubVars, rcvVars
<1>3. c \notin subs /\ pending[c] = {} /\ \A e \in dropped[c] : e <= sent
  BY <1>1 DEF Connection, Subscribed, Replaying, Buffered
<1>4. Subscribed(c)'
  BY <1>1, <1>2, <1>3 DEF Subscribed
<1>5. Buffered(c)' /\ Replaying(c)'
  BY <1>1, <1>2, <1>3, MembersEmpty DEF Buffered, Replaying
<1>6. Delivered(c)'
  BY <1>1, <1>2, MembersEmpty DEF Connection, Delivered
<1>7. TakenUp(c)'
  <2>1. lastID[c] \in Nat /\ sent \in Nat
    BY DEF TypeOK
  <2> QED
    BY <1>1, <1>2, <2>1 DEF Connection, TakenUp
<1>8. Covered(c)'
  <2>1. sent \in Nat /\ \A e \in Match : e \in Nat
    BY RealtimeAssumption DEF TypeOK
  <2> QED
    BY <1>1, <1>2, <2>1 DEF Covered
<1>9. Gapless(c)'
  BY <1>1 DEF Gapless
<1> QED
  BY <1>4, <1>5, <1>6, <1>7, <1>8, <1>9 DEF Connection

LEMMA ReadStoreConnection ==
  ASSUME TypeOK, NEW c \in Clients, Connection(c), ReadStore(c)
  PROVE  Connection(c)'
<1>1. /\ pc[c] = "subscribed" /\ pc'[c] = "replay"
      /\ pending'[c] = IF HasStore /\ lastID[c] > 0 THEN {e \in Match : lastID[c] < e /\ e <= stored} ELSE {}
  BY DEF ReadStore, Goto, TypeOK, Between
<1>2. /\ sent' = sent /\ hub' = hub /\ subs' = subs /\ buf' = buf /\ chClosed' = chClosed
      /\ lastID' = lastID /\ got' = got /\ replayed' = replayed /\ from' = from /\ dropped' = dropped
  BY DEF ReadStore, pubVars, chanVars, rcvVars
<1>3. /\ sent \in Nat /\ stored \in Nat /\ sent <= stored /\ lastID[c] \in Nat /\ from[c] \in Nat
      /\ \A e \in Match : e \in Nat /\ e \in Events
  BY RealtimeAssumption DEF TypeOK, Events
<1>4. \A e \in Events : got[c][e] = 0
  BY <1>1 DEF Connection, Delivered
<1>5. Subscribed(c)' /\ TakenUp(c)' /\ Buffered(c)'
  BY <1>1, <1>2 DEF Connection, Subscribed, TakenUp, Buffered
<1>6. Delivered(c)'
  BY <1>1, <1>2 DEF Connection, Delivered
<1>7. Replaying(c)'
  BY <1>1, <1>2, <1>3, <1>4 DEF Replaying
<1>8. lastID[c] <= from[c] /\ (HasStore /\ lastID[c] > 0 => from[c] = lastID[c])
  BY <1>1 DEF Connection, TakenUp
<1>9. Covered(c)'
  BY <1>1, <1>2, <1>3, <1>8 DEF Connection, Covered
<1>10. Gapless(c)'
  BY <1>1, <1>2, <1>3, <1>8 DEF Gapless
<1> QED
  BY <1>5, <1>6, <1>7, <1>9, <1>10 DEF Connection

LEMMA ReplaySendConnection ==
  ASSUME TypeOK, NEW c \in Clients, Connection(c), ReplaySend(c)
  PROVE  Connection(c)' /\ lastID[c] < lastID'[c]
<1>1. PICK h \in pending[c] : /\ \A d \in pending[c] : h <= d
                              /\ Deliver(c, h)
                              /\ replayed' = [replayed EXCEPT ![c] = @ \cup {h}]
                              /\ pending' = [pending EXCEPT ![c] = @ \ {h}]
  BY DEF ReplaySend
<1>2. h \in Match /\ h \in Events /\ Match \subseteq Events /\ Events \subseteq Nat
  BY RealtimeAssumption DEF TypeOK, Events
<1>3. /\ pc[c] = "replay" /\ pc' = pc /\ sent' = sent /\ hub' = hub /\ subs' = subs /\ buf' = buf
      /\ chClosed' = chClosed /\ from' = from /\ dropped' = dropped
  BY DEF ReplaySend, pubVars, chanVars
<1>4. /\ lastID'[c] = h
      /\ \A d \in Events : got'[c][d] = IF d = h THEN got[c][d] + 1 ELSE got[c][d]
  BY <1>1, <1>2, DeliverType
<1>5. replayed'[c] = replayed[c] \cup {h} /\ pending'[c] = pending[c] \ {h} /\ HasStore
  BY <1>1, <1>3 DEF TypeOK, Connection, Replaying
<1>6. /\ lastID[c] < h /\ got[c][h] = 0
      /\ lastID[c] \in Nat /\ pending[c] \subseteq Match /\ replayed[c] \subseteq Match
  <2>1. lastID[c] \in Nat /\ pending[c] \subseteq Match /\ replayed[c] \subseteq Match
    BY DEF TypeOK
  <2> QED
    BY <2>1 DEF Connection, Replaying
<1>7. \A e \in Match : lastID[c] < e /\ e < h => FALSE
  BY <1>1, <1>2 DEF Connection, Replaying
<1>8. Subscribed(c)' /\ Buffered(c)' /\ TakenUp(c)'
  BY <1>3, <1>5 DEF Connection, Subscribed, Buffered, TakenUp
<1>9. Delivered(c)'
  <2>1. \A e \in Events : got'[c][e] = got[c][e] \/ (e = h /\ got'[c][e] = 1)
    BY <1>2, <1>4, <1>6
  <2>2. got'[c][h] = 1
    BY <1>2, <1>4, <1>6
  <2>3. \A e \in replayed'[c] : e = h \/ (e \in replayed[c] /\ e \in Events)
    BY <1>2, <1>5, <1>6
  <2>4. \A e \in replayed'[c] : got'[c][e] = 1
    BY <1>3, <2>1, <2>2, <2>3 DEF Connection, Delivered
  <2>5. \A e \in Events : got'[c][e] <= 1
    BY <2>1 DEF Connection, Delivered
  <2>6. \A e \in Events : got'[c][e] # 0 /\ (sent < e \/ e \in Members(buf[c])) => e \in replayed'[c]
    BY <1>3, <1>5, <2>1 DEF Connection, Delivered
  <2> QED
    BY <1>3, <2>4, <2>5, <2>6 DEF Delivered
<1>10. Replaying(c)'
  <2>1. ASSUME NEW e \in pending'[c]
        PROVE  h < e /\ got'[c][e] = 0
    <3>1. e \in pending[c] /\ e # h /\ e \in Events /\ e \in Nat /\ h \in Nat
      BY <1>2, <1>5, <1>6
    <3>2. h <= e /\ got[c][e] = 0
      BY <1>1, <3>1 DEF Connection, Replaying
    <3> QED
      BY <1>4, <3>1, <3>2
  <2>2. \A e \in Match, p \in pending'[c] : h < e /\ e <= p => e \in pending'[c]
    BY <1>2, <1>5, <1>6 DEF Connection, Replaying
  <2> QED
    BY <1>3, <1>4, <1>5, <2>1, <2>2 DEF Replaying
<1>11. Covered(c)'
  BY <1>2, <1>3, <1>4, <1>5, <1>6 DEF Connection, Covered
<1>12. Gapless(c)'
  BY <1>2, <1>3, <1>4, <1>6, <1>7 DEF Connection, Gapless
<1> QED
  BY <1>4, <1>6, <1>8, <1>9, <1>10, <1>11, <1>12 DEF Connection

LEMMA ReplayDoneConnection ==
  ASSUME TypeOK, NEW c \in Clients, Connection(c), ReplayDone(c)
  PROVE  Connection(c)'
<1>1. pc[c] = "replay" /\ pc'[c] = "live" /\ pending[c] = {}
  BY DEF ReplayDone, Goto, TypeOK
<1>2. /\ sent' = sent /\ hub' = hub /\ subs' = subs /\ buf' = buf /\ chClosed' = chClosed
      /\ pending' = pending /\ lastID' = lastID /\ got' = got /\ replayed' = replayed
      /\ from' = from /\ dropped' = dropped
  BY DEF ReplayDone, pubVars, chanVars, rcvVars
<1>3. Subscribed(c)' /\ Buffered(c)' /\ TakenUp(c)' /\ Replaying(c)'
  BY <1>1, <1>2 DEF Connection, Subscribed, Buffered, TakenUp, Replaying
<1>4. Delivered(c)' /\ Covered(c)' /\ Gapless(c)'
  BY <1>1, <1>2 DEF Connection, Delivered, Covered, Gapless
<1> QED
  BY <1>3, <1>4 DEF Connection

\* The head of the buffer is skipped when it was replayed, and otherwise new to
\* the client; an event below the newest ID is one the connection does not owe.
LEMMA ForwardConnection ==
  ASSUME TypeOK, NEW c \in Clients, Connection(c), Forward(c)
  PROVE  Connection(c)' /\ (lastID'[c] < lastID[c] => lastID'[c] <= from[c])
<1> DEFINE h == Head(buf[c])
           B == Members(buf[c])
           T == Members(Tail(buf[c]))
<1>1. pc[c] = "live" /\ buf[c] \in Seq(Match) /\ buf[c] # <<>> /\ Increasing(buf[c]) /\ c \in subs
  BY DEF Forward, TypeOK, Connection, Buffered, Subscribed
<1>2. h \in Match /\ h \in B /\ B = {h} \cup T /\ (\A x \in T : h < x) /\ Increasing(Tail(buf[c]))
  BY <1>1, MembersTail
<1>20. \/ h \in replayed[c] /\ UNCHANGED rcvVars
       \/ h \notin replayed[c] /\ Deliver(c, h)
  BY DEF Forward
<1>21. Members(Tail(buf[c])) = T
  OBVIOUS
<1> HIDE DEF h, B, T
<1>3. Match \subseteq Events /\ Events \subseteq Nat /\ sent \in Nat /\ lastID[c] \in Nat /\ from[c] \in Nat
  BY RealtimeAssumption DEF TypeOK, Events
<1>4. /\ buf'[c] = Tail(buf[c]) /\ pc' = pc /\ sent' = sent /\ hub' = hub /\ subs' = subs
      /\ chClosed' = chClosed /\ pending' = pending /\ replayed' = replayed /\ from' = from
      /\ dropped' = dropped
  BY DEF Forward, TypeOK, pubVars
<1>5. Members(buf'[c]) = T /\ Increasing(buf'[c])
  BY <1>2, <1>4, <1>21
<1>6. h <= sent /\ h \notin dropped[c] /\ h \notin T
  <2>1. h <= sent /\ h \notin dropped[c]
    BY <1>2 DEF Connection, Buffered, B
  <2>2. h \in Nat
    BY <1>2, <1>3
  <2> QED
    BY <1>2, <2>1, <2>2
<1>7. pending[c] = {} /\ pending'[c] = {}
  BY <1>1, <1>4 DEF Connection, Replaying
<1>8. \/ h \in replayed[c] /\ lastID'[c] = lastID[c] /\ got'[c] = got[c]
      \/ /\ h \notin replayed[c] /\ lastID'[c] = h
         /\ \A d \in Events : got'[c][d] = IF d = h THEN got[c][d] + 1 ELSE got[c][d]
  <2>1. CASE h \in replayed[c]
    BY <1>20, <2>1 DEF rcvVars
  <2>2. CASE h \notin replayed[c]
    BY <1>2, <1>20, <2>2, DeliverType
  <2> QED
    BY <2>1, <2>2
<1>9. \/ h \in replayed[c] /\ got[c][h] = 1
      \/ h \notin replayed[c] /\ got[c][h] = 0
  <2>1. h \in Events
    BY <1>2, <1>3
  <2>2. got[c][h] \in Nat
    BY <2>1 DEF TypeOK
  <2> QED
    BY <1>1, <1>2, <2>1, <2>2 DEF Connection, Delivered, B
<1>22. h \in Events /\ got'[c][h] = 1 /\ \A e \in Events : e # h => got'[c][e] = got[c][e]
  <2>0. h \in Events
    BY <1>2, <1>3
  <2>1. CASE h \in replayed[c]
    <3>1. got'[c] = got[c] /\ got[c][h] = 1
      BY <1>8, <1>9, <2>1
    <3> QED
      BY <2>0, <3>1
  <2>2. CASE h \notin replayed[c]
    <3>1. got[c][h] = 0 /\ \A e \in Events : got'[c][e] = IF e = h THEN got[c][e] + 1 ELSE got[c][e]
      BY <1>8, <1>9, <2>2
    <3>2. got'[c][h] = got[c][h] + 1
      BY <2>0, <3>1
    <3>3. ASSUME NEW e \in Events, e # h
          PROVE  got'[c][e] = got[c][e]
      BY <3>1, <3>3
    <3> QED
      BY <2>0, <3>1, <3>2, <3>3
  <2> QED
    BY <2>1, <2>2
<1>23. /\ h \in replayed[c] => got[c][h] = 1
       /\ lastID'[c] = lastID[c] \/ (lastID'[c] = h /\ got[c][h] = 0)
  BY <1>8, <1>9
<1>10. Subscribed(c)'
  BY <1>1, <1>4 DEF Connection, Subscribed
<1>11. Buffered(c)'
  BY <1>2, <1>4, <1>5 DEF Connection, Buffered, B
<1>12. TakenUp(c)' /\ Replaying(c)'
  BY <1>1, <1>3, <1>4, <1>6, <1>7, <1>8 DEF Connection, TakenUp, Replaying
<1>13. Delivered(c)'
  <2>1. \A e \in replayed[c] : e \in Events
    BY <1>3 DEF TypeOK
  <2>2. \A e \in Events : got'[c][e] = got[c][e] \/ (e = h /\ got'[c][e] = 1)
    BY <1>22
  <2>3. \A e \in T : e \in B
    BY <1>2
  <2>4. \A e \in Events : got'[c][e] <= 1
    BY <2>2 DEF Connection, Delivered
  <2>5. \A e \in replayed[c] : got'[c][e] = 1
    BY <1>1, <2>1, <2>2 DEF Connection, Delivered
  <2>6. ASSUME NEW e \in Events, got'[c][e] # 0, sent < e \/ e \in T
        PROVE  e \in replayed[c]
    <3>1. e # h
      BY <1>2, <1>3, <1>6, <2>6
    <3>2. got[c][e] # 0 /\ (sent < e \/ e \in Members(buf[c]))
      BY <2>2, <2>3, <2>6, <3>1 DEF B
    <3> QED
      BY <1>1, <3>2 DEF Connection, Delivered
  <2> QED
    BY <1>1, <1>4, <1>5, <2>4, <2>5, <2>6 DEF Delivered
<1>14. \A e \in Match : from[c] < e /\ e <= sent =>
          got[c][e] = 1 \/ e \in dropped[c] \/ e \in B
  BY <1>1, <1>7 DEF Connection, Covered, B
<1>15. \A e \in Match : e \in Events /\ got[c][e] = 1 => got'[c][e] = 1
  BY <1>3, <1>22
<1>16. got'[c][h] = 1 /\ h \in Events
  BY <1>22
<1>17. Covered(c)'
  BY <1>1, <1>2, <1>3, <1>4, <1>5, <1>14, <1>15, <1>16 DEF Covered
<1>18. Gapless(c)'
  <2>1. SUFFICES ASSUME NEW e \in Match, from[c] < e, e <= lastID'[c], got'[c][e] = 0
                 PROVE  e \in dropped[c]
    BY <1>4 DEF Gapless
  <2>2. e \in Events /\ e \in Nat /\ got[c][e] # 1 /\ e # h /\ got[c][e] \in Nat
    BY <1>3, <1>15, <1>16, <2>1 DEF TypeOK
  <2>3. got[c][e] = 0
    BY <2>2 DEF Connection, Delivered
  <2>4. CASE lastID'[c] = lastID[c]
    BY <1>1, <2>1, <2>3, <2>4 DEF Connection, Gapless
  <2>5. CASE lastID'[c] = h
    <3>1. h \in Nat /\ e < h /\ e <= sent
      BY <1>2, <1>3, <1>6, <2>1, <2>2, <2>5
    <3>2. e \notin B
      BY <1>2, <1>3, <2>2, <3>1
    <3> QED
      BY <1>14, <2>1, <2>2, <3>1, <3>2
  <2> QED
    BY <1>23, <2>4, <2>5
<1>19. lastID'[c] < lastID[c] => lastID'[c] <= from[c]
  <2>1. h \in Nat
    BY <1>2, <1>3
  <2>2. CASE lastID'[c] = lastID[c]
    BY <1>3, <2>2
  <2>3. CASE lastID'[c] = h /\ got[c][h] = 0
    <3>1. SUFFICES ASSUME h < lastID[c], from[c] < h
                   PROVE  FALSE
      BY <1>3, <2>1, <2>3
    <3>2. h <= lastID[c]
      BY <1>3, <2>1, <3>1
    <3> QED
      BY <1>1, <1>2, <1>6, <2>3, <3>1, <3>2 DEF Connection, Gapless
  <2> QED
    BY <1>23, <2>2, <2>3
<1> QED
  BY <1>10, <1>11, <1>12, <1>13, <1>17, <1>18, <1>19 DEF Connection

LEMMA FinishConnection ==
  ASSUME TypeOK, NEW c \in Clients, Connection(c), Finish(c), UNCHANGED rcvVars
  PROVE  Connection(c)'
<1>1. pc'[c] = "off" /\ c \notin subs' /\ buf'[c] = <<>> /\ pending'[c] = {}
  BY DEF Finish, TypeOK
<1>2. /\ sent' = sent /\ hub' = hub /\ lastID' = lastID /\ got' = got /\ replayed' = replayed
      /\ from' = from /\ dropped' = dropped
  BY DEF Finish, pubVars, rcvVars
<1>3. Subscribed(c)' /\ TakenUp(c)' /\ Covered(c)' /\ Gapless(c)'
  BY <1>1, <1>2 DEF Connection, Subscribed, TakenUp, Covered, Gapless
<1>4. Buffered(c)' /\ Replaying(c)' /\ Delivered(c)'
  BY <1>1, <1>2, MembersEmpty DEF Connection, Buffered, Replaying, Delivered
<1> QED
  BY <1>3, <1>4 DEF Connection

-----------------------------------------------------------------------------
(* The publisher and the hub *)

LEMMA BroadcastConnection ==
  ASSUME TypeOK, NEW c \in Clients, Connection(c), Broadcast
  PROVE  Connection(c)' /\ lastID' = lastID
<1> DEFINE n == sent + 1
<1>1. /\ sent' = n /\ hub' = hub /\ pc' = pc /\ subs' = subs /\ chClosed' = chClosed
      /\ pending' = pending /\ replayed' = replayed /\ lastID' = lastID /\ got' = got /\ from' = from
  BY DEF Broadcast, rcvVars
<1>2. /\ buf'[c] = buf[c] \/ (n \in Match /\ c \in subs /\ buf'[c] = Append(buf[c], n))
      /\ dropped'[c] = dropped[c] \/ (n \in Match /\ c \in subs /\ dropped'[c] = dropped[c] \cup {n})
      /\ buf'[c] = buf[c] \/ dropped'[c] = dropped[c]
      /\ n \in Match /\ c \in subs =>
           buf'[c] = Append(buf[c], n) \/ dropped'[c] = dropped[c] \cup {n}
  <2>1. CASE hub # "closed" /\ ~UNCHANGED buf
    <3>1. c \in subs => ~chClosed[c]
      BY <2>1 DEF Connection, Subscribed
    <3>2. Len(buf[c]) < BufferSize \/ ~(Len(buf[c]) < BufferSize)
      OBVIOUS
    <3> QED
      BY <2>1, <3>1, <3>2 DEF Broadcast
  <2>2. CASE hub # "closed" /\ UNCHANGED buf
    <3>1. c \in subs => ~chClosed[c]
      BY <2>2 DEF Connection, Subscribed
    <3>2. buf[c] # Append(buf[c], n)
      <4>1. Len(buf[c]) \in Nat /\ Len(Append(buf[c], n)) = Len(buf[c]) + 1
        BY DEF TypeOK
      <4> QED
        BY <4>1
    <3>3. buf'[c] = buf[c]
      BY <2>2
    <3> QED
      BY <3>1, <3>2, <3>3 DEF Broadcast
  <2>3. CASE hub = "closed"
    BY <2>3 DEF Broadcast
  <2> QED
    BY <2>1, <2>2, <2>3
<1>3. sent \in Nat /\ n \in Nat /\ sent < n /\ buf[c] \in Seq(Match) /\ Match \subseteq Nat /\ n = sent + 1
  BY RealtimeAssumption DEF TypeOK
<1> HIDE DEF n
<1>4. /\ \A e \in Match : e <= sent' <=> e <= sent \/ e = n
      /\ \A e \in Nat : e <= sent => e < n /\ e <= n /\ e # n
      /\ \A e \in Nat : n < e => sent < e
  BY <1>1, <1>3
<1>5. /\ Members(buf[c]) \subseteq Match
      /\ \A e \in Members(buf[c]) : e < n
      /\ dropped[c] \subseteq Match
      /\ \A e \in dropped[c] : e <= sent
      /\ Increasing(buf[c])
  <2>1. Members(buf[c]) \subseteq Match
    BY <1>3 DEF Members
  <2> QED
    BY <1>3, <1>4, <2>1 DEF TypeOK, Connection, Buffered
<1>6. /\ Members(Append(buf[c], n)) = Members(buf[c]) \cup {n}
      /\ Increasing(Append(buf[c], n))
  BY <1>3, <1>5, MembersAppend
<1>7. /\ Members(buf[c]) \subseteq Members(buf'[c])
      /\ Members(buf'[c]) \subseteq Members(buf[c]) \cup {n}
      /\ dropped[c] \subseteq dropped'[c] /\ dropped'[c] \subseteq dropped[c] \cup {n}
      /\ n \in Members(buf'[c]) => dropped'[c] = dropped[c]
      /\ n \in Match /\ c \in subs => n \in Members(buf'[c]) \/ n \in dropped'[c]
      /\ Increasing(buf'[c])
  <2>1. n \notin Members(buf[c])
    BY <1>3, <1>5
  <2> QED
    BY <1>2, <1>5, <1>6, <2>1
<1>8. Subscribed(c)'
  BY <1>1, <1>2 DEF Connection, Subscribed
<1>9. Buffered(c)'
  <2>1. ASSUME NEW e \in Members(buf'[c])
        PROVE  e <= n /\ e \notin dropped'[c]
    <3>1. CASE e = n
      BY <1>3, <1>4, <1>5, <1>7, <3>1
    <3>2. CASE e # n
      <4>1. e \in Members(buf[c]) /\ e \in Nat
        BY <1>3, <1>5, <1>7, <3>2
      <4> QED
        BY <1>4, <1>7, <3>2, <4>1 DEF Connection, Buffered
    <3> QED
      BY <3>1, <3>2
  <2>2. \A e \in dropped'[c] : e <= n
    <3>1. n <= n
      BY <1>3
    <3>2. \A e \in dropped[c] : e \in Nat /\ e <= sent
      BY <1>3, <1>5
    <3>3. \A e \in dropped[c] : e <= n
      BY <1>4, <3>2
    <3> QED
      BY <1>7, <3>1, <3>3
  <2> QED
    BY <1>1, <1>7, <2>1, <2>2 DEF Buffered
<1>10. Delivered(c)'
  <2>1. ASSUME NEW e \in Events, sent' < e \/ e \in Members(buf'[c])
        PROVE  sent < e \/ e \in Members(buf[c])
    <3>1. e \in Nat
      BY DEF Events
    <3> QED
      BY <1>1, <1>3, <1>4, <1>7, <2>1, <3>1
  <2> QED
    BY <1>1, <2>1 DEF Connection, Delivered
<1>11. Replaying(c)' /\ TakenUp(c)'
  <2>1. lastID[c] \in Nat
    BY DEF TypeOK
  <2> QED
    BY <1>1, <1>4, <2>1 DEF Connection, Replaying, TakenUp
<1>12. Covered(c)'
  BY <1>1, <1>4, <1>7 DEF Connection, Covered
<1>13. Gapless(c)'
  BY <1>1, <1>7 DEF Connection, Gapless
<1> QED
  BY <1>1, <1>8, <1>9, <1>10, <1>11, <1>12, <1>13 DEF Connection

\* The channels of the subscribers are closed with the broadcaster.
LEMMA CloseConnection ==
  ASSUME TypeOK, NEW c \in Clients, Connection(c), ShutdownBegins \/ ShutdownDrained \/ CloseNow
  PROVE  Connection(c)' /\ lastID' = lastID
<1>1. /\ sent' = sent /\ pc' = pc /\ subs' = subs /\ buf' = buf /\ pending' = pending
      /\ replayed' = replayed /\ lastID' = lastID /\ got' = got /\ from' = from /\ dropped' = dropped
  BY DEF ShutdownBegins, ShutdownDrained, CloseNow, pubVars, chanVars, rcvVars
<1>2. hub' = "closed" \/ (hub = "open" /\ chClosed' = chClosed)
  BY DEF ShutdownBegins, ShutdownDrained, CloseNow, CloseChannels, chanVars
<1>3. Subscribed(c)'
  BY <1>1, <1>2 DEF Connection, Subscribed
<1>4. Buffered(c)' /\ Replaying(c)' /\ TakenUp(c)' /\ Delivered(c)'
  BY <1>1 DEF Connection, Buffered, Replaying, TakenUp, Delivered
<1>5. Covered(c)' /\ Gapless(c)'
  BY <1>1 DEF Connection, Covered, Gapless
<1> QED
  BY <1>1, <1>3, <1>4, <1>5 DEF Connection

-----------------------------------------------------------------------------
(* Theorems *)

LEMMA InitInv == Init => IInv
<1> SUFFICES ASSUME Init PROVE IInv
  OBVIOUS
<1>1. TypeOK
  BY TypeInit
<1>2. ASSUME NEW c \in Clients PROVE Connection(c)
  <2>1. /\ pc[c] = "off" /\ subs = {} /\ buf[c] = <<>> /\ pending[c] = {} /\ sent = 0 /\ lastID[c] = 0
        /\ dropped[c] = {} /\ \A e \in Events : got[c][e] = 0
    BY DEF Init
  <2>2. Subscribed(c) /\ Buffered(c)
    BY <2>1, MembersEmpty DEF Subscribed, Buffered
  <2>3. Delivered(c) /\ Replaying(c)
    BY <2>1 DEF Delivered, Replaying
  <2>4. TakenUp(c) /\ Covered(c) /\ Gapless(c)
    BY <2>1 DEF TakenUp, Covered, Gapless
  <2> QED
    BY <2>2, <2>3, <2>4 DEF Connection
<1> QED
  BY <1>1, <1>2 DEF IInv

\* A step keeps the invariant, and moves no Last-Event-ID back above the point
\* from which the connection delivers.
LEMMA StepInv ==
  ASSUME IInv, [Next]_vars
  PROVE  IInv' /\ \A c \in Clients : lastID'[c] < lastID[c] => lastID'[c] <= from[c]
<1>1. TypeOK /\ \A c \in Clients : Connection(c) /\ lastID[c] \in Nat
  BY DEF IInv, TypeOK
<1>2. TypeOK'
  BY <1>1, TypeStep
<1>3. ASSUME NEW c \in Clients
      PROVE  Connection(c)' /\ (lastID'[c] < lastID[c] => lastID'[c] <= from[c])
  <2>1. CASE AppendEvent
    <3>1. Same(c) /\ sent' = sent /\ hub' = hub /\ lastID' = lastID
      BY <2>1 DEF AppendEvent, Same, chanVars, rcvVars
    <3> QED
      BY <1>1, <3>1, SameConnection
  <2>2. CASE Broadcast
    BY <1>1, <2>2, BroadcastConnection
  <2>3. CASE ShutdownBegins \/ ShutdownDrained \/ CloseNow
    BY <1>1, <2>3, CloseConnection
  <2>4. ASSUME NEW d \in Clients, d # c,
               HandlerStep(d) \/ Open(d) \/ StoreFails(d) \/ Disconnect(d)
        PROVE  Connection(c)' /\ lastID'[c] = lastID[c]
    <3>1. Same(c) /\ sent' = sent /\ hub' = hub
      BY <1>1, <2>4, OwnClient
    <3> QED
      BY <1>1, <3>1, SameConnection DEF Same
  <2>5. CASE HandlerStep(c) \/ Open(c) \/ StoreFails(c) \/ Disconnect(c)
    <3>8. Subscribe(c) \/ ReadStore(c) \/ ReplayDone(c) \/ Open(c) => lastID' = lastID
      BY DEF Subscribe, ReadStore, ReplayDone, Open, rcvVars
    <3>1. CASE Subscribe(c)
      BY <1>1, <3>1, <3>8, SubscribeConnection
    <3>2. CASE ReadStore(c)
      BY <1>1, <3>2, <3>8, ReadStoreConnection
    <3>3. CASE ReplaySend(c)
      <4>1. lastID'[c] \in Nat
        BY <1>2 DEF TypeOK
      <4> QED
        BY <1>1, <3>3, <4>1, ReplaySendConnection
    <3>4. CASE ReplayDone(c)
      BY <1>1, <3>4, <3>8, ReplayDoneConnection
    <3>5. CASE Forward(c)
      BY <1>1, <3>5, ForwardConnection
    <3>6. CASE ChannelEnds(c) \/ StoreFails(c) \/ Disconnect(c)
      BY <1>1, <3>6, FinishConnection DEF ChannelEnds, StoreFails, Disconnect, rcvVars
    <3>7. CASE Open(c)
      BY <1>1, <3>7, <3>8, OpenConnection
    <3> QED
      BY <2>5, <3>1, <3>2, <3>3, <3>4, <3>5, <3>6, <3>7 DEF HandlerStep
  <2>6. CASE UNCHANGED vars
    <3>1. Same(c) /\ sent' = sent /\ hub' = hub /\ lastID' = lastID
      BY <2>6 DEF vars, Same, pubVars, chanVars, rcvVars
    <3> QED
      BY <1>1, <3>1, SameConnection
  <2> QED
    BY <1>1, <2>1, <2>2, <2>3, <2>4, <2>5, <2>6 DEF Next
<1> QED
  BY <1>2, <1>3 DEF IInv

\* The invariant holds in every reachable state of the hub and its handlers.
THEOREM InvariantHolds == Spec => []IInv
<1>1. IInv /\ [Next]_vars => IInv'
  BY StepInv
<1> QED
  BY InitInv, <1>1, PTL DEF Spec

\* forwardLive's dedup set and the subscription before the replay: one
\* connection is given no event twice.
THEOREM NeverTwice == Spec => []AtMostOncePerConnection
<1>1. IInv => AtMostOncePerConnection
  BY DEF IInv, Connection, Delivered, AtMostOncePerConnection
<1> QED
  BY <1>1, InvariantHolds, PTL

\* Nothing falls between eventsAfter and forwardLive: below the newest ID it
\* was given, a connection misses only what its full buffer dropped.
THEOREM NothingBetween == Spec => []NoGap
<1>1. IInv => NoGap
  BY DEF IInv, Connection, Gapless, NoGap
<1> QED
  BY <1>1, InvariantHolds, PTL

\* Replayed and live events reach the browser in append order.
THEOREM InOrder == Spec => OrderPreserved
<1>1. IInv /\ [Next]_vars => [\A c \in Clients : lastID'[c] < lastID[c] => lastID'[c] <= from[c]]_vars
  BY StepInv
<1> QED
  BY <1>1, InvariantHolds, PTL DEF Spec, OrderPreserved

-----------------------------------------------------------------------------
(* The refinement of StreamContract *)

\* A connection loses nothing before it subscribes, and replays what is stored.
Grounded(c) ==
  /\ pc[c] = "opened" => dropped[c] = {}
  /\ \A e \in pending[c] : e <= stored

\* What a full buffer, or a broadcaster that stops, takes from a connection.
LEMMA BroadcastLoss ==
  ASSUME NEW c \in Clients, Broadcast
  PROVE  \/ dropped'[c] = dropped[c]
         \/ sent' \in Match /\ c \in subs /\ dropped'[c] = dropped[c] \cup {sent'}
BY DEF Broadcast

LEMMA GroundedStep ==
  ASSUME IInv, \A c \in Clients : Grounded(c), [Next]_vars
  PROVE  \A c \in Clients : Grounded(c)'
<1> SUFFICES ASSUME NEW c \in Clients PROVE Grounded(c)'
  OBVIOUS
<1>0. /\ TypeOK /\ Connection(c) /\ Grounded(c)
      /\ stored \in Nat /\ sent \in Nat /\ pending[c] \subseteq Match /\ Match \subseteq Nat
  BY RealtimeAssumption DEF IInv, TypeOK
<1>1. CASE AppendEvent \/ UNCHANGED vars
  <2>1. pc' = pc /\ dropped' = dropped /\ pending' = pending /\ (stored' = stored \/ stored' = stored + 1)
    BY <1>1 DEF AppendEvent, vars, pubVars
  <2>2. ASSUME NEW e \in pending[c] PROVE e <= stored'
    <3>1. e \in Nat /\ e <= stored
      BY <1>0 DEF Grounded
    <3> QED
      BY <1>0, <2>1, <3>1
  <2> QED
    BY <1>0, <2>1, <2>2 DEF Grounded
<1>2. CASE Broadcast
  <2>1. pc' = pc /\ pending' = pending /\ stored' = stored
    BY <1>2 DEF Broadcast
  <2>2. pc[c] = "opened" => dropped'[c] = dropped[c]
    BY <1>0, <1>2, BroadcastLoss DEF Connection, Subscribed
  <2> QED
    BY <1>0, <2>1, <2>2 DEF Grounded
<1>3. CASE ShutdownBegins \/ ShutdownDrained \/ CloseNow
  <2>1. pc' = pc /\ dropped' = dropped /\ pending' = pending /\ stored' = stored
    BY <1>3 DEF ShutdownBegins, ShutdownDrained, CloseNow, pubVars
  <2> QED
    BY <1>0, <2>1 DEF Grounded
<1>4. ASSUME NEW d \in Clients, d # c, HandlerStep(d) \/ Open(d) \/ StoreFails(d) \/ Disconnect(d)
      PROVE  Grounded(c)'
  <2>1. Same(c) /\ stored' = stored
    BY <1>0, <1>4, OwnClient
  <2> QED
    BY <1>0, <2>1 DEF Grounded, Same
<1>5. CASE HandlerStep(c) \/ Open(c) \/ StoreFails(c) \/ Disconnect(c)
  <2>1. stored' = stored
    BY <1>0, <1>5, OwnClient
  <2>2. pc'[c] = "opened" => dropped'[c] = {}
    <3>1. CASE Open(c)
      BY <1>0, <3>1 DEF Open, TypeOK
    <3>2. CASE HandlerStep(c) \/ StoreFails(c) \/ Disconnect(c)
      BY <1>0, <3>2 DEF HandlerStep, Subscribe, ReadStore, ReplaySend, ReplayDone, Forward, ChannelEnds, StoreFails,
         Disconnect, Finish, Goto, TypeOK
    <3> QED
      BY <1>5, <3>1, <3>2
  <2>3. \A e \in pending'[c] : e \in pending[c] \/ e <= stored
    <3>1. CASE ReadStore(c)
      BY <1>0, <3>1 DEF ReadStore, Between, TypeOK
    <3>2. CASE ReplaySend(c)
      BY <1>0, <3>2 DEF ReplaySend, TypeOK
    <3>3. CASE Subscribe(c) \/ ReplayDone(c) \/ Forward(c) \/ Open(c)
      BY <3>3 DEF Subscribe, ReplayDone, Forward, Open
    <3>4. CASE ChannelEnds(c) \/ StoreFails(c) \/ Disconnect(c)
      BY <1>0, <3>4 DEF ChannelEnds, StoreFails, Disconnect, Finish, TypeOK
    <3> QED
      BY <1>5, <3>1, <3>2, <3>3, <3>4 DEF HandlerStep
  <2> QED
    BY <1>0, <2>1, <2>2, <2>3 DEF Grounded
<1> QED
  BY <1>1, <1>2, <1>3, <1>4, <1>5 DEF Next

\* What the contract shows of a client is kept with what its invariant reads.
LEMMA SameSeen ==
  ASSUME NEW c \in Clients, Same(c)
  PROVE  /\ On(c)' = On(c) /\ BaseNow(c)' = BaseNow(c)
         /\ GivenNow(c)' = GivenNow(c) /\ LostNow(c)' = LostNow(c)
BY DEF Same, On, BaseNow, GivenNow, LostNow

LEMMA ContractStutter ==
  ASSUME UNCHANGED <<stored, sent, lastID>>,
         \A c \in Clients : /\ On(c)' = On(c) /\ BaseNow(c)' = BaseNow(c)
                            /\ GivenNow(c)' = GivenNow(c) /\ LostNow(c)' = LostNow(c)
  PROVE  UNCHANGED Contract!vars
BY DEF Contract!vars

LEMMA ContractInit == Init => Contract!Init
<1> SUFFICES ASSUME Init PROVE Contract!Init
  OBVIOUS
<1>1. \A c \in Clients : ~On(c) /\ BaseNow(c) = 0 /\ GivenNow(c) = {} /\ LostNow(c) = {}
  BY DEF Init, On, BaseNow, GivenNow, LostNow
<1> QED
  BY <1>1 DEF Init, Contract!Init

LEMMA AppendContract ==
  ASSUME AppendEvent
  PROVE  Contract!Next
<1>1. stored' = stored + 1 /\ UNCHANGED <<sent, lastID>> /\ \A c \in Clients : Same(c)
  BY DEF AppendEvent, Same, chanVars, rcvVars
<1>2. Contract!Publish
  BY <1>1, SameSeen DEF Contract!Publish
<1> QED
  BY <1>2 DEF Contract!Next

LEMMA BroadcastContract ==
  ASSUME IInv, Broadcast
  PROVE  Contract!Next
<1>1. /\ sent < stored /\ sent' = sent + 1 /\ UNCHANGED <<stored, lastID, pc, from, got>>
  BY DEF Broadcast, rcvVars
<1>2. \A c \in Clients : On(c)' = On(c) /\ BaseNow(c)' = BaseNow(c) /\ GivenNow(c)' = GivenNow(c)
  BY <1>1 DEF On, BaseNow, GivenNow
<1> DEFINE S == {c \in Clients : dropped'[c] # dropped[c]}
<1>3. \A c \in S : sent' \in Match /\ On(c) /\ dropped'[c] = dropped[c] \cup {sent'}
  BY BroadcastLoss DEF IInv, Connection, Subscribed, On
<1>4. \A c \in Clients : LostNow(c)' = IF c \in S THEN LostNow(c) \cup {sent'} ELSE LostNow(c)
  BY <1>2, <1>3 DEF LostNow
<1>5. S \in SUBSET {c \in Clients : On(c)} /\ (S # {} => sent' \in Match)
  BY <1>3
<1> HIDE DEF S
<1>6. Contract!FanOut
  BY <1>1, <1>2, <1>4, <1>5 DEF Contract!FanOut
<1> QED
  BY <1>6 DEF Contract!Next

LEMMA ConnectContract ==
  ASSUME IInv, NEW c \in Clients, Grounded(c), Subscribe(c)
  PROVE  Contract!Next
<1>0. TypeOK /\ Connection(c)
  BY DEF IInv
<1>1. /\ pc[c] = "opened" /\ pc'[c] = "subscribed" /\ UNCHANGED <<stored, sent, lastID, got, dropped>>
      /\ from'[c] = IF HasStore /\ lastID[c] > 0 THEN lastID[c] ELSE sent
      /\ \A d \in Clients : d # c => Same(d)
  BY <1>0, OwnClient DEF Subscribe, Goto, TypeOK, pubVars, rcvVars, HandlerStep
<1>2. ~On(c) /\ On(c)' /\ BaseNow(c)' = IF HasStore /\ lastID[c] > 0 THEN lastID[c] ELSE sent
  BY <1>1 DEF On, BaseNow
<1>3. GivenNow(c) = {} /\ GivenNow(c)' = {}
  <2>1. \A e \in Match : got[c][e] = 0 /\ got'[c][e] = 0
    BY <1>0, <1>1, RealtimeAssumption DEF Connection, Delivered, Events
  <2> QED
    BY <2>1 DEF GivenNow
<1>4. LostNow(c) = {} /\ LostNow(c)' = {}
  BY <1>1, <1>2 DEF LostNow, Grounded
<1>5. Contract!Connect(c)
  BY <1>1, <1>2, <1>3, <1>4, SameSeen DEF Contract!Connect
<1> QED
  BY <1>5 DEF Contract!Next

\* An event is delivered that is new, the next one or one from before.
LEMMA DeliverContract ==
  ASSUME IInv, IInv', NEW c \in Clients, NEW e \in Match, Deliver(c, e),
         pc[c] \in {"replay", "live"}, UNCHANGED <<stored, sent, pc, from, dropped>>,
         \A d \in Clients : d # c => Same(d),
         e <= stored, got[c][e] = 0, lastID[c] < e \/ e <= from[c]
  PROVE  Contract!Next
<1>0. TypeOK /\ Connection(c) /\ Connection(c)' /\ TypeOK'
  BY DEF IInv
<1>1. Match \subseteq Events /\ Match \subseteq Nat /\ lastID[c] \in Nat
  <2>1. Match \subseteq Events /\ Match \subseteq Nat
    BY RealtimeAssumption DEF Events
  <2>2. lastID[c] \in 0..MaxEvents
    BY <1>0 DEF TypeOK
  <2> QED
    BY <2>1, <2>2
<1>2. /\ lastID' = [lastID EXCEPT ![c] = e] /\ lastID'[c] = e
      /\ \A d \in Events : got'[c][d] = IF d = e THEN got[c][d] + 1 ELSE got[c][d]
  <2>1. lastID \in [Clients -> 0..MaxEvents] /\ got \in [Clients -> [Events -> Nat]]
    BY <1>0 DEF TypeOK
  <2> QED
    BY <1>1, <2>1 DEF Deliver
<1>3. /\ On(c) /\ On(c)' /\ BaseNow(c) = from[c] /\ BaseNow(c)' = from[c]
      /\ LostNow(c) = dropped[c] /\ LostNow(c)' = dropped[c]
  BY DEF On, BaseNow, LostNow
<1>4. e \notin GivenNow(c) /\ GivenNow(c)' = GivenNow(c) \cup {e}
  <2>1. GivenNow(c) = {d \in Match : got[c][d] # 0} /\ GivenNow(c)' = {d \in Match : got'[c][d] # 0}
    BY <1>3 DEF GivenNow
  <2>2. got'[c][e] # 0
    BY <1>1, <1>2
  <2>3. \A d \in Match : d # e => got'[c][d] = got[c][d]
    BY <1>1, <1>2
  <2> QED
    BY <2>1, <2>2, <2>3
<1>5. ASSUME NEW d \in Match, from[c] < d, d < e
      PROVE  d \in GivenNow(c) \cup LostNow(c)
  <2>1. d \in Nat /\ e \in Nat /\ d <= e /\ d # e
    BY <1>1, <1>5
  <2>2. got'[c][d] = got[c][d]
    BY <1>1, <1>2, <2>1
  <2>3. got[c][d] = 0 => d \in dropped[c]
    BY <1>0, <1>2, <1>5, <2>1, <2>2 DEF Connection, Gapless
  <2> QED
    BY <1>3, <2>3 DEF GivenNow
<1>6. Contract!Deliver(c, e)
  <2>1. /\ On(c) /\ e <= stored /\ e \notin GivenNow(c)
        /\ e > lastID[c] \/ e <= BaseNow(c)
        /\ \A d \in Match : BaseNow(c) < d /\ d < e => d \in GivenNow(c) \cup LostNow(c)
        /\ lastID' = [lastID EXCEPT ![c] = e] /\ UNCHANGED <<stored, sent>>
    <3>1. e > lastID[c] \/ e <= BaseNow(c)
      BY <1>1, <1>3
    <3> QED
      BY <1>2, <1>3, <1>4, <1>5, <3>1
  <2>2. \A d \in Clients : /\ On(d)' = On(d) /\ BaseNow(d)' = BaseNow(d) /\ LostNow(d)' = LostNow(d)
                           /\ GivenNow(d)' = IF d = c THEN GivenNow(d) \cup {e} ELSE GivenNow(d)
    <3>1. On(c)' = On(c) /\ BaseNow(c)' = BaseNow(c) /\ LostNow(c)' = LostNow(c)
      BY <1>3 DEF On
    <3>2. \A d \in Clients : d # c => /\ On(d)' = On(d) /\ BaseNow(d)' = BaseNow(d) /\ LostNow(d)' = LostNow(d)
                                      /\ GivenNow(d)' = GivenNow(d)
      BY SameSeen
    <3> QED
      BY <1>4, <3>1, <3>2
  <2>3. [d \in Clients |-> GivenNow(d)]' = [[d \in Clients |-> GivenNow(d)] EXCEPT ![c] = @ \cup {e}]
    BY <2>2
  <2>4. /\ [d \in Clients |-> IF On(d) THEN "on" ELSE "off"]' = [d \in Clients |-> IF On(d) THEN "on" ELSE "off"]
        /\ [d \in Clients |-> BaseNow(d)]' = [d \in Clients |-> BaseNow(d)]
        /\ [d \in Clients |-> LostNow(d)]' = [d \in Clients |-> LostNow(d)]
    BY <2>2
  <2>5. /\ [d \in Clients |-> IF On(d) THEN "on" ELSE "off"][c] = "on"
        /\ [d \in Clients |-> GivenNow(d)][c] = GivenNow(c)
        /\ [d \in Clients |-> BaseNow(d)][c] = BaseNow(c)
        /\ [d \in Clients |-> LostNow(d)][c] = LostNow(c)
    BY <2>1
  <2> QED
    BY <2>1, <2>3, <2>4, <2>5 DEF Contract!Deliver
<1> QED
  BY <1>6 DEF Contract!Next

LEMMA ReplayContract ==
  ASSUME IInv, IInv', NEW c \in Clients, Grounded(c), ReplaySend(c)
  PROVE  Contract!Next
<1>1. TypeOK /\ Connection(c)
  BY DEF IInv
<1>2. PICK e \in pending[c] : Deliver(c, e)
  BY DEF ReplaySend
<1>3. e \in Match /\ e <= stored /\ got[c][e] = 0 /\ lastID[c] < e
  BY <1>1 DEF TypeOK, Connection, Replaying, Grounded
<1>4. pc[c] = "replay" /\ UNCHANGED <<stored, sent, pc, from, dropped>> /\ \A d \in Clients : d # c => Same(d)
  BY <1>1, OwnClient DEF ReplaySend, pubVars, HandlerStep
<1> QED
  BY <1>2, <1>3, <1>4, DeliverContract

LEMMA ForwardContract ==
  ASSUME IInv, IInv', NEW c \in Clients, Forward(c)
  PROVE  [Contract!Next]_Contract!vars
<1>1. TypeOK /\ Connection(c)
  BY DEF IInv
<1>2. /\ pc[c] = "live" /\ UNCHANGED <<stored, sent, pc, from, dropped>>
      /\ \A d \in Clients : d # c => Same(d)
  BY <1>1, OwnClient DEF Forward, pubVars, HandlerStep
<1> DEFINE h == Head(buf[c])
<1>3. CASE h \in replayed[c] /\ UNCHANGED rcvVars
  <2>1. UNCHANGED <<lastID, got>>
    BY <1>3 DEF rcvVars
  <2>2. On(c)' = On(c) /\ BaseNow(c)' = BaseNow(c) /\ GivenNow(c)' = GivenNow(c) /\ LostNow(c)' = LostNow(c)
    BY <1>2, <2>1 DEF On, BaseNow, GivenNow, LostNow
  <2>3. UNCHANGED Contract!vars
    BY <1>2, <2>1, <2>2, SameSeen, ContractStutter
  <2> QED
    BY <2>3
<1>4. CASE h \notin replayed[c] /\ Deliver(c, h)
  <2>1. h \in Match /\ h \in Members(buf[c])
    <3>1. buf[c] \in Seq(Match) /\ buf[c] # <<>> /\ Increasing(buf[c])
      BY <1>1 DEF Forward, TypeOK, Connection, Buffered
    <3> QED
      BY <3>1, MembersTail
  <2> HIDE DEF h
  <2>2. h \in Events /\ h \in Nat /\ stored \in Nat /\ sent \in Nat /\ sent <= stored /\ lastID[c] \in Nat
    BY <1>1, <2>1, RealtimeAssumption DEF TypeOK, Events
  <2>3. h <= sent /\ h \notin dropped[c]
    BY <1>1, <2>1 DEF Connection, Buffered
  <2>4. got[c][h] = 0
    BY <1>1, <1>2, <1>4, <2>1, <2>2 DEF Connection, Delivered
  <2>5. lastID[c] < h \/ h <= from[c]
    <3>1. from[c] \in Nat
      BY <1>1 DEF TypeOK
    <3>2. ~(from[c] < h /\ h <= lastID[c])
      BY <1>1, <1>2, <2>1, <2>3, <2>4 DEF Connection, Gapless
    <3> QED
      BY <2>2, <3>1, <3>2
  <2>6. h <= stored
    BY <2>2, <2>3
  <2> QED
    BY <1>2, <1>4, <2>1, <2>4, <2>5, <2>6, DeliverContract
<1> QED
  BY <1>3, <1>4 DEF Forward

LEMMA FinishContract ==
  ASSUME IInv, NEW c \in Clients, StoreFails(c) \/ ChannelEnds(c) \/ Disconnect(c)
  PROVE  Contract!Next
<1>0. TypeOK
  BY DEF IInv
<1>1. /\ pc[c] \in {"subscribed", "replay", "live"} /\ pc'[c] = "off"
      /\ UNCHANGED <<stored, sent, lastID>> /\ \A d \in Clients : d # c => Same(d)
  BY <1>0, OwnClient DEF StoreFails, ChannelEnds, Disconnect, Finish, TypeOK, pubVars, rcvVars, HandlerStep
<1>2. On(c) /\ ~On(c)' /\ BaseNow(c)' = 0 /\ GivenNow(c)' = {} /\ LostNow(c)' = {}
  BY <1>1 DEF On, BaseNow, GivenNow, LostNow
<1>3. Contract!Disconnect(c)
  BY <1>1, <1>2, SameSeen DEF Contract!Disconnect
<1> QED
  BY <1>3 DEF Contract!Next

\* The rest of the handler, and the hub's shutdown, is none of the contract's.
LEMMA UnseenContract ==
  ASSUME IInv, NEW c \in Clients, Open(c) \/ ReadStore(c) \/ ReplayDone(c)
  PROVE  UNCHANGED Contract!vars
<1>0. TypeOK
  BY DEF IInv
<1>1. UNCHANGED <<stored, sent, lastID>> /\ \A d \in Clients : d # c => Same(d)
  BY <1>0, OwnClient DEF Open, ReadStore, ReplayDone, HandlerStep, pubVars, rcvVars
<1>2. On(c)' = On(c) /\ BaseNow(c)' = BaseNow(c) /\ GivenNow(c)' = GivenNow(c) /\ LostNow(c)' = LostNow(c)
  <2>1. CASE Open(c)
    <3>1. On(c) = FALSE /\ On(c)' = FALSE
      BY <1>0, <2>1 DEF Open, Goto, On, TypeOK
    <3>2. BaseNow(c) = 0 /\ GivenNow(c) = {} /\ LostNow(c) = {}
      BY <3>1 DEF BaseNow, GivenNow, LostNow
    <3>3. BaseNow(c)' = 0 /\ GivenNow(c)' = {} /\ LostNow(c)' = {}
      BY <3>1 DEF BaseNow, GivenNow, LostNow
    <3> QED
      BY <3>1, <3>2, <3>3
  <2>2. CASE ReadStore(c) \/ ReplayDone(c)
    <3>1. On(c) /\ On(c)' /\ UNCHANGED <<from, got, dropped>>
      BY <1>0, <2>2 DEF ReadStore, ReplayDone, Goto, On, TypeOK, rcvVars
    <3> QED
      BY <3>1 DEF BaseNow, GivenNow, LostNow
  <2> QED
    BY <2>1, <2>2
<1> QED
  BY <1>1, <1>2, SameSeen, ContractStutter

LEMMA ContractNext ==
  ASSUME IInv, IInv', \A c \in Clients : Grounded(c), [Next]_vars
  PROVE  [Contract!Next]_Contract!vars
<1>1. CASE AppendEvent \/ Broadcast
  BY <1>1, AppendContract, BroadcastContract
<1>2. CASE ShutdownBegins \/ ShutdownDrained \/ CloseNow \/ UNCHANGED vars
  <2>1. UNCHANGED <<stored, sent, lastID, pc, from, got, dropped>>
    BY <1>2 DEF ShutdownBegins, ShutdownDrained, CloseNow, vars, pubVars, rcvVars
  <2>2. \A c \in Clients : /\ On(c)' = On(c) /\ BaseNow(c)' = BaseNow(c)
                           /\ GivenNow(c)' = GivenNow(c) /\ LostNow(c)' = LostNow(c)
    BY <2>1 DEF On, BaseNow, GivenNow, LostNow
  <2> QED
    BY <2>1, <2>2, ContractStutter
<1>3. ASSUME NEW c \in Clients, HandlerStep(c) \/ Open(c) \/ StoreFails(c) \/ Disconnect(c)
      PROVE  [Contract!Next]_Contract!vars
  <2>1. CASE Subscribe(c)
    BY <2>1, ConnectContract
  <2>2. CASE ReplaySend(c)
    BY <2>2, ReplayContract
  <2>3. CASE Forward(c)
    BY <2>3, ForwardContract
  <2>4. CASE StoreFails(c) \/ ChannelEnds(c) \/ Disconnect(c)
    BY <2>4, FinishContract
  <2>5. CASE Open(c) \/ ReadStore(c) \/ ReplayDone(c)
    BY <2>5, UnseenContract
  <2> QED
    BY <1>3, <2>1, <2>2, <2>3, <2>4, <2>5 DEF HandlerStep
<1> QED
  BY <1>1, <1>2, <1>3 DEF Next

\* The hub and its handlers implement the contract: whatever the order of
\* appends, broadcasts, subscriptions, store reads, reconnects and shutdown, a
\* browser reads one ordered log from its bookmark on, each event once per
\* connection, without a gap but for what was lost as it was fanned out.
THEOREM ContractKept == Spec => ImplementsContract
<1>1. Init => Contract!Init /\ \A c \in Clients : Grounded(c)
  BY ContractInit DEF Init, Grounded
<1>2. IInv /\ [Next]_vars /\ (\A c \in Clients : Grounded(c)) => (\A c \in Clients : Grounded(c))'
  BY GroundedStep
<1>3. IInv /\ IInv' /\ [Next]_vars /\ (\A c \in Clients : Grounded(c)) => [Contract!Next]_Contract!vars
  BY ContractNext
<1> QED
  BY <1>1, <1>2, <1>3, InvariantHolds, PTL DEF Spec, ImplementsContract, Contract!Spec

=============================================================================
