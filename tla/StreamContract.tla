---------------------------- MODULE StreamContract ----------------------------
(***************************************************************************)
(* What an event stream promises a browser, independent of channels, of    *)
(* store reads and of the handler that runs between the two: a log that is *)
(* read through a bookmark.  On one connection an event is given once, and *)
(* not before every earlier one the connection owes has been given or      *)
(* lost; an event is lost, if at all, at the moment it is fanned out.      *)
(***************************************************************************)
EXTENDS Naturals

CONSTANTS
  Clients,
  Match,     \* the events the endpoint lets through
  Resumes    \* a connection takes up at the bookmark of the one before it

VARIABLES
  published, \* events 1..published exist
  fanned,    \* events 1..fanned were sent to whoever was connected
  link,      \* client -> "off" or "on"
  bookmark,  \* client -> the event it was given last, 0 for none
  base,      \* client -> its connection owes it the events above
  given,     \* client -> the events it was given on this connection
  lost       \* client -> the events it lost on this connection

vars == <<published, fanned, link, bookmark, base, given, lost>>

Init ==
  /\ published = 0
  /\ fanned = 0
  /\ link = [c \in Clients |-> "off"]
  /\ bookmark = [c \in Clients |-> 0]
  /\ base = [c \in Clients |-> 0]
  /\ given = [c \in Clients |-> {}]
  /\ lost = [c \in Clients |-> {}]

Publish ==
  /\ published' = published + 1
  /\ UNCHANGED <<fanned, link, bookmark, base, given, lost>>

\* The next event reaches whoever is connected, or some of them lose it.
FanOut ==
  /\ fanned < published
  /\ fanned' = fanned + 1
  /\ \E S \in SUBSET {c \in Clients : link[c] = "on"} :
       /\ S # {} => fanned' \in Match
       /\ lost' = [c \in Clients |-> IF c \in S THEN lost[c] \cup {fanned'} ELSE lost[c]]
  /\ UNCHANGED <<published, link, bookmark, base, given>>

\* A connection takes up where the last one left off, or with the next event.
Connect(c) ==
  /\ link[c] = "off"
  /\ link' = [link EXCEPT ![c] = "on"]
  /\ base' = [base EXCEPT ![c] = IF Resumes /\ bookmark[c] > 0 THEN bookmark[c] ELSE fanned]
  /\ UNCHANGED <<published, fanned, bookmark, given, lost>>

\* The bookmark moves forward, unless the event is one from before this
\* connection that is only fanned out now.
Deliver(c, e) ==
  /\ link[c] = "on"
  /\ e <= published /\ e \notin given[c]
  /\ e > bookmark[c] \/ e <= base[c]
  /\ \A d \in Match : base[c] < d /\ d < e => d \in given[c] \cup lost[c]
  /\ bookmark' = [bookmark EXCEPT ![c] = e]
  /\ given' = [given EXCEPT ![c] = @ \cup {e}]
  /\ UNCHANGED <<published, fanned, link, base, lost>>

Disconnect(c) ==
  /\ link[c] = "on"
  /\ link' = [link EXCEPT ![c] = "off"]
  /\ base' = [base EXCEPT ![c] = 0]
  /\ given' = [given EXCEPT ![c] = {}]
  /\ lost' = [lost EXCEPT ![c] = {}]
  /\ UNCHANGED <<published, fanned, bookmark>>

Next ==
  \/ Publish \/ FanOut
  \/ \E c \in Clients :
       Connect(c) \/ (\E e \in Match : Deliver(c, e)) \/ Disconnect(c)

Spec == Init /\ [][Next]_vars

=============================================================================
