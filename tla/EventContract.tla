----------------------------- MODULE EventContract -----------------------------
(***************************************************************************)
(* What cqrs.EventService promises the program that owns it, independent   *)
(* of engines, middleware, polls and racing calls: it comes up whole or    *)
(* not at all, it stores what commands append until it is closed, it is    *)
(* closed once, and not before the commands it found running when its      *)
(* shutdown began are over, unless the time for that ran out.              *)
(***************************************************************************)
CONSTANT Commands

VARIABLES
  phase,     \* "new", "failed", "open", "draining" or "closed"
  held,      \* a database handle of the service's own is open
  command,   \* command -> "idle", "running" or "over"
  fate,      \* command -> "none", "stored" or "refused": what its event met
  awaited,   \* the commands that were running when the shutdown began
  excused    \* the shutdown's time ran out while a command was running

vars == <<phase, held, command, fate, awaited, excused>>

Init ==
  /\ phase = "new"
  /\ held = FALSE
  /\ command = [c \in Commands |-> "idle"]
  /\ fate = [c \in Commands |-> "none"]
  /\ awaited = {}
  /\ excused = FALSE

At(from, to) == phase = from /\ phase' = to

\* Construction: the handle is opened, and either the service comes up with it
\* or nothing of it is left.
OpenHandle ==
  /\ phase = "new" /\ ~held
  /\ held' = TRUE
  /\ UNCHANGED <<phase, command, fate, awaited, excused>>

ComeUp ==
  /\ At("new", "open")
  /\ UNCHANGED <<held, command, fate, awaited, excused>>

GiveUp ==
  /\ At("new", "failed")
  /\ held' = FALSE
  /\ UNCHANGED <<command, fate, awaited, excused>>

\* Commands may be dispatched to whatever was built, also late.
Begin(c) ==
  /\ phase \notin {"new", "failed"}
  /\ command[c] = "idle"
  /\ command' = [command EXCEPT ![c] = "running"]
  /\ UNCHANGED <<phase, held, fate, awaited, excused>>

\* An event is stored by an open service only, and refused by a closed one only.
Append(c) ==
  /\ command[c] = "running" /\ fate[c] = "none"
  /\ fate' = [fate EXCEPT ![c] = IF phase = "closed" THEN "refused" ELSE "stored"]
  /\ UNCHANGED <<phase, held, command, awaited, excused>>

End(c) ==
  /\ command[c] = "running"
  /\ command' = [command EXCEPT ![c] = "over"]
  /\ UNCHANGED <<phase, held, fate, awaited, excused>>

Shutdown ==
  /\ At("open", "draining")
  /\ awaited' = {c \in Commands : command[c] = "running"}
  /\ UNCHANGED <<held, command, fate, excused>>

RunOut ==
  /\ phase = "draining"
  /\ \E c \in Commands : command[c] = "running"
  /\ excused' = TRUE
  /\ UNCHANGED <<phase, held, command, fate, awaited>>

\* Nobody who was waited for is cut off, and the handle goes with the rest.
Close ==
  /\ At("draining", "closed")
  /\ excused \/ \A c \in awaited : command[c] = "over"
  /\ held' = FALSE
  /\ UNCHANGED <<command, fate, awaited, excused>>

Next ==
  \/ OpenHandle \/ ComeUp \/ GiveUp
  \/ \E c \in Commands : Begin(c) \/ Append(c) \/ End(c)
  \/ Shutdown \/ RunOut \/ Close

Spec == Init /\ [][Next]_vars

=============================================================================
