---------------------------- MODULE ServiceContract ----------------------------
(***************************************************************************)
(* What appkit.Service promises its surroundings (a load balancer, a       *)
(* supervisor, the owner of the channel Start returned), independent of    *)
(* locks, goroutines and hooks: one generation holds the port at a time,   *)
(* readiness goes down before a generation stops accepting, and its        *)
(* outcome is decided once, after it stopped.                              *)
(***************************************************************************)
CONSTANT Serves      \* serve generations

VARIABLES
  phase,      \* "idle", "bound", "serving", "stopped" or "broken"
  draining,   \* generation -> a Shutdown has taken its readiness down
  ready,      \* what /health/ready answers
  outcome     \* generation -> "none", "nil" or "error"

vars == <<phase, draining, ready, outcome>>

HoldsPort(s) == phase[s] \in {"bound", "serving"}

Init ==
  /\ phase = [s \in Serves |-> "idle"]
  /\ draining = [s \in Serves |-> FALSE]
  /\ ready = TRUE
  /\ outcome = [s \in Serves |-> "none"]

Move(s, from, to) == phase[s] \in from /\ phase' = [phase EXCEPT ![s] = to]

\* Only a free port is bound.
Bind(s) ==
  /\ \A t \in Serves : ~HoldsPort(t)
  /\ Move(s, {"idle"}, "bound")
  /\ UNCHANGED <<draining, ready, outcome>>

\* A start that fails, or that a shutdown overtook, ends without serving.
GiveUp(s) ==
  /\ Move(s, {"idle", "bound"}, "stopped")
  /\ UNCHANGED <<draining, ready, outcome>>

Accept(s) ==
  /\ Move(s, {"bound"}, "serving")
  /\ UNCHANGED <<draining, ready, outcome>>

\* Readiness goes down once per generation and never comes up again.
Drain(s) ==
  /\ ~draining[s]
  /\ phase[s] # "idle"
  /\ draining' = [draining EXCEPT ![s] = TRUE]
  /\ ready' = FALSE
  /\ UNCHANGED <<phase, outcome>>

\* A serving generation stops accepting only after its readiness went down...
Stop(s) ==
  /\ draining[s]
  /\ Move(s, {"serving"}, "stopped")
  /\ UNCHANGED <<draining, ready, outcome>>

\* ... or because its serve loop broke.
Break(s) ==
  /\ Move(s, {"serving"}, "broken")
  /\ UNCHANGED <<draining, ready, outcome>>

\* The owner of Start's channel learns the outcome once.
Resolve(s) ==
  /\ outcome[s] = "none"
  /\ \/ /\ phase[s] = "broken"
        /\ outcome' = [outcome EXCEPT ![s] = "error"]
     \/ /\ phase[s] # "serving"
        /\ phase[s] = "bound" => draining[s]
        /\ outcome' = [outcome EXCEPT ![s] = "nil"]
  /\ UNCHANGED <<phase, draining, ready>>

Next ==
  \E s \in Serves :
    Bind(s) \/ GiveUp(s) \/ Accept(s) \/ Drain(s) \/ Stop(s) \/ Break(s) \/ Resolve(s)

Spec == Init /\ [][Next]_vars

=============================================================================
