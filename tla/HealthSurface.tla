---------------------------- MODULE HealthSurface ----------------------------
(***************************************************************************)
(* health.Mounted (health/mount.go): the lifecycle handle of the health    *)
(* surface.  The started flag is written under m.mu; the probe and the     *)
(* dashboard are started and stopped outside of it, so a call of Start or  *)
(* Shutdown is several steps.                                              *)
(*                                                                         *)
(* go-health's Probe and the dashboard are external and modelled from      *)
(* their use: Probe.Start validates the configuration and arms the refresh *)
(* loop (a no-op when it is armed), Probe.Shutdown stops the loop, and the *)
(* shutting-down mark is never cleared.                                    *)
(***************************************************************************)
EXTENDS Naturals, FiniteSets

CONSTANTS
  Callers,     \* goroutines that call Start and Shutdown
  MaxActive,   \* bound: calls of Start and Shutdown under way at once
  MaxCalls,    \* bound: calls each caller makes
  Dashboard    \* mounted WithDashboard

ASSUME HealthAssumption ==
  /\ MaxActive \in Nat
  /\ MaxCalls \in Nat
  /\ Dashboard \in BOOLEAN

VARIABLES
  started,   \* m.started
  latch,     \* the probe is marked as shutting down
  loop,      \* the probe's refresh loop runs
  pusher,    \* the dashboard's SSE pusher runs
  status,    \* roll-up status of the probe's last batch: "pass" or "fail"
  call,      \* caller -> where its call is
  calls,     \* caller -> calls made
  outcome    \* caller -> how its last call ended, and which one it was

surfaceVars == <<started, latch, loop, pusher, status>>
callVars    == <<call, calls, outcome>>
healthVars  == <<surfaceVars, callVars>>

StartSteps == {"probe", "dash", "undo"}
StopSteps  == {"mark", "stop", "clear", "close"}

SurfaceTypeOK ==
  /\ started \in BOOLEAN
  /\ latch \in BOOLEAN
  /\ loop \in BOOLEAN
  /\ pusher \in BOOLEAN
  /\ status \in {"pass", "fail"}
  /\ call \in [Callers -> {"idle"} \cup StartSteps \cup StopSteps]
  /\ calls \in [Callers -> 0..MaxCalls]
  /\ outcome \in [Callers -> {"none", "started", "rejected", "failed", "stopped"}]

SurfaceInit ==
  /\ started = FALSE
  /\ latch = FALSE
  /\ loop = FALSE
  /\ pusher = FALSE
  /\ status = "pass"
  /\ call = [c \in Callers |-> "idle"]
  /\ calls = [c \in Callers |-> 0]
  /\ outcome = [c \in Callers |-> "none"]

Active == {c \in Callers : call[c] # "idle"}

\* A new call of caller c begins at a step.
Begin(c, at) ==
  /\ call[c] = "idle"
  /\ calls[c] < MaxCalls
  /\ Cardinality(Active) < MaxActive
  /\ call' = [call EXCEPT ![c] = at]
  /\ calls' = [calls EXCEPT ![c] = @ + 1]

Step(c, at, to) ==
  /\ call[c] = at
  /\ call' = [call EXCEPT ![c] = to]
  /\ UNCHANGED <<calls, outcome>>

Return(c, at, how) ==
  /\ call[c] = at
  /\ call' = [call EXCEPT ![c] = "idle"]
  /\ outcome' = [outcome EXCEPT ![c] = how]
  /\ UNCHANGED calls

-----------------------------------------------------------------------------
(* Start *)

\* Under m.mu: the flag is claimed ...
StartClaim(c) ==
  /\ ~started
  /\ Begin(c, "probe")
  /\ started' = TRUE
  /\ UNCHANGED <<latch, loop, pusher, status, outcome>>

\* ... or the call is rejected with health.already_started.
StartRejected(c) ==
  /\ started
  /\ call[c] = "idle"
  /\ calls[c] < MaxCalls
  /\ calls' = [calls EXCEPT ![c] = @ + 1]
  /\ outcome' = [outcome EXCEPT ![c] = "rejected"]
  /\ UNCHANGED <<surfaceVars, call>>

\* probe.Start: a first batch is run and the refresh loop is armed.
ProbeStart(c) ==
  /\ loop' = TRUE
  /\ \E s \in {"pass", "fail"} : status' = s
  /\ IF Dashboard THEN Step(c, "probe", "dash") ELSE Return(c, "probe", "started")
  /\ UNCHANGED <<started, latch, pusher>>

\* probe.Start rejects its configuration.
ProbeStartFails(c) ==
  /\ Step(c, "probe", "undo")
  /\ UNCHANGED surfaceVars

\* dashboard.Start: the pusher goroutine runs.
DashboardStart(c) ==
  /\ Return(c, "dash", "started")
  /\ pusher' = TRUE
  /\ UNCHANGED <<started, latch, loop, status>>

DashboardStartFails(c) ==
  /\ Step(c, "dash", "undo")
  /\ UNCHANGED surfaceVars

\* Mutant of StartUndo: a failed Start leaves the flag set.
StartUndoForgotten(c) ==
  /\ Return(c, "undo", "failed")
  /\ UNCHANGED surfaceVars

\* setStarted(false): a failed Start leaves the surface restartable.
StartUndo(c) ==
  /\ Return(c, "undo", "failed")
  /\ started' = FALSE
  /\ UNCHANGED <<latch, loop, pusher, status>>

-----------------------------------------------------------------------------
(* Drain and Shutdown *)

\* Drain: probe.MarkShuttingDown, by any goroutine at any time.
Drain ==
  /\ latch' = TRUE
  /\ UNCHANGED <<started, loop, pusher, status, callVars>>

ShutdownBegin(c) ==
  /\ Begin(c, "mark")
  /\ UNCHANGED <<surfaceVars, outcome>>

ShutdownMark(c) ==
  /\ Step(c, "mark", "stop")
  /\ latch' = TRUE
  /\ UNCHANGED <<started, loop, pusher, status>>

\* Mutant of ProbeShutdown: the probe is marked but its loop is not stopped.
ProbeLeftRunning(c) ==
  /\ Step(c, "stop", "clear")
  /\ UNCHANGED surfaceVars

ProbeShutdown(c) ==
  /\ Step(c, "stop", "clear")
  /\ loop' = FALSE
  /\ UNCHANGED <<started, latch, pusher, status>>

ShutdownClear(c) ==
  /\ IF Dashboard THEN Step(c, "clear", "close") ELSE Return(c, "clear", "stopped")
  /\ started' = FALSE
  /\ UNCHANGED <<latch, loop, pusher, status>>

DashboardShutdown(c) ==
  /\ Return(c, "close", "stopped")
  /\ pusher' = FALSE
  /\ UNCHANGED <<started, latch, loop, status>>

-----------------------------------------------------------------------------
\* The refresh loop runs a batch of checks and caches the roll-up.
Refresh ==
  /\ loop
  /\ \E s \in {"pass", "fail"} : status' = s
  /\ UNCHANGED <<started, latch, loop, pusher, callVars>>

\* Mounted.Ready: the cached view allows traffic.
Ready == ~latch /\ status # "fail"

CallStep(c) ==
  \/ ProbeStart(c) \/ ProbeStartFails(c)
  \/ DashboardStart(c) \/ DashboardStartFails(c) \/ StartUndo(c)
  \/ ShutdownMark(c) \/ ProbeShutdown(c) \/ ShutdownClear(c) \/ DashboardShutdown(c)

SurfaceNext ==
  \/ Drain \/ Refresh
  \/ \E c \in Callers :
       StartClaim(c) \/ StartRejected(c) \/ ShutdownBegin(c) \/ CallStep(c)

SurfaceSpec == SurfaceInit /\ [][SurfaceNext]_healthVars

-----------------------------------------------------------------------------
(* Properties *)

\* One call at a time (MaxActive = 1), as the hooks of a service drive it: the
\* flag tells the truth whenever no call is under way.  A surface that
\* rejects Start as already started refreshes and pushes.  A failed Start, of
\* the probe or of the dashboard, leaves it restartable.
FlagTruthful ==
  Active = {} /\ started => loop /\ (Dashboard => pusher)

\* Mounted.Shutdown "stops the SSE pusher [...] and stops the background
\* refresh loop": with no call under way a surface that is not started pushes
\* nothing and refreshes nothing, unless a Start failed at the dashboard.
ShutdownStops ==
  Active = {} /\ ~started /\ (\A c \in Callers : outcome[c] \in {"none", "stopped", "started"}) =>
    ~loop /\ ~pusher

\* What the flag is still worth when calls overlap, where FlagTruthful fails (a
\* Start overtakes the end of a Shutdown, which then stops the new pusher): a
\* surface that is marked started refreshes, or a call is under way that is
\* about to arm the loop, to take the claim back or to clear the flag.
LoopTruthful ==
  started => loop \/ \E c \in Callers : call[c] \in {"probe", "undo", "clear"}

=============================================================================
