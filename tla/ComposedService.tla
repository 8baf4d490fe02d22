--------------------------- MODULE ComposedService ---------------------------
(***************************************************************************)
(* A service put together by preset.New (preset/preset.go) or by hand: the *)
(* lifecycle of one appkit.Service whose hook lists carry the health       *)
(* surface, the sd_notify hooks, the realtime hub and the otel provider.   *)
(*                                                                         *)
(* The hook lists are constants: a name stands for the closure that the    *)
(* wiring code appends.  One goroutine starts and stops the service, any   *)
(* number of times; what concurrent callers can do to the core is the      *)
(* subject of ServiceLifecycle.                                            *)
(***************************************************************************)
EXTENDS HealthSurface, Sequences

CONSTANTS
  Owner,         \* the goroutine that starts and stops the service
  StartHooks, DrainHooks, ShutdownHooks,  \* sequences of hook names
  Otel,          \* the OpenTelemetry leg is on
  Realtime,      \* the realtime leg is on
  Watchdog,      \* the unit has WatchdogSec
  MaxStarts,     \* bound: calls of Start
  MaxStreams,    \* bound: SSE connections open at once
  MaxPings       \* bound: watchdog pings

HookNames == {"app", "health", "legs", "systemd"}

ASSUME ComposedAssumption ==
  /\ Owner \in Callers
  /\ {StartHooks, DrainHooks, ShutdownHooks} \subseteq Seq(HookNames)
  /\ {Otel, Realtime, Watchdog} \subseteq BOOLEAN
  /\ {MaxStarts, MaxStreams, MaxPings} \subseteq Nat

VARIABLES
  svc,        \* where the lifecycle is
  idx,        \* runHooks' position in the current list
  failed,     \* a start hook of this Start has failed
  starts,     \* calls of Start so far
  expired,    \* the shutdown context is done
  result,     \* what Shutdown has joined: "ok" or "error"
  provider,   \* the otel provider: "none", "up" or "flushed"
  hub,        \* the realtime hub: "none", "open" or "closed"
  hubDone,    \* hub.Shutdown has returned nil in this legs hook
  streams,    \* SSE connections being served
  socket, manager, stop, dogs, counters                        \* SystemdHooks

Sd == INSTANCE SystemdHooks

lifeVars == <<idx, failed, starts, expired, result>>
legVars  == <<provider, hub, hubDone, streams>>
sdVars   == <<socket, manager, stop, dogs, counters>>
vars == <<svc, lifeVars, legVars, healthVars, sdVars>>

Phases == {"new", "wiring", "bootfailed", "built", "start", "serving",
           "drain", "wait", "await", "shutdown", "stopped"}

TypeOK ==
  /\ svc \in Phases
  /\ idx \in Nat \ {0}
  /\ failed \in BOOLEAN
  /\ starts \in 0..MaxStarts
  /\ expired \in BOOLEAN
  /\ result \in {"ok", "error"}
  /\ provider \in {"none", "up", "flushed"}
  /\ hub \in {"none", "open", "closed"}
  /\ hubDone \in BOOLEAN
  /\ streams \in 0..MaxStreams
  /\ SurfaceTypeOK
  /\ Sd!SdTypeOK

Init ==
  /\ svc = "new"
  /\ idx = 1
  /\ failed = FALSE
  /\ starts = 0
  /\ expired = FALSE
  /\ result = "ok"
  /\ provider = "none"
  /\ hub = "none"
  /\ hubDone = FALSE
  /\ streams = 0
  /\ SurfaceInit
  /\ Sd!SdInit

Goto(from, to) == svc = from /\ svc' = to

-----------------------------------------------------------------------------
(* preset.New *)

\* resolveLegs rejects the environment, or otel.Setup fails: nothing is up yet.
BootRejected ==
  /\ Goto("new", "bootfailed")
  /\ UNCHANGED <<lifeVars, legVars, healthVars, sdVars>>

\* The legs are resolved; the provider exists before the service does.
SetupProvider ==
  /\ Goto("new", "wiring")
  /\ provider' = IF Otel THEN "up" ELSE "none"
  /\ UNCHANGED <<lifeVars, hub, hubDone, streams, healthVars, sdVars>>

\* applySecurity, NewService or health.Mount fails: bootFail flushes.
BootFail ==
  /\ Goto("wiring", "bootfailed")
  /\ provider' = IF provider = "up" THEN "flushed" ELSE provider
  /\ UNCHANGED <<lifeVars, hub, hubDone, streams, healthVars, sdVars>>

\* The surface, the error pages and the hub are mounted.
Built ==
  /\ Goto("wiring", "built")
  /\ hub' = IF Realtime THEN "open" ELSE "none"
  /\ UNCHANGED <<lifeVars, provider, hubDone, streams, healthVars, sdVars>>

-----------------------------------------------------------------------------
(* Hooks, by name *)

\* The hook at the current position of a list is called name.
At(list, name) == idx <= Len(list) /\ list[idx] = name

\* It returned: the start fails or the shutdown joins the error.
Returned(ok) ==
  /\ idx' = idx + 1
  /\ failed' = (failed \/ (svc = "start" /\ ~ok))
  /\ result' = IF svc # "start" /\ ~ok THEN "error" ELSE result
  /\ UNCHANGED <<svc, starts, expired>>

\* A hook of the application, in any of the three lists.
AppHook ==
  /\ \/ svc = "start" /\ At(StartHooks, "app")
     \/ svc = "drain" /\ At(DrainHooks, "app")
     \/ svc = "shutdown" /\ At(ShutdownHooks, "app")
  /\ \E ok \in BOOLEAN : Returned(ok)
  /\ UNCHANGED <<legVars, healthVars, sdVars>>

\* startMounted: Mounted.Start runs to its end; its error fails the start.
MountedStart ==
  /\ svc = "start" /\ At(StartHooks, "health")
  /\ \/ StartClaim(Owner)
     \/ ProbeStart(Owner) \/ ProbeStartFails(Owner)
     \/ DashboardStart(Owner) \/ DashboardStartFails(Owner) \/ StartUndo(Owner)
     \/ StartRejected(Owner)
  /\ IF call'[Owner] = "idle" THEN Returned(outcome'[Owner] = "started")
                               ELSE UNCHANGED <<svc, lifeVars>>
  /\ UNCHANGED <<legVars, sdVars>>

\* Mutant of MountedDrain: the surface is not told.
MountedDrainForgotten ==
  /\ svc = "drain" /\ At(DrainHooks, "health")
  /\ Returned(TRUE)
  /\ UNCHANGED <<legVars, healthVars, sdVars>>

\* drainMounted: Mounted.Drain.
MountedDrain ==
  /\ svc = "drain" /\ At(DrainHooks, "health")
  /\ Drain
  /\ Returned(TRUE)
  /\ UNCHANGED <<legVars, sdVars>>

\* Hooks.Start, Hooks.Drain and Hooks.Shutdown of the systemd module.
SystemdStart ==
  /\ svc = "start" /\ At(StartHooks, "systemd")
  /\ \/ Sd!ReadyHook /\ Returned(TRUE)
     \/ Sd!NotifySkipped /\ Returned(TRUE)
     \/ Sd!NotifyFails /\ Returned(FALSE)
  /\ UNCHANGED <<legVars, healthVars>>

SystemdDrain ==
  /\ svc = "drain" /\ At(DrainHooks, "systemd")
  /\ \/ Sd!StoppingHook /\ Returned(TRUE)
     \/ Sd!NotifySkipped /\ Returned(TRUE)
     \/ Sd!NotifyFails /\ Returned(FALSE)
  /\ UNCHANGED <<legVars, healthVars>>

\* Mutant of SystemdShutdown: the keepalive is never stopped.
SystemdShutdownForgotten ==
  /\ svc = "shutdown" /\ At(ShutdownHooks, "systemd")
  /\ Returned(TRUE)
  /\ UNCHANGED <<legVars, healthVars, sdVars>>

SystemdShutdown ==
  /\ svc = "shutdown" /\ At(ShutdownHooks, "systemd")
  /\ Sd!StopHook
  /\ Returned(TRUE)
  /\ UNCHANGED <<legVars, healthVars>>

\* shutdownLegs, first the hub: it drains and closes, or the context ends it
\* with an error and the closure returns early.
HubShutdown ==
  /\ svc = "shutdown" /\ At(ShutdownHooks, "legs")
  /\ ~hubDone
  /\ \/ /\ hub' = IF hub = "none" THEN "none" ELSE "closed"
        /\ hubDone' = TRUE
        /\ UNCHANGED <<svc, lifeVars>>
     \/ /\ hub # "none" /\ streams > 0 /\ expired
        /\ Returned(FALSE)
        /\ UNCHANGED <<hub, hubDone>>
  /\ UNCHANGED <<provider, streams, healthVars, sdVars>>

\* Mutant of ProviderShutdown: the flush does not wait for the hub.
ProviderShutdownFirst ==
  /\ svc = "shutdown" /\ At(ShutdownHooks, "legs")
  /\ provider' = IF provider = "up" THEN "flushed" ELSE provider
  /\ Returned(TRUE)
  /\ UNCHANGED <<hub, hubDone, streams, healthVars, sdVars>>

\* ... then the provider, whose flush may fail as well.
ProviderShutdown ==
  /\ svc = "shutdown" /\ At(ShutdownHooks, "legs")
  /\ hubDone
  /\ hubDone' = FALSE
  /\ provider' = IF provider = "up" THEN "flushed" ELSE provider
  /\ Returned(TRUE) \/ (provider # "none" /\ Returned(FALSE))
  /\ UNCHANGED <<hub, streams, healthVars, sdVars>>

Hook ==
  \/ AppHook \/ MountedStart \/ MountedDrain
  \/ SystemdStart \/ SystemdDrain \/ SystemdShutdown
  \/ HubShutdown \/ ProviderShutdown

-----------------------------------------------------------------------------
(* The core lifecycle around the hooks *)

\* Start: the listener is bound, the start hooks begin.
Bind ==
  /\ Goto("built", "start") \/ Goto("stopped", "start")
  /\ starts < MaxStarts
  /\ starts' = starts + 1
  /\ idx' = 1
  /\ failed' = FALSE
  /\ UNCHANGED <<expired, result, legVars, healthVars, sdVars>>

\* A failed hook closes the listener again; otherwise the server accepts.
StartDone ==
  /\ idx > Len(StartHooks)
  /\ Goto("start", IF failed THEN "built" ELSE "serving")
  /\ UNCHANGED <<lifeVars, legVars, healthVars, sdVars>>

\* Shutdown: readiness is flipped and the drain hooks begin.
Shutdown ==
  /\ Goto("serving", "drain")
  /\ idx' = 1
  /\ expired' = FALSE
  /\ result' = "ok"
  /\ UNCHANGED <<failed, starts, legVars, healthVars, sdVars>>

DrainDone ==
  /\ idx > Len(DrainHooks)
  /\ Goto("drain", "wait")
  /\ UNCHANGED <<lifeVars, legVars, healthVars, sdVars>>

\* The drain wait is over: the server stops accepting ...
Release ==
  /\ Goto("wait", "await")
  /\ UNCHANGED <<lifeVars, legVars, healthVars, sdVars>>

\* Mutant of ReleaseDone: the deadline is not consulted.
ReleaseDeadlineIgnored ==
  /\ Goto("await", "shutdown")
  /\ streams = 0
  /\ idx' = 1
  /\ UNCHANGED <<failed, starts, expired, result, legVars, healthVars, sdVars>>

\* ... and waits for its connections, or for the deadline.
ReleaseDone ==
  /\ Goto("await", "shutdown")
  /\ \/ streams = 0 /\ UNCHANGED result
     \/ streams > 0 /\ expired /\ result' = "error"
  /\ idx' = 1
  /\ UNCHANGED <<failed, starts, expired, legVars, healthVars, sdVars>>

ShutdownDone ==
  /\ idx > Len(ShutdownHooks)
  /\ Goto("shutdown", "stopped")
  /\ UNCHANGED <<lifeVars, legVars, healthVars, sdVars>>

Expire ==
  /\ svc \in {"drain", "wait", "await", "shutdown"}
  /\ ~expired
  /\ expired' = TRUE
  /\ UNCHANGED <<svc, idx, failed, starts, result, legVars, healthVars, sdVars>>

-----------------------------------------------------------------------------
(* Traffic and background goroutines *)

\* A browser opens the event stream while the server accepts.
OpenStream ==
  /\ svc \in {"serving", "drain", "wait"}
  /\ hub = "open"
  /\ streams < MaxStreams
  /\ streams' = streams + 1
  /\ UNCHANGED <<svc, lifeVars, provider, hub, hubDone, healthVars, sdVars>>

\* A stream ends: the browser leaves, or the hub closed its channel.
CloseStream ==
  /\ streams > 0
  /\ streams' = streams - 1
  /\ UNCHANGED <<svc, lifeVars, provider, hub, hubDone, healthVars, sdVars>>

Background ==
  /\ \/ Refresh /\ UNCHANGED sdVars
     \/ Sd!SdBackground /\ UNCHANGED healthVars
  /\ UNCHANGED <<svc, lifeVars, legVars>>

Boot == BootRejected \/ SetupProvider \/ BootFail \/ Built

Lifecycle ==
  StartDone \/ DrainDone \/ Release \/ ReleaseDone \/ ShutdownDone

Next ==
  \/ Boot \/ Bind \/ Shutdown \/ Hook \/ Lifecycle \/ Expire
  \/ OpenStream \/ CloseStream \/ Background

Spec == Init /\ [][Next]_vars

\* The lifecycle goroutine runs, hooks return, the deadline passes and a
\* keepalive goroutine is scheduled.  A browser may hold its stream for ever.
Fairness ==
  /\ WF_vars(Hook \/ Lifecycle)
  /\ WF_vars(Expire)
  /\ WF_vars(Sd!DogExit /\ UNCHANGED <<svc, lifeVars, legVars, healthVars>>)

FairSpec == Spec /\ Fairness

-----------------------------------------------------------------------------
(* Properties *)

\* The manager learns of the shutdown before a connection is released, or
\* Shutdown reports the failure; and every readiness surface answers 503 from
\* the end of the drain hooks on.
DrainInLockstep ==
  svc \in {"wait", "await", "shutdown", "stopped"} =>
    /\ socket => manager = "stopping" \/ result = "error"
    /\ latch /\ ~Ready

\* Spans are flushed last: the hub has been closed before the provider is shut
\* down, and a provider that is down never belongs to a serving first run.
FlushedLast ==
  provider = "flushed" =>
    /\ hub # "open"
    /\ svc \in {"serving", "drain", "wait", "await"} => starts > 1

\* Shutdown comes to an end although a browser holds its stream open.
StopCompletes == svc = "drain" ~> svc = "stopped"

\* After the shutdown hooks no keepalive goroutine is left.
KeepaliveStops == svc = "stopped" ~> (dogs = 0 \/ svc # "stopped")

(* Statements of the documentation that the code does not keep. *)

\* systemd/hooks.go: "the manager learns the service is up only once it can
\* actually take traffic": a Start that failed has not announced READY=1.
ReadyMeansServing == svc = "built" => manager # "ready"

\* systemd/hooks.go: the keepalive "runs from READY=1 until Shutdown fires".
KeepaliveRuns == svc = "serving" /\ dogs > 0 => ~stop

\* preset.go: shutdownLegs "tears the legs down [...] then the otel provider
\* (flushes spans last)": after a shutdown the spans are flushed.
SpansFlushed == svc = "stopped" => provider # "up"

\* FEATURES.md: "restart-after-full-shutdown now serves again": once the
\* shutdown hooks have run (the last of them closed the stop channel), the
\* start hooks of the preset do not themselves reject the next Start.
RestartAccepted == stop => outcome[Owner] # "rejected"

=============================================================================
