----------------------------- MODULE SystemdHooks -----------------------------
(***************************************************************************)
(* The sd_notify hooks (systemd/hooks.go, systemd/notify.go): READY=1 as a *)
(* start hook, STOPPING=1 as a drain hook, the WATCHDOG=1 keepalive that   *)
(* the start hook spawns and the shutdown hook stops.                      *)
(*                                                                         *)
(* One call of New makes one stop channel, so the hooks of a service that  *)
(* is started again share it.  go-systemd is external: a send succeeds,    *)
(* fails, or is skipped outside systemd.                                   *)
(***************************************************************************)
EXTENDS Naturals

CONSTANTS
  Watchdog,       \* the unit has WatchdogSec
  MaxPings        \* bound: watchdog pings counted, and failures

VARIABLES
  socket,     \* $NOTIFY_SOCKET is set: the process runs under systemd
  manager,    \* the last state the manager was told: "none", "ready", "stopping"
  stop,       \* the stop channel is closed
  dogs,       \* keepalive goroutines running
  counters    \* the process-global NotifyCounters

sdVars == <<socket, manager, stop, dogs, counters>>

SdTypeOK ==
  /\ socket \in BOOLEAN
  /\ manager \in {"none", "ready", "stopping"}
  /\ stop \in BOOLEAN
  /\ dogs \in Nat
  /\ counters \in [ready : Nat, stopping : Nat, pings : 0..MaxPings, failures : Nat]

SdInit ==
  /\ socket \in BOOLEAN
  /\ manager = "none"
  /\ stop = FALSE
  /\ dogs = 0
  /\ counters = [ready |-> 0, stopping |-> 0, pings |-> 0, failures |-> 0]

\* notify: a state line reached the manager ...
Notified(kind) ==
  /\ socket
  /\ manager' = kind
  /\ counters' = [counters EXCEPT ![kind] = @ + 1]

\* ... or could not be sent, and the hook fails.
NotifyFails ==
  /\ socket
  /\ counters' = [counters EXCEPT !.failures = @ + 1]
  /\ UNCHANGED <<socket, manager, stop, dogs>>

\* Outside systemd every hook is a no-op.
NotifySkipped == ~socket /\ UNCHANGED sdVars

\* Hooks.Start after a successful READY=1: the keepalive is spawned when the
\* manager asked for one; an unreadable watchdog setting only degrades.
ReadyHook ==
  /\ Notified("ready")
  /\ \/ Watchdog /\ dogs' = dogs + 1
     \/ UNCHANGED dogs
  /\ UNCHANGED <<socket, stop>>

\* Hooks.Drain
StoppingHook ==
  /\ Notified("stopping")
  /\ UNCHANGED <<socket, stop, dogs>>

\* Hooks.Shutdown: stopOnce closes the channel.
StopHook ==
  /\ stop' = TRUE
  /\ UNCHANGED <<socket, manager, dogs, counters>>

\* runWatchdog: a tick sends a ping, or fails and waits for the next one.  When
\* the channel is closed as well, select may still take the tick.
Ping ==
  /\ dogs > 0
  /\ \E n \in {"pings", "failures"} :
       /\ counters[n] < MaxPings
       /\ counters' = [counters EXCEPT ![n] = @ + 1]
  /\ UNCHANGED <<socket, manager, stop, dogs>>

\* runWatchdog returns once the channel is closed.
DogExit ==
  /\ dogs > 0
  /\ stop
  /\ dogs' = dogs - 1
  /\ UNCHANGED <<socket, manager, stop, counters>>

SdBackground == Ping \/ DogExit

=============================================================================
