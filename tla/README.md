# A verification development for go-appkit

go-appkit is a family of Go modules for HTTP services: a core `Service` with a
graceful lifecycle, and modules around it (health, metrics, realtime, systemd,
cqrs, otel, security, config, ...) that a service composes through lifecycle
hooks. This directory holds TLA+ models of the parts whose correctness depends
on the order of events, TLC configurations that check them on small instances,
and TLAPS proofs, for every instance, of the safety properties of each component
and of three refinements: the lifecycle, the event stream and the event service
each implement an abstract contract. Sections: inventory, modules, runs,
fairness, proofs, what is not modelled, plan.

## 1. Inventory

| Component | Source | State | Operations | Hard behaviour | Correct means |
|---|---|---|---|---|---|
| Service lifecycle | `service.go` | `ln`/`serve`, `readyProbe`, per-`Start` server, `graceful` and `errCh` channels | `Start`, `Run`, `Shutdown`, `Close`, three hook phases, watcher goroutine | concurrent callers, an unlocked read, failing hooks, deadlines, restart | hooks in order and once per generation, no double close, no leaked listener, one truthful outcome, shutdown ends |
| Realtime | `realtime/hub.go`, `realtime/handler.go` | subscribers with bounded buffers, replayed IDs, the browser's Last-Event-ID | subscribe, replay, forward, broadcast, hub shutdown/close | store snapshot against live events, reconnects, dropped events | no gap, no duplicate, order, no leaked subscription |
| Metrics | `metrics.go` | in-flight gauge, series map, per-request status recorder | middleware, `WriteHeader`, scrape, basic auth | concurrent requests, panics, double `WriteHeader`, implicit 200 of a write or flush | each request one sample of its series, monotonic scrapes |
| Health surface | `health/mount.go` | `started`, drain latch, refresh loop, SSE pusher | `Start`, `Drain`, `Shutdown`, `Ready` | partial failure, work outside the lock | the flag tells the truth, shutdown stops both goroutines |
| systemd | `systemd/hooks.go`, `notify.go` | stop channel, keepalive goroutines, counters | READY, STOPPING, WATCHDOG, stop | restart, lost notifications | the manager's view follows the service |
| Preset | `preset/*.go` | otel provider, hub, mounted surface, hook lists | boot, boot failure, leg shutdown | one leg failing in front of another | nothing leaks on a failed boot, spans flushed last, drain in lockstep |
| Event service | `cqrs/eventservice.go`, `commands.go`, `domain.go` | auxiliary DB, system, `closed`, pending count, command chain, workers and their positions | construction, command dispatch, guarded query, projection reset, `Drain`, `Shutdown` | half-built resources, concurrent `Shutdown`, hung commands, a lag that is stale when used | no leak, closed once and always, clean drain loses no command, a guarded answer was fresh when checked |
| Signal helper | `shutdown.go` | context | `WaitForSignal` | cancelled parent context | the callback runs and ends |
| Flight recorder and its health adapter | `flightrecorder/`, `flightrecorderhealth/` | once-latch, capture goroutines, `lastCapture` under `mu` | request middleware, manual snapshot, download, health batch | captures outlive their callers, concurrent batches, a sink that hangs | cooldown respected, nobody waits, no failing batch dropped for nothing, honest answers |
| Config loader | `config/` | target struct, error list | collect, defaults, file, environment, values, required, validate | map order, aliases of a key, one layer failing under another | the strongest layer wins, every problem reported with the right blame |
| Boot | `preset/preset.go`, `preset/env.go`, `preset/security.go`, `config.go`, `otel/setup.go`, `otel/otlp.go` | resolved legs, exporters, provider, chain, mounts | `New`, `Setup`, `NewService` | a failure after resources exist, three sources of one decision, sentinel values | code wins over environment, nothing orphaned |
| Request path | `middleware.go`, `otel/middleware.go`, `security/`, `errorpages/`, `httpx/` | position in the chain, response so far | each layer, mux, adapters | order of layers, double writes, bodies at a limit | entitled requests only, one faithful answer, always a span |
| Docs endpoint, testkit | `docs/`, `testkit/` | none | serve an embedded file, test helpers | - | unit tests |

Components interact through `ServiceConfig`'s hook lists (called synchronously
by `runHooks`), through the mux (handlers run on server goroutines) and through
shared handles (`Mounted`, `Hub`, `Provider`). `PROJECT.json` lists every
component, the source lines each definition stands for, and the hazards.

## 2. Modules

| Module | Models | How |
|---|---|---|
| `ServiceLifecycle` | `service.go` | Each call of `Start` is a *generation*. `current` is `s.ln`/`s.serve`, which the code always writes together under `s.mu`. `pc[s]` is the position of a `Start` or `Run` call, `spc[c]` of a `Shutdown` call, `watcher[s]` of the goroutine that resolves `errCh`. Code under the mutex is one action; the unlocked read `graceful := s.serve.graceful` is one of its own (`ReadGraceful`), in which a nil `s.serve` panics and a newer one is the wrong channel. `httputil.Server` is external. |
| `ServiceContract` | what a service promises | phases idle, bound, serving, stopped, broken; readiness; the outcome. `ImplementsContract` in `ServiceLifecycle` is the refinement. |
| `ServiceLifecycleProofs` | - | theorems about `ServiceLifecycle`, the refinement among them (section 5) |
| `RealtimeStream` | `realtime/` | a client is a browser with its Last-Event-ID; its connection goes opened, subscribed, replay, live. A replay is the set of stored events it still has to write, taken oldest first. The store and the broadcaster are external; a full buffer drops. |
| `StreamContract` | what an event stream promises a browser | a log read through a bookmark: publish, fan out (to whoever is connected, some of whom may lose the event), connect, deliver, disconnect. It knows no channel, no store read and no replay set. `ImplementsContract` in `RealtimeStream` is the refinement. |
| `RealtimeStreamProofs` | - | theorems about `RealtimeStream`, the refinement among them |
| `MetricsCollector` | `metrics.go` | a request enters, writes headers, returns or panics, and is accounted for under the lock. A duration is the number of the first bucket that covers it, so `Inf` is beyond the last bound. `status` is what the recorder keeps, `wire` what net/http sent; only `WriteHeader` changes the first, `Write` (which stands for a `Write` or `Flush` that commits the response) and `Return` change only the second. `stray` remembers the code of a first `WriteHeader` that could not set the status of the response. |
| `MetricsCollectorProofs` | - | theorems about it |
| `HealthSurface` | `health/mount.go` | the flag under `m.mu`, probe and dashboard calls as separate steps |
| `SystemdHooks` | `systemd/` | the three hooks and the keepalive loop, used by |
| `ComposedService` | `preset/` over the core | hook lists are constants, a name per closure; extends `HealthSurface` and shares its state with an instance of `SystemdHooks`. One goroutine, `Owner`, drives the lifecycle and is the caller of the health surface: concurrency of callers is `ServiceLifecycle`'s subject. |
| `ComposedServiceProofs` | - | theorems about it and about `HealthSurface` |
| `EventService` | `cqrs/`, `shutdown.go` | all construction paths from the resolved deployment on; the command chain `mergeDomain` builds, with the tracker outermost; projections with their lag; the two steps of `DispatchQueryChecked`; the two halves of `GracefulClose`; a `Shutdown` call may sit behind `WaitForSignal`. The projection host and the engines are external. |
| `EventContract` | what an event service promises its owner | phases new, failed, open, draining, closed; a handle held; commands running and over, their events stored or refused; the commands the shutdown found and the excuse for cutting them off. It knows no chain, counter, poll or racing call. `ImplementsContract` in `EventService` is the refinement. |
| `EventServiceProofs` | - | theorems about `EventService`, the refinement among them |
| `ConfigLoader` | `config/` | one run of `Load`, a layer or an entry per step; a struct type is a sequence of nodes with their parents, a raw value a token; the order of map entries is free. The reference that the layered assignment is compared with stands in the properties section: `Offered` is what each layer offers a field, `Sources` the choices that map order leaves where a file spells one key twice, `LeftBy` the values that layers in order of strength leave behind. |
| `ConfigLoaderProofs` | - | theorems about it |
| `FlightRecorder` | `flightrecorder/`, `flightrecorderhealth/`, `otel/frmetrics.go` | requests, manual calls and health batches around one external recorder; a capture is a goroutine of its own with a begin (where the latch is taken) and an end, where the trace is written or the sink fails |
| `FlightRecorderProofs` | - | theorems about it |
| `PresetBoot` | `preset/`, `config.go`, `middleware.go`, `otel/setup.go` | `New` as a sequence of steps each of which may fail; the input of a boot is one record of code, environment and options |
| `RequestPath` | `otel/middleware.go`, `security/`, `errorpages/`, `httpx/` | a request is what the layers look at; `todo` are the layers it still has to pass. A function writes, flushes (through `http.ResponseController`, past the recording writer) or does nothing before it returns or panics. `http.ServeMux`, nosurf, the limiter's buckets and the plain `httputil` layers are external. |
| `Assembly` | `PresetBoot` and `RequestPath` together | the layers a boot built are the ones requests meet; states the properties of both |
| `AssemblyProofs` | - | theorems about it |
| `MC*` | - | instances and symmetry for TLC |

Definitions named "Mutant of X" are plausible bugs of `X`. They take no part in
any specification; `PROJECT.json` pairs each property with the one that breaks
it, which shows that the property depends on the code.

## 3. Runs

All runs but `config_loader` use `CHECK_DEADLOCK FALSE`: a service may be
stopped for good, and the bounds end every behaviour. A `Load` must return, so
`config_loader` checks that nothing but the returned state stands still.

Where the variables of a module have interesting types it has a `TypeOK`, which
is proved as a part of the inductive invariant. The configurations spend their
properties on behaviour.

| Run | Bounds and why they are enough | Shows |
|---|---|---|
| `service` | one `Run`, one `Start`, one more `Shutdown` caller, one hook per phase, one request per server, a fixed port; 1.1 million states. Two generations and two closers are the least with which a restart, a second owner and an overtaken `Start` happen; the theorems lift the bounds | safety of the lifecycle, no watcher stranded, implementation of the contract |
| `service_live` | one `Run`, one `Shutdown`, two hooks, a request that may never end, a port the kernel picks (`":0"`; with one `Start` nothing else changes). `OutcomeDelivered` belongs to `service`: with a second `Start` a watcher may follow another generation than its own, and a second `Start` beside the `Run` and the other `Shutdown` caller makes the instance too large for a liveness check. That a watcher with a message waiting sends it is fairness; that a `Shutdown` that took a generation returns is `CallsReturn` | termination |
| `realtime` | one browser with three connections, five events of which one is filtered out, buffers of two (so that drops happen); browsers share nothing but the hub, whose drain waits for every subscriber, and the instance with two browsers, four events, two connections each and buffers of one passes too, in longer than a routine run should take | per-connection delivery, order, liveness, implementation of the contract |
| `metrics` | three requests, three codes of which one is a 1xx, two bounds, up to two `WriteHeader` calls per request with a write or flush before, between or behind them, symmetric requests; 1.2 million states | accounting |
| `health_surface` | two callers with three calls each, one call at a time | flag and goroutines |
| `preset` | two runs of the service, with and without `$NOTIFY_SOCKET`, one stream, one ping and failure | the composed drain |
| `event_service` | two commands (one is in flight, one enters late), a plain `Shutdown` and one behind `WaitForSignal`, one worker with a backlog of one and one guarded query, five configurations that take every construction path; 0.85 million states | construction, drain, guarded reads, shutdown, implementation of the contract |
| `config_loader` | struct types that embed, nest, alias, hide and mistype fields, files absent, empty, unreadable, of a wrong format or with a key spelled twice, also when one of the two spellings does not parse, environments and value maps that set, unset, or break each field; all combinations | the layers against their reference |
| `flight_recorder` | one request, one manual call, two batches (the least that can race for the cooldown), a clock of two ticks against cooldowns of 0, 1 and 2, directory and writer sinks, one that hangs, writes that fail, three triggers; 0.2 million states | cooldown, honesty, nobody waits, no failing batch dropped for nothing |
| `assembly` | the grammar of the three legs in full (code x environment x pattern), exporters per signal, profiles with their origins and limits, every timeout with default, sentinels and an invalid value; against services of each shape, credentials in all combinations, bodies of 0 to 4 half limits, functions that write, flush or do neither, and every kind of target; 0.33 million states | boot and request path |

Two runs are expected to fail: each records a disagreement between code and
prose that `PROJECT.json` lists as a finding.

| Run | Property | Shortest scenario |
|---|---|---|
| `preset_spans` | `SpansFlushed` | a stream stays open, the deadline passes, `hub.Shutdown` fails, the provider is not flushed |
| `assembly_strict` | `StrictMeansOriginCheck` | `APPKIT_SECURITY=strict` with a nil `Config.Security`: `New` hands nil to `applySecurity`, which falls back to the standard profile |

More statements of the prose that TLC refutes are kept as definitions under
"Statements of the documentation that the code does not keep"; put one of them
as the INVARIANT (or PROPERTY) of the configuration named here, in place of its
own.

| Definition | Configuration | Scenario |
|---|---|---|
| `HooksOncePerService` | `MCServiceHooksOnce.cfg` | `service.go:345` "Hooks run at most once per service"; start, shut down, start, shut down: the drain hooks ran twice |
| `RestartServesReady` | same | the probe is armed in `NewService` only: a restarted service answers 503 on `/health/ready` for ever |
| `StartNeverPanics` | same | `Shutdown` runs while the start hooks run; `Start` then dereferences a nil `s.serve` |
| `SecondStartRejected` | same, `FixedAddr = FALSE` | with `:0` a second `Start` binds another port and replaces the published server |
| `RunRanShutdownHooks` | same | the serve loop fails, `Run` returns its error, no hook has run |
| `ChannelResolved` | `MCServiceChannel.cfg` | the first `Start` has launched its server; a `Shutdown` takes its generation and a second `Start` publishes another; only then does the first read `s.serve.graceful`: its watcher follows the other generation, and the channel it returned is never resolved (`service.go:130` promises nil on graceful shutdown). `OutcomeDelivered` is what remains: the channel follows the generation that was read |
| `ReconnectHeals` | `MCRealtimeHeals.cfg` | `handler.go:72` "clients heal via the standard Last-Event-ID reconnect, which replays exactly the gap"; events 1 and 2 are broadcast into a buffer of one, 2 is lost, 3 is delivered; the reconnect carries ID 3 and 2 is never replayed |
| `ExactlyOnceAcrossReconnects` | same | an event is replayed before it is broadcast, the browser reconnects, and it is forwarded live |
| `HistogramCumulative` | `MCMetricsHistogram.cfg` | `metrics.go:113` "exact Prometheus histogram semantics"; one request in the first bucket, scrape: `le` of the second bucket says 0, because `writeHistogram` assigns where it should add (`metrics.go:262`) |
| `GaugeIsBeingServed` | `MCMetrics.cfg` | a handler panics and is never counted out |
| `StatusIsResponse` | `MCMetricsStatus.cfg` | a handler writes or flushes, which sends 200, and then calls `WriteHeader(404)`: counted under 404 (`metrics.go:187` "captures the response status"). With 1xx statuses the same property fails a second way: the recorder keeps the 103 |
| `ShutdownStops` | `MCHealthSurface.cfg`, `MaxActive = 2` | `Shutdown` overtakes a `Start` that has claimed the flag: the pusher is left running |
| `FlagTruthful` | same | a `Start` overtakes the end of a `Shutdown`, which then stops the new pusher: the surface is marked started and pushes nothing |
| `ReadyMeansServing` | `MCPresetReady.cfg` | `systemd/hooks.go:22` "only once it can actually take traffic"; an application start hook fails, the systemd hook behind it sends READY=1, `Start` fails |
| `KeepaliveRuns` | same with `PlainHooks` | after a restart the stop channel is already closed and the keepalive exits |
| `RestartAccepted` | same | preset never calls `Mounted.Shutdown`, so the second `Start` is rejected as already started |
| `ReturnedMeansClosed` | `MCEventService.cfg` | the second of two concurrent `Shutdown` calls returns nil while the first still drains |
| `CutOnlyByTimeout` | same | the context of `WaitForSignal` is cancelled, `runShutdown` derives from it, and the drain ends before it began |
| `StaleNeverAnswered` | same | the lag is checked, a command stores its events, the query answers from a projection further behind than the threshold |
| `CollectNeverPanics` | `MCConfigLoader.cfg` | an embedded pointer or interface without a tag is walked as if it were a struct, and `NumField` panics |
| `OctalLookingFails` | `MCConfigOctal.cfg` | `0755` in an integer field is accepted as 755 (`parse.go:100` says it must fail) |
| `ManualAlwaysCaptures` | `MCFlightRecorderManual.cfg` | a capture of the middleware takes the latch between the handler's `Reset` and `Snapshot`: 200, and no trace |
| `ValidatedOwnWriteStands` | `MCAssemblyValidated.cfg` | a function behind `ResultHandlerWithValidation` writes its response and returns a value: the adapter, which gave it the plain writer, appends the value (`bind.go:53`, `context.go:14`) |
| `OwnWriteStands` | `MCAssemblyStrict.cfg` | the error half of `ValidatedOwnWriteStands`, behind either adapter: a function writes and then returns an error, and the error document follows its own |
| `LegTraces` | same | `WithoutGlobalRegistration` among the otel options: the preset's middleware reports to the global provider, which is not this one |
| `PanicLeavesNothing` | same | a realtime pattern that is taken panics the mux after the provider is up |

## 4. Fairness

Fairness is weak and only on what the Go scheduler or a timer guarantees: a
goroutine that can run does (`StartStep`, `WatcherStep`, `StopStep`,
`HandlerStep`, hooks, the keepalive), the accept loop starts, a deadline passes
(`Expire`, because every shutdown context has a timeout and the delegated
server bounds a `Close` without one). Hooks are assumed to return. Nothing is
assumed of users: a request, a stream or a command handler may last for ever, a
signal may never come, nobody has to connect, publish or shut down. In
`RealtimeStream` a client that stays connected reads its stream; `Hub.Shutdown`
waits for its buffer otherwise, until the context ends it (`HubShutdown` in
`ComposedService` has that case). In `EventService` a call that was made is
scheduled and its context ends; `WaitForSignal` is woken by a cancellation, a
signal may never come. In `FlightRecorder` callers and capture goroutines are
scheduled, but a sink that hangs keeps its capture for ever. `ConfigLoader` and
`Assembly` state no liveness.

## 5. Proofs

Every safety invariant and every action property of the passing runs is a
theorem, for every value of the constants that the assumptions below admit. A
proof module states an inductive invariant, proves that it holds initially, is
preserved by each action (one lemma per action, one step per conjunct the action
can disturb; frame lemmas for the rest) and implies the property, and ends with
one temporal step.

### Assumptions

The modules name what they ask of their constants, and TLC evaluates it on every
run: names are disjoint and bounds are numbers (`ConstantsAssumption`,
`RealtimeAssumption`, `MetricsAssumption`, `HealthAssumption`,
`ComposedAssumption`, `EventServiceAssumption`, `DistinctCallers`,
`TimeAssumption`), a struct type is a sequence of fields (`TypesAssumption`), an
input of a boot has the kinds of values its fields have in Go
(`InputsAssumption`), a body has a length (`TrafficAssumption`). A few theorems
assume more, each for a reason:

| Assumption | Where | Why |
|---|---|---|
| `[]OneListener` | `NoLoneListenerLeaks`, `LoneOutcomeTold`, `LoneContractKept` | No two listeners of the service are open at once. It is a hypothesis on the run, not on the constants: on `":0"` a program meets it by starting again only once the last run is over, and every run with a single `Start` meets it. When a second `Start` on `":0"` binds another port beside a live one it replaces the published server, and TLC refutes all three conclusions (put `FixedAddr = FALSE` in `MCService.cfg`). |
| `FixedAddr` | `NoListenerLeaks`, `OutcomeTold`, `ContractKept` | Two listeners cannot bind one address, so the kernel sees to `OneListener` (lemma `FixedPort`) and the hypothesis goes away. |
| one call at a time (`MaxActive = 1`) | `FlagTells`, `StopReallyStops` | That is how the hooks of a service drive the surface. With overlapping calls both statements are false (section 3); `LoopTells` says what is left of the flag then. |
| `DrainWired` | `DrainKeepsStep` | The drain hooks of the health surface and of systemd are somewhere in the list, as `preset.New` appends them; without them nobody announces the drain. |

### `ServiceLifecycleProofs`

For any sets of calls, any number of hooks and any bound on requests:

| Theorem | Statement |
|---|---|
| `InvariantHolds`, `TypeCorrect` | `[]IInv`, `[]TypeOK` |
| `GracefulOnce`, `DrainInOrder`, `NeverServesHalfAnnounced` | `[]GracefulClosedOnce`, `[]DrainSequence`, `[]HalfAnnouncedNeverServes` |
| `NoWatcherStranded` | `[]OutcomeDelivered`, on any address and however many generations replace one another |
| `NoLoneListenerLeaks`, `LoneOutcomeTold` | `Spec /\ []OneListener` implies `[]ListenerNeverLeaks`, `[]OutcomeFaithful` |
| `LoneContractKept` | `Spec /\ []OneListener => ImplementsContract` |
| `NoListenerLeaks`, `OutcomeTold`, `ContractKept` | the same on a fixed port, from `Spec` alone |

`GracefulClosedOnce` is not inductive: that a generation is closed once follows
from who owns it. `IInv` adds five parts. `Ownership`: a generation is
published, or taken by exactly one `Shutdown` call, or neither. `HookIndex`:
where the loop index of `runHooks` stands. `StartHookCount`: the start hooks
follow the `Start` call, and a launched one has succeeded in all.
`StopProgress`: a generation nobody took is untouched; for a taken one the
number of drain hooks, shutdown hooks and closes is determined by the position
of the one call that owns it, and readiness is down from the flip on.
`ServerState`: a server runs only behind a `Start` that launched it.

`OutcomeDelivered` needs one more invariant beside it, `WatchInv`: a watcher that
has not sent is at one of its two selects, and the failure of its serve loop is
still in the delegated channel. That `graceful` of a shut-down generation is
closed is `StopProgress`.

While no two listeners are open two more invariants hold beside it. `PortInv`:
no generation but that of the open listener is published (`OnePort`), how
listener, server and call go together (`Socket`), and who will close it
(`Closable`, which is the property). `OutcomeInv`: the one send of the watcher,
what the server has come to by then, and what a `Shutdown` waited for.

The refinement maps a generation to a phase (`PhaseOf`, read off server,
listener and call), to whether it is draining, and to the outcome in its
channel. `ContractInit` maps the initial states; for each group of actions a
lemma (`StartContract`, `RunContract`, `WatcherContract`, `StopContract`, ...)
shows under the three invariants that a step is one step of `ServiceContract` or
changes nothing it can see; `ContractNext` puts them together.

### `EventServiceProofs`

| Theorem | Statement |
|---|---|
| `AuxOwned` | `[]AuxNeverLeaks`, on the failing construction paths too |
| `SingleClose` | `[]ClosedOnce`, for any number of `Shutdown` calls |
| `DrainWaits` | `[]DrainedBeforeClose`: when the drain ended without an error, every command that was in flight when `Shutdown` took over was done and its events were stored by open engines |
| `ContractKept` | `Spec => ImplementsContract`: the service implements `EventContract` |
| `GuardedQueryFresh` | `[]CheckedAnswerFresh`: the answer is behind the store, as it stood at the check, by at most `MaxStaleness` |

`IInv` consists of `TypeOK`; `Construction` (what has been reached decides who
owns the handle, which chain commands run through, and that nobody shuts down
before); `Ownership` (the call that set `closed` is the only one past the claim,
its position decides what is closed, and it has ended its drain before it
closes); `Tracking` (the pending counter is the cardinality of the commands
between the outermost layer and the handler, by the finite-set theorems);
`Drained`; `Freshness` (from the check to the answer each worker stays within
the threshold of the mark, except one that was rewound).

The refinement reads the phase off the construction step, the system and the
`closed` flag (`PhaseNow`), a command off its position in the chain
(`CommandNow`), and takes the commands that `Claim` noted for the awaited ones.
Its one delicate step is the close: the contract lets nobody cut off an awaited
command without an excuse, which needs that the owner of the close has a drain
result at all. That conjunct of `Ownership` was missing from the invariant the
safety properties get by with, and the simulation did not go through without it.
`ClosedOnce` is a state property of the history counter `closes`; the contract
says it of the phases, and the run checks it in that form.

### `RealtimeStreamProofs`

| Theorem | Statement |
|---|---|
| `NeverTwice` | `[]AtMostOncePerConnection` |
| `NothingBetween` | `[]NoGap`: below the last ID only events a full buffer dropped are missing |
| `InOrder` | `OrderPreserved`, an action property |
| `ContractKept` | `Spec => ImplementsContract`: hub and handler implement `StreamContract` |

`NoGap` needs to know where each event a connection is owed is at any moment:
`Covered` says delivered, dropped, buffered or still to be replayed. It rests on
`Buffered` (the buffer ascends and holds broadcast events), `Delivered` (what
was delivered and can come again live was replayed, so the dedup catches it),
`Replaying` (the events to replay are the next ones, with every matching one
below them), `TakenUp` (where a connection starts) and `Subscribed`.

The refinement shows a browser its connection from the subscription on (`On`),
with what it starts from, what it was given and what was lost. A replayed and a
forwarded event are the same contract step, `Deliver`, whose guard asks that the
event is new, that it is beyond the bookmark or from before the connection, and
that everything between the start and it was given or lost. The last of these is
`Gapless` of the next state (`NoGap` of one client), the others come from
`Buffered`, `Delivered` and `Gapless` for a forwarded event and from `Replaying`
and `Grounded` for a replayed one. `Grounded` is a second invariant: what is
read from the store is stored, and a connection that is not subscribed yet has
lost nothing. A skipped duplicate, the store read and the phases of the hub are
stutters.

### `MetricsCollectorProofs`

| Theorem | Statement |
|---|---|
| `GaugeKept` | `[]GaugeConserved`: the gauge is the number of requests being served plus the panicked ones |
| `CountersGrow` | `ScrapesMonotonic`, an action property |
| `SamplesExact` | `[]SeriesExact`, whatever the handlers write, flush and send |

The gauge is a cardinality, so the invariant carries that finitely many requests
have begun. `ScrapeBehind` relates the last exposition to the collector.
`Recorded` says that recorder and wire agree from the first `WriteHeader` on,
unless that call strayed (a 1xx, or behind a write or flush that had sent the
response); then the recorder holds the stray code, and that is the series the
request counts in. Before the first `WriteHeader` the recorder holds the 200 that
a write, a flush or the return sends. A series' sum is a fold over a set; what one more sample adds to it is proved by
least counterexample over the cardinality of the set, from the well-foundedness
of the naturals, since the induction theorems cannot be instantiated.

### `ComposedServiceProofs`

| Theorem | Statement |
|---|---|
| `FlagTells`, `StopReallyStops` | `SurfaceSpec => []FlagTruthful`, `[]ShutdownStops` of `HealthSurface`, one call at a time, any callers and any number of calls |
| `LoopTells` | `SurfaceSpec => []LoopTruthful`, any number of calls overlapping: a surface that is marked started refreshes, or a call is under way that will arm the loop, take its claim back or clear the flag |
| `DrainKeepsStep` | `[]DrainInLockstep`, wherever the two drain hooks stand and whatever fails around them |
| `SpansLast` | `[]FlushedLast`, for every wiring |

`CallProgress` says what a call under way has claimed, started and stopped.
`Announced` says what the drain hooks behind the index have done; from the end
of the drain on, readiness is down and the manager was told or the failure is in
the result (`Told`). `Legs` orders hub and provider.

### `FlightRecorderProofs`

`CooldownKept` (`[]CooldownHolds`), `NoFailureDropped` (`[]FailuresReported`: a
failing batch of an enabled, firing trigger is passed over only in the window
that the capture of another batch opened) and `SnapshotHonest`
(`[]ManualHonest`: a manual call that answered 200 on a directory sink left a
whole trace). `LockHeld` says that `mu` is held from the check to the stamp by one batch; `Window` says
that `lastCapture` covers every initiation but that of the holder, and that the
holder is still past the window. `RInv`, inductive beside it, says that a
`lastCapture` is the stamp of a batch that initiated a capture (`WindowOpened`:
a healthy batch stamps nothing), and where a failing batch without a capture of
its own stands.

### `ConfigLoaderProofs`

`PrecedenceKept`, `NothingDropped`, `BlameJust` (`[]Precedence`,
`[]NothingSwallowed`, `[]BlameTruthful`), for every struct type, file,
environment and flag map and for every order of map entries. `Taken` is what
each layer has handed to a field so far, and `Layered` says that a field which
alone answers to its name (`Sole`) holds what those layers leave in it.
`Accepted`: without a problem so far everything handed over parsed and was
addressed to a field, entries of the file that a stronger layer overrides
included; `DefaultsFine` adds the defaults, which `Load` applies before anything
else (`ErrorsStay`: no later layer takes a problem back). Two limits of
`NothingSwallowed` are the code's: of a key that the file spells twice only one
spelling reaches a field, so it is asked that one of them parses; and `0755`
counts as a number (`OctalLookingFails`, section 3). `Blamed`: each kind of problem is about what it names.
`Shape`, `Pending` and `Untouched` are the frame. `BlameTruthful` asks of a
missing field that some choice among its spellings leaves it zero. An earlier
form, which compared with all spellings at once, was false when a file spells
one key twice and one spelling does not parse; the proof did not go through
there, and the instance of `config_loader` now contains such a file.

### `AssemblyProofs`

| Theorem | Statement |
|---|---|
| `BootLeavesNothing` | `[]NoOrphanProvider` |
| `BuiltAsAsked` | `[]BootAsAsked`: legs, security layers, exporters and deadlines of a finished service are exactly the ones code, environment and defaults ask for; only the origin check of a profile that the environment alone sets to strict is excepted, which `assembly_strict` refutes |
| `AllTraced` | `[]EveryRequestTraced`: with a provider that is registered globally, outside the health endpoints |
| `NoUnentitledCall` | `[]AdmittedMeansEntitled` |
| `AnsweredAsMeant` | `[]AnswerFaithful`; that a success after an own write stands alone is asked behind `ResultHandler`, where it is true, and refuted behind `ResultHandlerWithValidation` (`ValidatedOwnWriteStands`, section 3) |

`BootInv` says at each position of `New` what is up, resolved, chosen and built
(`ProviderState`, `LegState`, `ExporterState`, `TimeoutState`, `ExtraState`,
`StackState`); it
fixes the layers of a finished service. `BootAsAsked` is stated from the input
alone; lemma `Deadlines` takes its timeouts from `ApplyDefaults` and `Validate`.
`PathInv` is inductive under it: where in
the chain a request is (`Position`), that the span is started first
(`TracedFirst`), and what the guards behind it have established (`Admission`).
`AnswerInv` adds that nothing is written before the answer (`Silence`). A flush
through `http.ResponseController` goes past `resultWriter`, which exposes the
plain writer by `Unwrap`, and counts as no write: the value follows it.

### Only model-checked

The liveness properties: `CallsReturn` of the lifecycle,
`EventuallyDelivered` and `ShutdownCompletes` of the hub, `StopCompletes` and
`KeepaliveStops` of the composed service, `AlwaysCloses` of the event service,
and `CallersNeverWait` of the recorder. They rest on
fairness, hence on ENABLED, which the prover cannot reason about. The statements
expected to fail are counterexamples, not theorems.


## 6. Not modelled

Log lines, error wrapping and codes, text layouts, header values, and the
length of timeouts. `ready()` combined with a user's `ReadyCheck`. In the config
loader the raw values are a few tokens (numbers with a leading zero, a sign and
a width among them); floats and durations go through the same path and are left
out. In the request path content types, the rendered pages, CSP and header
values; `WithFilteredPaths` of the otel middleware (its documented example
`"/static/"` filters nothing below that path, because a second slash is
appended before the prefix is compared). Of the event service the host options,
`ReplayDeadLetters` and `ReadyCheck`, which forward to the projection host. Of
the otel module the OTLP URL and header options, exception events and log
correlation. The docs endpoint and the testkit.

## 7. Plan

1. The lifecycle of `ComposedService` as an instance of `ServiceContract` with
   one caller, so that the hooks of the preset are checked against the same
   promise as the service itself.
2. What a replaced generation on `":0"` still keeps: `ListenerNeverLeaks` and
   `OutcomeFaithful` restricted to the generations nobody replaced.
3. An abstract specification of the boot (what was asked, what is up) for
   `PresetBoot` to implement; `BootInv` is what its simulation needs.
