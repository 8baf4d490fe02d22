----------------------------- MODULE PresetBoot -----------------------------
(***************************************************************************)
(* preset.New: the legs are resolved from code and environment, the otel   *)
(* provider is set up, the security profile, the service and its middleware*)
(* stack are built, and the surfaces are mounted.  Every step may fail; the*)
(* core never runs ShutdownHooks for a service that never started, so the  *)
(* failing step has to flush the provider itself.                          *)
(*                                                                         *)
(* The input of a boot is one record:                                      *)
(*   code    what Config says of each leg: "nil", "on" or "off"            *)
(*   env     the APPKIT_* switches: "absent", "on", "off", or "bad"        *)
(*   sec     the SecurityConfig of a non-nil security leg                  *)
(*   otel    the otel options: span exporter, stdout writer, metric reader,*)
(*           WithOTLP, WithoutGlobalRegistration, and the OTEL_* variables *)
(*           (endpoints, vetoes)                                           *)
(*   timeouts, level, metrics, pattern: the rest of Config                 *)
(*   server  "preset", or "custom" for a server of the application's own   *)
(*           that serves errorpages.Wrap(mux)                              *)
(***************************************************************************)
EXTENDS Integers, Sequences, FiniteSets

CONSTANT Inputs      \* the boots that are considered

Legs == {"otel", "realtime", "pages"}
NoTimeout == -1
NoDrainDelay == -2
Timeouts == {"read", "readHeader", "write", "idle", "shutdown", "drain"}

\* What the abstract values of an input may be: "listed" stands for an origin
\* of the list, "Listed" for one written in another case.
ASSUME InputsAssumption ==
  \A i \in Inputs :
    /\ i.code.security \in {"nil", "on", "off"}
    /\ i.env.security \in {"absent", "none", "standard", "strict", "bad"}
    /\ i.timeouts \in [Timeouts -> Int]
    /\ i.sec.origins \subseteq {"listed", "Listed", "*"}
    /\ i.otel.span \in {"none", "code", "stdout"}
    /\ i.otel.reader \in {"none", "code"}
    /\ i.sec.limit \in Int

VARIABLES
  in,          \* the input of this boot
  boot,        \* where New stands
  leg,         \* resolvedLegs: leg -> BOOLEAN
  profile,     \* resolvedLegs.security
  span,        \* the span exporter in use: "none", "code", "stdout", "otlp"
  reader,      \* the metric reader in use: "none", "code", "otlp"
  provider,    \* "none", "up", or the steps of its Shutdown already done
  extra,       \* ServiceConfig.ExtraMiddlewares
  stack,       \* the chain NewService builds, outermost first
  timeout,     \* the timeouts after applyDefaults
  mounts       \* the surfaces mounted on the mux

bootVars == <<in, boot, leg, profile, span, reader, provider, extra, stack, timeout, mounts>>

BootInit ==
  /\ in \in Inputs
  /\ boot = IF in.server = "custom" THEN "built" ELSE "resolve"
  /\ leg = [l \in Legs |-> FALSE]
  /\ profile = "none"
  /\ span = "none" /\ reader = "none"
  /\ provider = "none"
  /\ extra = <<>> /\ stack = <<>>
  /\ timeout = in.timeouts
  /\ mounts = {}

-----------------------------------------------------------------------------
\* resolveLegs.

\* A leg whose switch is absent is off, except for the error pages.
AbsentValue(l) == l = "pages"

\* Mutant of LegOn: the environment overrides the code.
LegOnByEnv(l) ==
  \/ in.env[l] = "on"
  \/ in.env[l] = "absent" /\ in.code[l] = "on"
  \/ in.env[l] = "absent" /\ in.code[l] = "nil" /\ AbsentValue(l)

\* A non-nil leg decides itself, else its switch does.
LegOn(l) == IF in.code[l] # "nil" THEN in.code[l] = "on"
            ELSE in.env[l] = "on" \/ (in.env[l] = "absent" /\ AbsentValue(l))

\* The profile; an explicit empty one is standard.
ResolvedProfile ==
  IF in.code.security = "nil"
  THEN IF in.env.security = "absent" THEN "none" ELSE in.env.security
  ELSE IF in.code.security = "off" THEN "none"
  ELSE IF in.sec.profile = "" THEN "standard" ELSE in.sec.profile

\* Every switch is parsed, also one that the code overrides.
BadSwitch == \E l \in Legs \cup {"security"} : in.env[l] = "bad"

Resolve ==
  /\ boot = "resolve"
  /\ IF BadSwitch
     THEN boot' = "rejected" /\ UNCHANGED <<leg, profile>>
     ELSE /\ leg' = [l \in Legs |-> LegOn(l)]
          /\ profile' = ResolvedProfile
          /\ boot' = IF LegOn("otel") THEN "spans" ELSE "security"
  /\ UNCHANGED <<in, span, reader, provider, extra, stack, timeout, mounts>>

-----------------------------------------------------------------------------
\* otel.Setup.

\* OTLP export of a signal is asked for in code, or by the environment unless
\* OTEL_<signal>_EXPORTER=none vetoes it.
Wanted(signal) == \/ in.code.otel # "nil" /\ in.otel.otlp
                  \/ signal \in in.otel.endpoints /\ signal \notin in.otel.vetoes

\* The options of Config reach Setup only through a non-nil OTEL leg.
CodeSpan == IF in.code.otel = "nil" THEN "none" ELSE in.otel.span
CodeReader == IF in.code.otel = "nil" THEN "none" ELSE in.otel.reader

\* applyOTLPWiring, traces: an explicit exporter or a stdout writer keeps OTLP
\* out; building the exporter can fail.
WireSpans ==
  /\ boot = "spans"
  /\ \/ /\ CodeSpan = "none" /\ Wanted("traces")
        /\ \/ span' = "otlp" /\ boot' = "metrics"
           \/ span' = span /\ boot' = "failed"
     \/ /\ CodeSpan # "none" \/ ~Wanted("traces")
        /\ span' = CodeSpan /\ boot' = "metrics"
  /\ UNCHANGED <<in, leg, profile, reader, provider, extra, stack, timeout, mounts>>

WireMetrics ==
  /\ boot = "metrics"
  /\ \/ /\ CodeReader = "none" /\ Wanted("metrics")
        /\ \/ reader' = "otlp" /\ boot' = "provider"
           \/ reader' = reader /\ boot' = "failed"
     \/ /\ CodeReader # "none" \/ ~Wanted("metrics")
        /\ reader' = CodeReader /\ boot' = "provider"
  /\ UNCHANGED <<in, leg, profile, span, provider, extra, stack, timeout, mounts>>

\* buildResource and the stdout exporter can fail; then both providers are
\* built and registered.
BuildProvider ==
  /\ boot = "provider"
  /\ \/ boot' = "failed" /\ provider' = provider
     \/ boot' = "security" /\ provider' = "up"
  /\ UNCHANGED <<in, leg, profile, span, reader, extra, stack, timeout, mounts>>

\* Provider.Shutdown: flush and stop the tracer, flush and stop the meter, each
\* step whether or not the one before it failed.
ShutdownStep ==
  [x \in {"up", "spansFlushed", "tracerDown", "metricsFlushed"} |->
     CASE x = "up" -> "spansFlushed" [] x = "spansFlushed" -> "tracerDown"
       [] x = "tracerDown" -> "metricsFlushed" [] OTHER -> "down"]

Flush ==
  /\ boot = "flush"
  /\ provider' = ShutdownStep[provider]
  /\ boot' = IF provider' = "down" THEN "failed" ELSE "flush"
  /\ UNCHANGED <<in, leg, profile, span, reader, extra, stack, timeout, mounts>>

\* bootFail: flush the provider, if there is one, and return the cause.
BootFail == boot' = IF provider = "none" THEN "failed" ELSE "flush"

-----------------------------------------------------------------------------
\* Security and middleware.

\* securityMiddlewares works from Config.Security alone: without it the profile
\* is standard, whatever the environment asked for.
SecurityProfile == IF in.code.security = "nil" \/ in.sec.profile = "" THEN "standard"
                   ELSE in.sec.profile

ApplySecurity ==
  /\ boot = "security"
  /\ \/ /\ profile = "none"
        /\ boot' = "service" /\ extra' = extra
     \/ /\ profile # "none"
        /\ SecurityProfile = "strict" /\ in.sec.origins = {}
        /\ BootFail /\ extra' = extra
     \/ /\ profile # "none"
        /\ ~(SecurityProfile = "strict" /\ in.sec.origins = {})
        /\ extra' = <<"Headers", "BodyLimit">> \o
                    (IF SecurityProfile = "strict" THEN <<"OriginCheck">> ELSE <<>>)
        /\ boot' = "service"
  /\ UNCHANGED <<in, leg, profile, span, reader, provider, stack, timeout, mounts>>

\* Zero takes the default.
Default == [read |-> 10, readHeader |-> 5, write |-> 30, idle |-> 60, shutdown |-> 15, drain |-> 5]
ApplyDefaults(ts) == [t \in Timeouts |-> IF ts[t] = 0 THEN Default[t] ELSE ts[t]]

InvalidTimeout(d) == d < 0 /\ d # NoTimeout

Validate(ts) ==
  /\ ~InvalidTimeout(ts.read) /\ ~InvalidTimeout(ts.write)
  /\ ts.readHeader >= 0 /\ ts.idle >= 0 /\ ts.shutdown > 0
  /\ ts.drain >= 0 \/ ts.drain = NoDrainDelay

\* http.Server's value: 0 is no deadline.
ServerTimeout(d) == IF d = NoTimeout THEN 0 ELSE d

DefaultStack(ts) ==
  <<"ServerTiming", "Recovery", "RequestID", "Logging">> \o
  (IF ts.write = NoTimeout THEN <<>> ELSE <<"Timeout">>) \o <<"SecurityHeaders">>

\* Mutant of BuildMiddleware: instrumentation joins the extra middlewares.
BuildMiddlewareInner(ts) ==
  DefaultStack(ts) \o extra
  \o (IF provider = "up" THEN <<"Otel">> ELSE <<>>)
  \o (IF in.metrics = "ok" THEN <<"Collector">> ELSE <<>>)

\* Outer middlewares wrap the default stack, the extra ones come last, and the
\* metrics collector wraps the mux directly.
BuildMiddleware(ts) ==
  (IF provider = "up" THEN <<"Otel">> ELSE <<>>)
  \o DefaultStack(ts) \o extra
  \o (IF in.metrics = "ok" THEN <<"Collector">> ELSE <<>>)

\* Mutant of NewService: a rejected configuration returns at once.
NewServiceNoFlush ==
  /\ boot = "service"
  /\ timeout' = ApplyDefaults(timeout)
  /\ IF Validate(timeout') /\ in.level = "ok" /\ in.metrics # "bad"
     THEN stack' = BuildMiddleware(timeout') /\ boot' = "mount"
     ELSE stack' = stack /\ boot' = "failed"
  /\ UNCHANGED <<in, leg, profile, span, reader, provider, extra, mounts>>

\* applyDefaults, Validate, InitLogger, the metrics validation; the stack is
\* built when all of them pass.
NewService ==
  /\ boot = "service"
  /\ timeout' = ApplyDefaults(timeout)
  /\ IF Validate(timeout') /\ in.level = "ok" /\ in.metrics # "bad"
     THEN stack' = BuildMiddleware(timeout') /\ boot' = "mount"
     ELSE stack' = stack /\ BootFail
  /\ UNCHANGED <<in, leg, profile, span, reader, provider, extra, mounts>>

-----------------------------------------------------------------------------
\* Mounting: health first, whose error is flushed; then the catch-all and the
\* SSE route, where a pattern that is taken panics.
MountHealth ==
  /\ boot = "mount"
  /\ \/ BootFail /\ mounts' = mounts
     \/ boot' = "surfaces" /\ mounts' = {"health"}
  /\ UNCHANGED <<in, leg, profile, span, reader, provider, extra, stack, timeout>>

MountSurfaces ==
  /\ boot = "surfaces"
  /\ mounts' = mounts \cup {l \in {"pages", "realtime"} : leg[l]}
  /\ boot' = IF leg["realtime"] /\ in.pattern = "taken" THEN "panicked" ELSE "built"
  /\ UNCHANGED <<in, leg, profile, span, reader, provider, extra, stack, timeout>>

BootStep ==
  \/ Resolve \/ WireSpans \/ WireMetrics \/ BuildProvider \/ Flush
  \/ ApplySecurity \/ NewService \/ MountHealth \/ MountSurfaces

=============================================================================
