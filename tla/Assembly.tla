------------------------------ MODULE Assembly ------------------------------
(***************************************************************************)
(* preset.New and the service it returns under traffic: PresetBoot decides *)
(* which layers exist, RequestPath sends requests through them.            *)
(***************************************************************************)
EXTENDS RequestPath

vars == <<bootVars, pathVars>>

Init == BootInit /\ PathInit

Next ==
  \/ BootStep /\ UNCHANGED pathVars
  \/ PathStep /\ UNCHANGED bootVars

Spec == Init /\ [][Next]_vars

-----------------------------------------------------------------------------
(* Properties *)

Layers == {stack[i] : i \in DOMAIN stack}

\* "The core never runs ShutdownHooks for a service that never started": no
\* way a boot can end in an error leaves a provider behind whose spans and
\* metrics nobody flushes, whichever step failed and however much was up.
NoOrphanProvider == boot \in {"rejected", "failed"} => provider \in {"none", "down"}

\* What a configuration asks for.  A leg: its Enabled field where the code sets
\* it, else its switch, else the default.
Asked(l) == \/ in.code[l] = "on"
            \/ /\ in.code[l] = "nil"
               /\ in.env[l] = "on" \/ (in.env[l] = "absent" /\ l = "pages")

SecurityAsked ==
  \/ in.code.security = "on" /\ in.sec.profile # "none"
  \/ in.code.security = "nil" /\ in.env.security \in {"standard", "strict"}

StrictAsked ==
  \/ in.code.security = "on" /\ in.sec.profile = "strict"
  \/ in.code.security = "nil" /\ in.env.security = "strict"

\* An exporter: the one the code names, else OTLP if the code asks for it or the
\* environment names an endpoint and does not veto the signal.
ExporterAsked(own, signal) ==
  IF in.code.otel = "on" /\ own # "none" THEN own
  ELSE IF \/ in.code.otel = "on" /\ in.otel.otlp
          \/ signal \in in.otel.endpoints \ in.otel.vetoes
       THEN "otlp" ELSE "none"

\* "Explicit code wins over env in both directions", up to the finished service:
\* every leg is there exactly if it was asked for; so are the layers of the
\* security leg, where the origin check of a profile set in code is never
\* missing (one the environment sets: StrictMeansOriginCheck); each signal goes
\* to the exporter that was asked for; and no timeout loses its meaning on the
\* way: NoTimeout and NoDrainDelay switch off their own deadline (with the
\* Timeout layer that would cut a stream) and nothing else does, zero never
\* survives, and any other value is the one in force.
BootAsAsked ==
  boot = "built" /\ in.server = "preset" =>
    /\ ("Otel" \in Layers) = Asked("otel")
    /\ \A l \in {"pages", "realtime"} : (l \in mounts) = Asked(l)
    /\ ({"Headers", "BodyLimit"} \subseteq Layers) = SecurityAsked
    /\ ~SecurityAsked => {"Headers", "BodyLimit", "OriginCheck"} \cap Layers = {}
    /\ "OriginCheck" \in Layers => StrictAsked
    /\ in.code.security = "on" /\ StrictAsked => "OriginCheck" \in Layers
    /\ span = (IF Asked("otel") THEN ExporterAsked(in.otel.span, "traces") ELSE "none")
    /\ reader = (IF Asked("otel") THEN ExporterAsked(in.otel.reader, "metrics") ELSE "none")
    /\ \A t \in Timeouts : in.timeouts[t] > 0 => timeout[t] = in.timeouts[t]
    /\ \A t \in {"readHeader", "idle", "shutdown"} : timeout[t] > 0
    /\ \A t \in {"read", "write"} : (ServerTimeout(timeout[t]) = 0) = (in.timeouts[t] = NoTimeout)
    /\ (timeout["drain"] > 0) = (in.timeouts["drain"] # NoDrainDelay)
    /\ ("Timeout" \in Layers) = (in.timeouts["write"] # NoTimeout)

\* Whatever combination of layers was built, a request that reached the
\* application's function satisfied every guard in front of it: under a strict
\* profile set in code it names no origin, its own, or a listed one; with a key
\* configured it presented the key, on writes in the header and never behind a
\* wrong header; and an unsafe request without a key header had its token.
AdmittedMeansEntitled ==
  fn # NotRun =>
    /\ in.server = "preset" /\ in.code.security = "on" /\ in.sec.profile = "strict"
         /\ "*" \notin in.sec.origins
       => \/ req.origin \in {"self", "listed", "Listed"}
          \/ req.origin = "" /\ req.referer \in {"", "self", "listed", "Listed"}
    /\ in.app.key => \/ req.header = "right"
                     \/ req.header = "" /\ req.safe /\ req.query = "right"
    /\ req.safe \/ req.token \/ req.header # ""

\* Instrumentation observes the full request lifetime: with the otel leg on and
\* its provider registered every answered request outside the health endpoints
\* has its span, also one a layer refused or whose function panicked.
EveryRequestTraced ==
  Answered /\ "Otel" \in Layers /\ ~in.otel.isolated => traced = (req.target # "health")

\* The answer is the one the route's owner meant.  A bad path keeps its
\* redirect, a wrong method its 405 with Allow unless a catch-all took it, an
\* unknown path its 404, each rendered as the client asked; a refused request
\* carries the refusal alone; behind ResultHandler a function that succeeded after
\* writing itself is not followed by a second document (a flush alone is no
\* write: the value follows it; ResultHandlerWithValidation does not keep this,
\* see ValidatedOwnWriteStands); a body is bound only if it was read completely;
\* and no panic leaves a service of the preset without a status.
AnswerFaithful ==
  Answered =>
    /\ req.target = "unclean" /\ resp.docs # <<"refusal">> => resp.status = 301
    /\ req.target = "missing" /\ resp.docs # <<"refusal">> => resp.status = 404
    /\ req.target = "method" /\ resp.docs # <<"refusal">> =>
         IF CatchAll THEN resp.status = 404 ELSE resp.status = 405 /\ resp.allow
    /\ "page" \in {resp.docs[i] : i \in DOMAIN resp.docs} => ~req.json
    /\ "refusal" \in {resp.docs[i] : i \in DOMAIN resp.docs} =>
         fn = NotRun /\ resp.docs = <<"refusal">>
    /\ req.target = "result" /\ fn.own = "written" /\ fn.out \in {"value", "nil"} => resp.docs = <<"own">>
    /\ req.target = "validated" /\ fn # NotRun =>
         /\ req.decodes /\ req.size \in 1..MaxBindBody
         /\ BodyLimited => req.size <= BodyLimit
    /\ in.server = "preset" => resp.status # 0

(* Statements of the documentation that the code does not keep. *)

\* "SecurityStrict adds OriginCheck on top of standard. Origins is REQUIRED -
\* New rejects without it": a service whose resolved profile is strict checks
\* origins, wherever the profile was set.
StrictMeansOriginCheck ==
  boot = "built" /\ profile = "strict" => "OriginCheck" \in Layers

\* "A handler function that writes to c.ResponseWriter directly takes
\* ownership: the battery skips its own serialization once any write has gone
\* through."
OwnWriteStands == Answered /\ fn.own = "written" /\ fn.out # "panic" => resp.docs = <<"own">>

\* "The happy path and error path are ResultHandler's": behind
\* ResultHandlerWithValidation, too, a function that succeeded after writing
\* itself is not followed by a document of the adapter.
ValidatedOwnWriteStands ==
  Answered /\ req.target = "validated" /\ fn.own = "written" /\ fn.out \in {"value", "nil"}
    => resp.docs = <<"own">>

\* "Enabled=true boots otel.Setup and mounts otel.Middleware outermost": the
\* requests of a service with the leg on are traced.
LegTraces == Answered /\ leg["otel"] => traced = (req.target # "health")

\* bootFail flushes on every startup-error path, a panic while routes are
\* mounted included.
PanicLeavesNothing == boot = "panicked" => provider \in {"none", "down"}

=============================================================================
