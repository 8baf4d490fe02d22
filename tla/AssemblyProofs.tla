---------------------------- MODULE AssemblyProofs ----------------------------
(***************************************************************************)
(* TLAPS proofs about Assembly, for any set of boots and any traffic.      *)
(*                                                                         *)
(* BootInv is inductive for the steps of preset.New, and tells which       *)
(* layers a finished service has.  PathInv is inductive for a request      *)
(* under BootInv: it tells where in the chain the request is and which     *)
(* guards are behind it.  AnswerInv adds what has been written: nothing    *)
(* before the answer, then what AnswerFaithful allows.                     *)
(***************************************************************************)
EXTENDS Assembly, TLAPS, SequenceTheorems

Members(s) == {s[i] : i \in DOMAIN s}

\* Positions of New from which a service may still come.
Building == {"security", "service", "mount", "surfaces", "built"}

\* The provider is up from its construction to the end of New, and a boot that
\* fails after it passes through the flush.
ProviderState ==
  /\ boot \in {"resolve", "spans", "metrics", "provider", "rejected", "failed", "flush", "panicked"} \cup Building
  /\ boot \in {"resolve", "spans", "metrics", "provider"} => provider = "none"
  /\ boot \in {"rejected", "failed"} => provider \in {"none", "down"}
  /\ boot = "flush" => provider \in {"up", "spansFlushed", "tracerDown", "metricsFlushed"}
  /\ boot \in Building => provider \in {"none", "up"}

\* The legs are what code and environment resolved to, and the provider exists
\* exactly when the otel leg is on.
LegState ==
  /\ boot \notin {"resolve", "rejected"} =>
       leg = [l \in Legs |-> LegOn(l)] /\ profile = ResolvedProfile /\ ~BadSwitch
  /\ boot \in {"spans", "metrics", "provider"} => LegOn("otel")
  /\ boot \in Building => (provider = "up" <=> LegOn("otel"))

\* Each signal has the exporter its wiring decided on.
SpanChoice == IF CodeSpan # "none" THEN CodeSpan ELSE IF Wanted("traces") THEN "otlp" ELSE "none"
ReaderChoice == IF CodeReader # "none" THEN CodeReader ELSE IF Wanted("metrics") THEN "otlp" ELSE "none"

ExporterState ==
  /\ boot \in {"resolve", "spans"} => span = "none"
  /\ boot \in {"resolve", "spans", "metrics"} => reader = "none"
  /\ boot \in {"metrics", "provider"} => span = SpanChoice
  /\ boot = "provider" => reader = ReaderChoice
  /\ boot \in Building =>
       /\ span = IF LegOn("otel") THEN SpanChoice ELSE "none"
       /\ reader = IF LegOn("otel") THEN ReaderChoice ELSE "none"

\* The timeouts are those of the input, then those with the defaults, accepted.
TimeoutState ==
  /\ boot \in {"resolve", "spans", "metrics", "provider", "security", "service"} => timeout = in.timeouts
  /\ boot \in {"mount", "surfaces", "built"} => timeout = ApplyDefaults(in.timeouts) /\ Validate(timeout)

SecurityLayers == <<"Headers", "BodyLimit">> \o
                  (IF SecurityProfile = "strict" THEN <<"OriginCheck">> ELSE <<>>)

\* The middlewares of the resolved profile; strict has its origins.
ExtraState ==
  boot \in {"service", "mount", "surfaces", "built"} =>
    \/ profile = "none" /\ extra = <<>>
    \/ /\ profile # "none" /\ extra = SecurityLayers
       /\ ~(SecurityProfile = "strict" /\ in.sec.origins = {})

\* The chain was built from what is still there, after the defaults.
StackState ==
  /\ boot \in {"resolve", "spans", "metrics", "provider", "security"} => extra = <<>>
  /\ boot \in {"mount", "surfaces", "built"} =>
       stack = BuildMiddleware(timeout)
  /\ boot = "surfaces" => mounts = {"health"}
  /\ boot = "built" => \A l \in {"pages", "realtime"} : l \in mounts <=> leg[l]

\* A server of the application's own has no boot.
BootState ==
  IF in.server = "custom"
  THEN boot = "built" /\ stack = <<>> /\ provider = "none" /\ mounts = {}
  ELSE ProviderState /\ LegState /\ ExporterState /\ ExtraState /\ StackState /\ TimeoutState

BootInv == in \in Inputs /\ BootState

-----------------------------------------------------------------------------
ChainLayers == {"Otel", "ServerTiming", "Recovery", "RequestID", "Logging", "Timeout", "SecurityHeaders",
                "Headers", "BodyLimit", "OriginCheck", "Collector"}
RouteLayers == {"Wrap", "Mux", "RateLimit", "CSRF", "APIKeyAuth", "Handler"}

\* In front of the mux: layers of the chain, the mux last.
ChainPhase(t) ==
  /\ Len(t) > 0 /\ t[Len(t)] = "Mux"
  /\ \A i \in 1..Len(t) - 1 : t[i] \in ChainLayers

\* Behind it: a suffix of the guards.
GuardPhase(t) ==
  /\ Len(t) \in 1..4
  /\ \A i \in 1..Len(t) : t[i] = Guards[4 - Len(t) + i]

\* Where a request can be.
Position ==
  /\ todo \in Seq(ChainLayers \cup RouteLayers)
  /\ req = NoRequest => todo = <<>> /\ fn = NotRun
  /\ req # NoRequest => boot = "built"
  /\ fn # NotRun => todo = <<>>
  /\ todo = <<>> \/ ChainPhase(todo) \/ GuardPhase(todo) \/ todo = <<"Wrap">>
  /\ todo = <<"Wrap">> => in.server = "custom"

\* The span is started before anything else happens to the request.
TracedFirst ==
  req # NoRequest /\ "Otel" \in Layers /\ ~in.otel.isolated =>
    In("Otel") \/ (traced = (req.target # "health"))

Strict == /\ in.server = "preset" /\ in.code.security = "on" /\ in.sec.profile = "strict"
          /\ "*" \notin in.sec.origins
OriginOK == \/ req.origin \in {"self", "listed", "Listed"}
            \/ req.origin = "" /\ req.referer \in {"", "self", "listed", "Listed"}
KeyOK == in.app.key => \/ req.header = "right"
                       \/ req.header = "" /\ req.safe /\ req.query = "right"
TokenOK == req.safe \/ req.token \/ req.header # ""

\* What a request has satisfied, by the guards that are behind it.
Admission ==
  /\ req # NoRequest /\ Strict =>
       \/ ChainPhase(todo) /\ "OriginCheck" \in Members(todo)
       \/ todo = <<>> /\ fn = NotRun
       \/ OriginOK
  /\ GuardPhase(todo) /\ Len(todo) <= 2 => TokenOK
  /\ GuardPhase(todo) /\ Len(todo) <= 1 => KeyOK
  /\ fn # NotRun => req # NoRequest /\ TokenOK /\ KeyOK

PathInv == Position /\ TracedFirst /\ Admission

IInv == BootInv /\ PathInv

-----------------------------------------------------------------------------
(* Sequences of layers *)

\* The members of a concatenation.
LEMMA MembersConcat ==
  ASSUME NEW S, NEW s \in Seq(S), NEW t \in Seq(S)
  PROVE  s \o t \in Seq(S) /\ Members(s \o t) = Members(s) \cup Members(t)
<1>1. /\ s \o t \in Seq(S) /\ Len(s \o t) = Len(s) + Len(t)
      /\ \A i \in 1..Len(s) + Len(t) : (s \o t)[i] = IF i <= Len(s) THEN s[i] ELSE t[i - Len(s)]
  BY ConcatProperties, Zenon
<1>2. /\ DOMAIN s = 1..Len(s) /\ DOMAIN t = 1..Len(t) /\ DOMAIN (s \o t) = 1..Len(s \o t)
      /\ Len(s) \in Nat /\ Len(t) \in Nat
  BY <1>1, LenProperties, Zenon
<1> DEFINE st == s \o t
<1>3. /\ DOMAIN st = 1..Len(s) + Len(t)
      /\ \A i \in 1..Len(s) + Len(t) : st[i] = IF i <= Len(s) THEN s[i] ELSE t[i - Len(s)]
  BY <1>1, <1>2
<1> HIDE DEF st
<1>4. ASSUME NEW x \in Members(st)
      PROVE  x \in Members(s) \cup Members(t)
  <2>1. PICK i \in 1..Len(s) + Len(t) : x = st[i]
    BY <1>3 DEF Members
  <2>2. CASE i <= Len(s)
    BY <1>2, <1>3, <2>1, <2>2 DEF Members
  <2>3. CASE ~(i <= Len(s))
    <3>1. i - Len(s) \in 1..Len(t) /\ x = t[i - Len(s)]
      BY <1>2, <1>3, <2>1, <2>3
    <3> QED
      BY <1>2, <3>1 DEF Members
  <2> QED
    BY <2>2, <2>3
<1>5. ASSUME NEW x \in Members(s)
      PROVE  x \in Members(st)
  <2>1. PICK i \in 1..Len(s) : x = s[i]
    BY <1>2 DEF Members
  <2>2. i \in 1..Len(s) + Len(t) /\ st[i] = x
    BY <1>2, <1>3, <2>1
  <2> QED
    BY <1>3, <2>2 DEF Members
<1>6. ASSUME NEW x \in Members(t)
      PROVE  x \in Members(st)
  <2>1. PICK i \in 1..Len(t) : x = t[i]
    BY <1>2 DEF Members
  <2>0. /\ i + Len(s) \in 1..Len(s) + Len(t) /\ ~(i + Len(s) <= Len(s))
        /\ (i + Len(s)) - Len(s) = i
    BY <1>2
  <2>2. i + Len(s) \in 1..Len(s) + Len(t) /\ st[i + Len(s)] = x
    BY <1>3, <2>0, <2>1
  <2> QED
    BY <1>3, <2>2 DEF Members
<1>7. Members(st) = Members(s) \cup Members(t)
  BY <1>4, <1>5, <1>6
<1> QED
  BY <1>1, <1>7 DEF st

LEMMA MembersEmpty == <<>> \in Seq(ChainLayers) /\ Members(<<>>) = {}
BY DEF Members

\* The members of the literal chains.
LEMMA MembersOne ==
  ASSUME NEW x \in ChainLayers
  PROVE  <<x>> \in Seq(ChainLayers) /\ Members(<<x>>) = {x}
BY DEF Members

LEMMA MembersTwo ==
  ASSUME NEW x \in ChainLayers, NEW y \in ChainLayers
  PROVE  <<x, y>> \in Seq(ChainLayers) /\ Members(<<x, y>>) = {x, y}
BY DEF Members

\* The layers of the default stack ...
LEMMA DefaultStackMembers ==
  ASSUME NEW ts
  PROVE  /\ DefaultStack(ts) \in Seq(ChainLayers)
         /\ Members(DefaultStack(ts)) =
              {"ServerTiming", "Recovery", "RequestID", "Logging", "SecurityHeaders"}
              \cup (IF ts.write = NoTimeout THEN {} ELSE {"Timeout"})
<1> DEFINE A == <<"ServerTiming", "Recovery", "RequestID", "Logging">>
           B == IF ts.write = NoTimeout THEN <<>> ELSE <<"Timeout">>
           C == <<"SecurityHeaders">>
<1>1. A \in Seq(ChainLayers) /\ Members(A) = {"ServerTiming", "Recovery", "RequestID", "Logging"}
  BY DEF ChainLayers, Members
<1>2. B \in Seq(ChainLayers) /\ Members(B) = IF ts.write = NoTimeout THEN {} ELSE {"Timeout"}
  BY MembersOne, MembersEmpty DEF ChainLayers
<1>3. C \in Seq(ChainLayers) /\ Members(C) = {"SecurityHeaders"}
  BY MembersOne DEF ChainLayers
<1>4. DefaultStack(ts) = (A \o B) \o C
  BY DEF DefaultStack
<1> HIDE DEF A, B, C
<1>5. A \o B \in Seq(ChainLayers) /\ Members(A \o B) = Members(A) \cup Members(B)
  BY <1>1, <1>2, MembersConcat
<1> DEFINE D == A \o B
<1>6. D \in Seq(ChainLayers) /\ Members(D) = Members(A) \cup Members(B) /\ DefaultStack(ts) = D \o C
  BY <1>4, <1>5
<1> HIDE DEF D
<1>7. D \o C \in Seq(ChainLayers) /\ Members(D \o C) = Members(D) \cup Members(C)
  BY <1>3, <1>6, MembersConcat
<1> QED
  BY <1>1, <1>2, <1>3, <1>6, <1>7

\* ... of the security profile ...
LEMMA SecurityLayersMembers ==
  /\ SecurityLayers \in Seq(ChainLayers)
  /\ Members(SecurityLayers) = {"Headers", "BodyLimit"} \cup (IF SecurityProfile = "strict" THEN {"OriginCheck"} ELSE {})
<1> DEFINE A == <<"Headers", "BodyLimit">>
           B == IF SecurityProfile = "strict" THEN <<"OriginCheck">> ELSE <<>>
<1>1. A \in Seq(ChainLayers) /\ Members(A) = {"Headers", "BodyLimit"}
  BY MembersTwo DEF ChainLayers
<1>2. B \in Seq(ChainLayers) /\ Members(B) = IF SecurityProfile = "strict" THEN {"OriginCheck"} ELSE {}
  BY MembersOne, MembersEmpty DEF ChainLayers
<1>3. SecurityLayers = A \o B
  BY DEF SecurityLayers
<1> HIDE DEF A, B
<1> QED
  BY <1>1, <1>2, <1>3, MembersConcat

\* ... and of the whole chain; instrumentation is outermost.
LEMMA BuildMiddlewareMembers ==
  ASSUME NEW ts, extra \in Seq(ChainLayers)
  PROVE  /\ BuildMiddleware(ts) \in Seq(ChainLayers)
         /\ Members(BuildMiddleware(ts)) =
              (IF provider = "up" THEN {"Otel"} ELSE {}) \cup Members(DefaultStack(ts))
              \cup Members(extra) \cup (IF in.metrics = "ok" THEN {"Collector"} ELSE {})
         /\ provider = "up" => Len(BuildMiddleware(ts)) > 0 /\ BuildMiddleware(ts)[1] = "Otel"
<1> DEFINE A == IF provider = "up" THEN <<"Otel">> ELSE <<>>
           B == DefaultStack(ts)
           C == IF in.metrics = "ok" THEN <<"Collector">> ELSE <<>>
<1>1. A \in Seq(ChainLayers) /\ Members(A) = IF provider = "up" THEN {"Otel"} ELSE {}
  BY MembersOne, MembersEmpty DEF ChainLayers
<1>2. B \in Seq(ChainLayers)
  BY DefaultStackMembers
<1>3. C \in Seq(ChainLayers) /\ Members(C) = IF in.metrics = "ok" THEN {"Collector"} ELSE {}
  BY MembersOne, MembersEmpty DEF ChainLayers
<1>4. BuildMiddleware(ts) = ((A \o B) \o extra) \o C
  BY DEF BuildMiddleware
<1>5. provider = "up" => Len(A) = 1 /\ A[1] = "Otel"
  OBVIOUS
<1> HIDE DEF A, B, C
<1>6. A \o B \in Seq(ChainLayers) /\ Members(A \o B) = Members(A) \cup Members(B)
  BY <1>1, <1>2, MembersConcat
<1> DEFINE D == A \o B
<1>7. D \in Seq(ChainLayers) /\ Members(D) = Members(A) \cup Members(B)
  BY <1>6
<1>8. provider = "up" => Len(D) > 0 /\ D[1] = "Otel"
  BY <1>1, <1>2, <1>5
<1> HIDE DEF D
<1>9. D \o extra \in Seq(ChainLayers) /\ Members(D \o extra) = Members(D) \cup Members(extra)
  BY <1>7, MembersConcat
<1> DEFINE E == D \o extra
<1>10. E \in Seq(ChainLayers) /\ Members(E) = Members(D) \cup Members(extra)
  BY <1>9
<1>11. provider = "up" => Len(E) > 0 /\ E[1] = "Otel"
  BY <1>7, <1>8
<1>12. BuildMiddleware(ts) = E \o C
  BY <1>4 DEF D, E
<1> HIDE DEF E
<1>13. E \o C \in Seq(ChainLayers) /\ Members(E \o C) = Members(E) \cup Members(C)
  BY <1>3, <1>10, MembersConcat
<1>14. provider = "up" => Len(E \o C) > 0 /\ (E \o C)[1] = "Otel"
  BY <1>3, <1>10, <1>11
<1> QED
  BY <1>1, <1>3, <1>7, <1>10, <1>12, <1>13, <1>14 DEF B

-----------------------------------------------------------------------------
(* BootInv is inductive for preset.New *)

\* No step of New is taken for a server of the application's own.
LEMMA OnlyPreset ==
  ASSUME BootInv, BootStep
  PROVE  /\ in.server # "custom" /\ in' = in
         /\ ProviderState /\ LegState /\ ExporterState /\ ExtraState /\ StackState /\ TimeoutState
<1>1. boot # "built" /\ in' = in
  BY DEF BootStep, Resolve, WireSpans, WireMetrics, BuildProvider, Flush, ApplySecurity, NewService,
         MountHealth, MountSurfaces
<1> QED
  BY <1>1 DEF BootInv, BootState

LEMMA ResolveInv ==
  ASSUME BootInv, Resolve
  PROVE  BootInv'
<1>0. /\ in.server # "custom" /\ in' = in
      /\ ProviderState /\ LegState /\ ExporterState /\ ExtraState /\ StackState /\ TimeoutState
  BY OnlyPreset DEF BootStep
<1>1. /\ boot = "resolve" /\ boot' \in {"rejected", "spans", "security"}
      /\ boot' = "spans" => LegOn("otel")
      /\ boot' = "security" => ~LegOn("otel")
      /\ boot' # "rejected" => leg' = [l \in Legs |-> LegOn(l)] /\ profile' = ResolvedProfile /\ ~BadSwitch
      /\ UNCHANGED <<span, reader, provider, extra, stack, timeout, mounts>>
  BY DEF Resolve
<1>2. provider = "none" /\ extra = <<>>
  BY <1>0, <1>1 DEF ProviderState, StackState
<1>3. ProviderState' /\ StackState' /\ ExtraState'
  BY <1>0, <1>1, <1>2 DEF ProviderState, StackState, ExtraState, Building
<1>4. LegState'
  BY <1>0, <1>1, <1>2 DEF LegState, Building, LegOn, AbsentValue, ResolvedProfile, BadSwitch
<1>5. ExporterState'
  BY <1>0, <1>1 DEF ExporterState, LegOn, AbsentValue, Building
<1>6. TimeoutState'
  BY <1>0, <1>1 DEF TimeoutState
<1> QED
  BY <1>0, <1>3, <1>4, <1>5, <1>6 DEF BootInv, BootState

\* Wiring an exporter: only a signal that wants OTLP and has no exporter of its
\* own gets it.
LEMMA WireInv ==
  ASSUME BootInv, WireSpans \/ WireMetrics
  PROVE  BootInv'
<1>0. /\ in.server # "custom" /\ in' = in
      /\ ProviderState /\ LegState /\ ExporterState /\ ExtraState /\ StackState /\ TimeoutState
  BY OnlyPreset DEF BootStep
<1>1. /\ boot \in {"spans", "metrics"} /\ boot' \in {"metrics", "provider", "failed"}
      /\ UNCHANGED <<leg, profile, provider, extra, stack, timeout, mounts>>
  BY DEF WireSpans, WireMetrics
<1>2. provider = "none" /\ extra = <<>> /\ LegOn("otel")
  BY <1>0, <1>1 DEF ProviderState, LegState, StackState
<1>3. ProviderState' /\ StackState' /\ ExtraState'
  BY <1>0, <1>1, <1>2 DEF ProviderState, StackState, ExtraState, Building
<1>4. LegState'
  BY <1>0, <1>1, <1>2 DEF LegState, Building, LegOn, AbsentValue, ResolvedProfile, BadSwitch
<1>5. ExporterState'
  <2>1. /\ SpanChoice' = SpanChoice /\ ReaderChoice' = ReaderChoice
        /\ LegOn("otel")' = LegOn("otel")
    BY <1>0 DEF SpanChoice, ReaderChoice, CodeSpan, CodeReader, Wanted, LegOn, AbsentValue
  <2>2. CASE WireSpans
    <3>1. boot' \in {"metrics", "failed"} /\ (boot' = "metrics" => span' = SpanChoice) /\ reader' = reader
      BY <2>2 DEF WireSpans, SpanChoice
    <3>2. reader = "none"
      BY <1>0, <2>2 DEF WireSpans, ExporterState
    <3> QED
      BY <2>1, <3>1, <3>2 DEF ExporterState, Building
  <2>3. CASE WireMetrics
    <3>1. boot' \in {"provider", "failed"} /\ (boot' = "provider" => reader' = ReaderChoice) /\ span' = span
      BY <2>3 DEF WireMetrics, ReaderChoice
    <3>2. span = SpanChoice
      BY <1>0, <2>3 DEF WireMetrics, ExporterState
    <3> QED
      BY <2>1, <3>1, <3>2 DEF ExporterState, Building
  <2> QED
    BY <2>2, <2>3
<1>6. TimeoutState'
  BY <1>0, <1>1 DEF TimeoutState
<1> QED
  BY <1>0, <1>3, <1>4, <1>5, <1>6 DEF BootInv, BootState

LEMMA BuildProviderInv ==
  ASSUME BootInv, BuildProvider
  PROVE  BootInv'
<1>0. /\ in.server # "custom" /\ in' = in
      /\ ProviderState /\ LegState /\ ExporterState /\ ExtraState /\ StackState /\ TimeoutState
  BY OnlyPreset DEF BootStep
<1>1. /\ boot = "provider"
      /\ (boot' = "failed" /\ provider' = provider) \/ (boot' = "security" /\ provider' = "up")
      /\ UNCHANGED <<leg, profile, span, reader, extra, stack, timeout, mounts>>
  BY DEF BuildProvider
<1>2. provider = "none" /\ extra = <<>> /\ LegOn("otel")
  BY <1>0, <1>1 DEF ProviderState, LegState, StackState
<1>3. ProviderState' /\ StackState' /\ ExtraState'
  BY <1>0, <1>1, <1>2 DEF ProviderState, StackState, ExtraState, Building
<1>4. LegState'
  BY <1>0, <1>1, <1>2 DEF LegState, Building, LegOn, AbsentValue, ResolvedProfile, BadSwitch
<1>5. ExporterState'
  <2>1. /\ SpanChoice' = SpanChoice /\ ReaderChoice' = ReaderChoice
        /\ LegOn("otel")' = LegOn("otel")
    BY <1>0 DEF SpanChoice, ReaderChoice, CodeSpan, CodeReader, Wanted, LegOn, AbsentValue
  <2> QED
    BY <1>0, <1>1, <1>2, <2>1 DEF ExporterState, Building
<1>6. TimeoutState'
  BY <1>0, <1>1, <1>2 DEF TimeoutState
<1> QED
  BY <1>0, <1>3, <1>4, <1>5, <1>6 DEF BootInv, BootState

LEMMA FlushInv ==
  ASSUME BootInv, Flush
  PROVE  BootInv'
<1>0. /\ in.server # "custom" /\ in' = in
      /\ ProviderState /\ LegState /\ ExporterState /\ ExtraState /\ StackState /\ TimeoutState
  BY OnlyPreset DEF BootStep
<1>1. /\ boot = "flush" /\ provider' = ShutdownStep[provider]
      /\ boot' = IF provider' = "down" THEN "failed" ELSE "flush"
      /\ UNCHANGED <<leg, profile, span, reader, extra, stack, timeout, mounts>>
  BY DEF Flush
<1>2. provider \in {"up", "spansFlushed", "tracerDown", "metricsFlushed"}
  BY <1>0, <1>1 DEF ProviderState
<1>3. provider' \in {"spansFlushed", "tracerDown", "metricsFlushed", "down"}
  BY <1>1, <1>2 DEF ShutdownStep
<1>4. ProviderState' /\ StackState' /\ ExtraState'
  BY <1>1, <1>3 DEF ProviderState, StackState, ExtraState, Building
<1>5. LegState'
  BY <1>0, <1>1 DEF LegState, Building, LegOn, AbsentValue, ResolvedProfile, BadSwitch
<1>6. ExporterState'
  <2>1. /\ SpanChoice' = SpanChoice /\ ReaderChoice' = ReaderChoice
        /\ LegOn("otel")' = LegOn("otel")
    BY <1>0 DEF SpanChoice, ReaderChoice, CodeSpan, CodeReader, Wanted, LegOn, AbsentValue
  <2> QED
    BY <1>0, <1>1, <2>1 DEF ExporterState, Building
<1>7. TimeoutState'
  BY <1>0, <1>1 DEF TimeoutState
<1> QED
  BY <1>0, <1>4, <1>5, <1>6, <1>7 DEF BootInv, BootState

LEMMA ApplySecurityInv ==
  ASSUME BootInv, ApplySecurity
  PROVE  BootInv'
<1>0. /\ in.server # "custom" /\ in' = in
      /\ ProviderState /\ LegState /\ ExporterState /\ ExtraState /\ StackState /\ TimeoutState
  BY OnlyPreset DEF BootStep
<1>1. /\ boot = "security"
      /\ UNCHANGED <<leg, profile, span, reader, provider, stack, timeout, mounts>>
  BY DEF ApplySecurity
<1>2. \/ boot' = "service" /\ profile = "none" /\ extra' = extra
      \/ /\ boot' = "service" /\ profile # "none" /\ extra' = SecurityLayers
         /\ ~(SecurityProfile = "strict" /\ in.sec.origins = {})
      \/ boot' = (IF provider = "none" THEN "failed" ELSE "flush") /\ extra' = extra
  BY DEF ApplySecurity, SecurityLayers, BootFail
<1>3. provider \in {"none", "up"} /\ extra = <<>>
  BY <1>0, <1>1 DEF ProviderState, StackState, Building
<1>4. ProviderState' /\ StackState'
  BY <1>0, <1>1, <1>2, <1>3 DEF ProviderState, StackState, Building
<1>5. ExtraState'
  <2>1. SecurityLayers' = SecurityLayers /\ SecurityProfile' = SecurityProfile
    BY <1>0 DEF SecurityLayers, SecurityProfile
  <2> QED
    BY <1>0, <1>1, <1>2, <1>3, <2>1 DEF ExtraState
<1>6. LegState'
  BY <1>0, <1>1, <1>2 DEF LegState, Building, LegOn, AbsentValue, ResolvedProfile, BadSwitch
<1>7. ExporterState'
  <2>1. /\ SpanChoice' = SpanChoice /\ ReaderChoice' = ReaderChoice
        /\ LegOn("otel")' = LegOn("otel")
    BY <1>0 DEF SpanChoice, ReaderChoice, CodeSpan, CodeReader, Wanted, LegOn, AbsentValue
  <2> QED
    BY <1>0, <1>1, <1>2, <2>1 DEF ExporterState, Building
<1>8. TimeoutState'
  BY <1>0, <1>1, <1>2 DEF TimeoutState
<1> QED
  BY <1>0, <1>4, <1>5, <1>6, <1>7, <1>8 DEF BootInv, BootState

LEMMA NewServiceInv ==
  ASSUME BootInv, NewService
  PROVE  BootInv'
<1>0. /\ in.server # "custom" /\ in' = in
      /\ ProviderState /\ LegState /\ ExporterState /\ ExtraState /\ StackState /\ TimeoutState
  BY OnlyPreset DEF BootStep
<1>1. /\ boot = "service" /\ timeout' = ApplyDefaults(timeout)
      /\ UNCHANGED <<leg, profile, span, reader, provider, extra, mounts>>
      /\ \/ stack' = BuildMiddleware(timeout') /\ boot' = "mount" /\ Validate(timeout')
         \/ boot' = IF provider = "none" THEN "failed" ELSE "flush"
  BY DEF NewService, BootFail
<1>2. timeout' = ApplyDefaults(in.timeouts)
  BY <1>0, <1>1 DEF TimeoutState
<1>3. provider \in {"none", "up"}
  BY <1>0, <1>1 DEF ProviderState, Building
<1>4. ProviderState'
  BY <1>0, <1>1, <1>3 DEF ProviderState, Building
<1>5. StackState'
  <2>1. boot' = "mount" => stack' = BuildMiddleware(timeout)'
    BY <1>0, <1>1, <1>3 DEF BuildMiddleware, DefaultStack
  <2> QED
    BY <1>0, <1>1, <1>2, <1>3, <2>1 DEF StackState
<1>6. ExtraState'
  <2>1. SecurityLayers' = SecurityLayers /\ SecurityProfile' = SecurityProfile
    BY <1>0 DEF SecurityLayers, SecurityProfile
  <2> QED
    BY <1>0, <1>1, <2>1 DEF ExtraState
<1>7. LegState'
  BY <1>0, <1>1 DEF LegState, Building, LegOn, AbsentValue, ResolvedProfile, BadSwitch
<1>8. ExporterState'
  <2>1. /\ SpanChoice' = SpanChoice /\ ReaderChoice' = ReaderChoice
        /\ LegOn("otel")' = LegOn("otel")
    BY <1>0 DEF SpanChoice, ReaderChoice, CodeSpan, CodeReader, Wanted, LegOn, AbsentValue
  <2> QED
    BY <1>0, <1>1, <1>2, <2>1 DEF ExporterState, Building
<1>9. TimeoutState'
  BY <1>0, <1>1, <1>2 DEF TimeoutState, Validate, InvalidTimeout
<1> QED
  BY <1>0, <1>4, <1>5, <1>6, <1>7, <1>8, <1>9 DEF BootInv, BootState

LEMMA MountInv ==
  ASSUME BootInv, MountHealth \/ MountSurfaces
  PROVE  BootInv'
<1>0. /\ in.server # "custom" /\ in' = in
      /\ ProviderState /\ LegState /\ ExporterState /\ ExtraState /\ StackState /\ TimeoutState
  BY OnlyPreset DEF BootStep
<1>1. /\ boot \in {"mount", "surfaces"}
      /\ \/ boot' = "surfaces" /\ mounts' = {"health"}
         \/ boot' = IF provider = "none" THEN "failed" ELSE "flush"
         \/ boot = "surfaces" /\ boot' \in {"panicked", "built"}
            /\ mounts' = mounts \cup {l \in {"pages", "realtime"} : leg[l]}
      /\ UNCHANGED <<leg, profile, span, reader, provider, extra, stack, timeout>>
  BY DEF MountHealth, MountSurfaces, BootFail
<1>2. provider \in {"none", "up"}
  BY <1>0, <1>1 DEF ProviderState, Building
<1>3. ProviderState'
  BY <1>0, <1>1, <1>2 DEF ProviderState, Building
<1>4. StackState'
  <2>1. BuildMiddleware(timeout)' = BuildMiddleware(timeout)
    BY <1>0, <1>1 DEF BuildMiddleware, DefaultStack
  <2> QED
    BY <1>0, <1>1, <1>2, <2>1 DEF StackState
<1>5. ExtraState'
  <2>1. SecurityLayers' = SecurityLayers /\ SecurityProfile' = SecurityProfile
    BY <1>0 DEF SecurityLayers, SecurityProfile
  <2> QED
    BY <1>0, <1>1, <2>1 DEF ExtraState
<1>6. LegState'
  BY <1>0, <1>1 DEF LegState, Building, LegOn, AbsentValue, ResolvedProfile, BadSwitch
<1>7. ExporterState'
  <2>1. /\ SpanChoice' = SpanChoice /\ ReaderChoice' = ReaderChoice
        /\ LegOn("otel")' = LegOn("otel")
    BY <1>0 DEF SpanChoice, ReaderChoice, CodeSpan, CodeReader, Wanted, LegOn, AbsentValue
  <2> QED
    BY <1>0, <1>1, <2>1 DEF ExporterState, Building
<1>8. TimeoutState'
  BY <1>0, <1>1 DEF TimeoutState
<1> QED
  BY <1>0, <1>3, <1>4, <1>5, <1>6, <1>7, <1>8 DEF BootInv, BootState

LEMMA BootFrame ==
  ASSUME BootInv, UNCHANGED bootVars
  PROVE  BootInv'
<1>1. UNCHANGED <<in, boot, leg, profile, span, reader, provider, extra, stack, timeout, mounts>>
  BY DEF bootVars
<1>2. ProviderState' = ProviderState
  BY <1>1 DEF ProviderState, Building
<1>3. LegState' = LegState
  BY <1>1 DEF LegState, Building, LegOn, AbsentValue, ResolvedProfile, BadSwitch
<1>4. ExporterState' = ExporterState
  BY <1>1 DEF ExporterState, Building, SpanChoice, ReaderChoice, CodeSpan, CodeReader, Wanted, LegOn, AbsentValue
<1>5. ExtraState' = ExtraState
  BY <1>1 DEF ExtraState, SecurityLayers, SecurityProfile
<1>6. StackState' = StackState
  BY <1>1 DEF StackState, BuildMiddleware, DefaultStack
<1>7. TimeoutState' = TimeoutState
  BY <1>1 DEF TimeoutState, Validate, InvalidTimeout
<1> QED
  BY <1>1, <1>2, <1>3, <1>4, <1>5, <1>6, <1>7 DEF BootInv, BootState

LEMMA BootStepInv ==
  ASSUME BootInv, BootStep
  PROVE  BootInv'
BY ResolveInv, WireInv, BuildProviderInv, FlushInv, ApplySecurityInv, NewServiceInv, MountInv DEF BootStep

LEMMA BootInitInv ==
  ASSUME BootInit
  PROVE  BootInv
BY DEF BootInit, BootInv, BootState, ProviderState, LegState, ExporterState, ExtraState, StackState, Building,
       TimeoutState

\* What a finished service of the preset is made of.
LEMMA BuiltStack ==
  ASSUME BootInv, boot = "built", in.server # "custom"
  PROVE  /\ stack \in Seq(ChainLayers)
         /\ Layers = Members(stack)
         /\ "Otel" \in Layers <=> LegOn("otel")
         /\ "Otel" \in Layers => Len(stack) > 0 /\ stack[1] = "Otel"
         /\ "Timeout" \in Layers <=> timeout.write # NoTimeout
         /\ "Recovery" \in Layers
         /\ profile = "none" => {"Headers", "BodyLimit", "OriginCheck"} \cap Layers = {}
         /\ profile # "none" =>
              /\ {"Headers", "BodyLimit"} \subseteq Layers
              /\ "OriginCheck" \in Layers <=> SecurityProfile = "strict"
              /\ SecurityProfile = "strict" => in.sec.origins # {}
<1>1. LegState /\ ExtraState /\ StackState
  BY DEF BootInv, BootState
<1>2. /\ extra \in Seq(ChainLayers)
      /\ profile = "none" => Members(extra) = {}
      /\ profile # "none" =>
           Members(extra) = {"Headers", "BodyLimit"} \cup (IF SecurityProfile = "strict" THEN {"OriginCheck"} ELSE {})
  BY <1>1, SecurityLayersMembers, MembersEmpty DEF ExtraState
<1>3. stack = BuildMiddleware(timeout)
  BY <1>1 DEF StackState
<1>4. /\ stack \in Seq(ChainLayers)
      /\ Members(stack) =
           (IF provider = "up" THEN {"Otel"} ELSE {}) \cup Members(DefaultStack(timeout))
           \cup Members(extra) \cup (IF in.metrics = "ok" THEN {"Collector"} ELSE {})
      /\ provider = "up" => Len(stack) > 0 /\ stack[1] = "Otel"
  BY <1>2, <1>3, BuildMiddlewareMembers
<1>5. Members(DefaultStack(timeout)) =
        {"ServerTiming", "Recovery", "RequestID", "Logging", "SecurityHeaders"}
        \cup (IF timeout.write = NoTimeout THEN {} ELSE {"Timeout"})
  BY DefaultStackMembers
<1>6. provider = "up" <=> LegOn("otel")
  BY <1>1 DEF LegState, Building
<1>7. Layers = Members(stack)
  BY DEF Layers, Members
<1>8. /\ "Otel" \in Layers <=> provider = "up"
      /\ "Timeout" \in Layers <=> timeout.write # NoTimeout
      /\ "Recovery" \in Layers
  BY <1>2, <1>4, <1>5, <1>7
<1>9. /\ "OriginCheck" \in Layers <=> "OriginCheck" \in Members(extra)
      /\ "BodyLimit" \in Layers <=> "BodyLimit" \in Members(extra)
      /\ "Headers" \in Layers <=> "Headers" \in Members(extra)
  BY <1>4, <1>5, <1>7
<1>10. profile # "none" /\ SecurityProfile = "strict" => in.sec.origins # {}
  BY <1>1 DEF ExtraState
<1> QED
  BY <1>2, <1>4, <1>6, <1>7, <1>8, <1>9, <1>10

-----------------------------------------------------------------------------
(* PathInv is inductive for a request *)

\* Entering the next layer of the chain.
LEMMA PassChain ==
  ASSUME todo \in Seq(ChainLayers \cup RouteLayers), ChainPhase(todo), Head(todo) # "Mux", todo' = Tail(todo)
  PROVE  /\ ChainPhase(todo') /\ todo' \in Seq(ChainLayers \cup RouteLayers)
         /\ \A x \in Members(todo) : x # Head(todo) => x \in Members(todo')
<1> DEFINE A == ChainLayers \cup RouteLayers
           n == Len(todo)
<1>1. n \in Nat /\ n > 0 /\ todo # <<>> /\ Head(todo) = todo[1] /\ DOMAIN todo = 1..n
  BY DEF ChainPhase
<1>2. n > 1
  BY <1>1 DEF ChainPhase
<1>3. /\ todo' \in Seq(A) /\ Len(todo') = n - 1 /\ DOMAIN todo' = 1..n - 1
      /\ \A i \in 1..n - 1 : todo'[i] = todo[i + 1]
  BY <1>1
<1> HIDE DEF n
<1>4. ChainPhase(todo')
  <2>1. Len(todo') > 0 /\ todo'[Len(todo')] = "Mux"
    BY <1>1, <1>2, <1>3 DEF ChainPhase, n
  <2>2. ASSUME NEW i \in 1..Len(todo') - 1
        PROVE  todo'[i] \in ChainLayers
    <3>1. i + 1 \in 1..n - 1 /\ i \in 1..n - 1
      BY <1>1, <1>3
    <3> QED
      BY <1>3, <3>1 DEF ChainPhase, n
  <2> QED
    BY <2>1, <2>2 DEF ChainPhase
<1>5. ASSUME NEW x \in Members(todo), x # Head(todo)
      PROVE  x \in Members(todo')
  <2>1. PICK i \in 1..n : x = todo[i]
    BY <1>1 DEF Members
  <2>2. i # 1
    BY <1>1, <1>5, <2>1
  <2>3. i - 1 \in 1..n - 1 /\ (i - 1) + 1 = i
    BY <1>1, <2>2
  <2>4. todo'[i - 1] = x
    BY <1>3, <2>1, <2>3
  <2> QED
    BY <1>3, <2>3, <2>4 DEF Members
<1> QED
  BY <1>3, <1>4, <1>5

\* Passing a guard.
LEMMA PassGuard ==
  ASSUME todo \in Seq(ChainLayers \cup RouteLayers), GuardPhase(todo), Len(todo) > 1, todo' = Tail(todo)
  PROVE  /\ GuardPhase(todo') /\ todo' \in Seq(ChainLayers \cup RouteLayers)
         /\ Len(todo') = Len(todo) - 1
<1> DEFINE A == ChainLayers \cup RouteLayers
           n == Len(todo)
<1>1. n \in 2..4 /\ todo # <<>>
  BY DEF GuardPhase
<1>2. /\ todo' \in Seq(A) /\ Len(todo') = n - 1
      /\ \A i \in 1..n - 1 : todo'[i] = todo[i + 1]
  BY <1>1
<1> HIDE DEF n
<1>3. ASSUME NEW i \in 1..Len(todo')
      PROVE  todo'[i] = Guards[4 - Len(todo') + i]
  <2>1. i + 1 \in 1..n /\ 4 - n + (i + 1) = 4 - Len(todo') + i /\ i \in 1..n - 1
    BY <1>1, <1>2
  <2>2. todo[i + 1] = Guards[4 - n + (i + 1)]
    BY <2>1 DEF GuardPhase, n
  <2> QED
    BY <1>2, <2>1, <2>2
<1> QED
  BY <1>1, <1>2, <1>3 DEF GuardPhase, n

\* The guards in their order.
LEMMA GuardOrder ==
  \A n \in 1..4 : /\ Guards[n] = "RateLimit" <=> n = 1
                  /\ Guards[n] = "CSRF" <=> n = 2
                  /\ Guards[n] = "APIKeyAuth" <=> n = 3
                  /\ Guards[n] = "Handler" <=> n = 4
                  /\ Guards[n] \in {"RateLimit", "CSRF", "APIKeyAuth", "Handler"}
<1> SUFFICES ASSUME NEW n \in 1..4
             PROVE  /\ Guards[n] = "RateLimit" <=> n = 1
                    /\ Guards[n] = "CSRF" <=> n = 2
                    /\ Guards[n] = "APIKeyAuth" <=> n = 3
                    /\ Guards[n] = "Handler" <=> n = 4
                    /\ Guards[n] \in {"RateLimit", "CSRF", "APIKeyAuth", "Handler"}
  OBVIOUS
<1>1. n = 1 \/ n = 2 \/ n = 3 \/ n = 4
  OBVIOUS
<1> QED
  BY <1>1 DEF Guards

\* A request is in front of the mux or behind it.
LEMMA PhasesDisjoint ==
  ASSUME NEW t \in Seq(ChainLayers \cup RouteLayers)
  PROVE  /\ ~(ChainPhase(t) /\ GuardPhase(t))
         /\ ChainPhase(t) \/ GuardPhase(t) => t # <<"Wrap">>
<1>1. GuardPhase(t) => Len(t) \in 1..Len(t) /\ 4 - Len(t) + Len(t) = 4
  BY DEF GuardPhase
<1>2. GuardPhase(t) => t[Len(t)] = "Handler"
  BY <1>1 DEF GuardPhase, Guards
<1>3. ChainPhase(t) => t[Len(t)] = "Mux"
  BY DEF ChainPhase
<1>4. t = <<"Wrap">> => t[Len(t)] = "Wrap"
  OBVIOUS
<1> QED
  BY <1>2, <1>3, <1>4

\* The phase tells which layers a request may be in.
LEMMA PhaseOf ==
  ASSUME Position
  PROVE  /\ todo # <<>> => req # NoRequest /\ fn = NotRun /\ boot = "built"
         /\ todo # <<>> => ChainPhase(todo) \/ GuardPhase(todo) \/ todo = <<"Wrap">>
         /\ ~(ChainPhase(todo) /\ GuardPhase(todo))
         /\ ChainPhase(todo) \/ GuardPhase(todo) => todo # <<>>
         /\ ChainPhase(todo) => Head(todo) \in ChainLayers \cup {"Mux"}
         /\ ChainPhase(todo) /\ Head(todo) = "Mux" => Members(todo) = {"Mux"}
         /\ GuardPhase(todo) => /\ Len(todo) \in 1..4
                                /\ Head(todo) = Guards[5 - Len(todo)]
                                /\ Head(todo) \in {"RateLimit", "CSRF", "APIKeyAuth", "Handler"}
<1>1. todo \in Seq(ChainLayers \cup RouteLayers) /\ Len(todo) \in Nat /\ DOMAIN todo = 1..Len(todo)
  BY DEF Position
<1>2. todo # <<>> => Head(todo) = todo[1]
  BY <1>1
<1>3. ChainPhase(todo) \/ GuardPhase(todo) => todo # <<>>
  BY <1>1 DEF ChainPhase, GuardPhase
<1>4. ~(ChainPhase(todo) /\ GuardPhase(todo))
  BY <1>1, PhasesDisjoint
<1>5. ChainPhase(todo) => Head(todo) \in ChainLayers \cup {"Mux"}
  BY <1>1, <1>2, <1>3 DEF ChainPhase
<1>6. ChainPhase(todo) /\ Head(todo) = "Mux" => Members(todo) = {"Mux"}
  <2> SUFFICES ASSUME ChainPhase(todo), Head(todo) = "Mux" PROVE Members(todo) = {"Mux"}
    OBVIOUS
  <2>1. "Mux" \notin ChainLayers
    BY DEF ChainLayers
  <2>2. Len(todo) = 1
    BY <1>1, <1>2, <1>3, <2>1 DEF ChainPhase
  <2> QED
    BY <1>1, <1>2, <1>3, <2>2 DEF Members
<1>7. GuardPhase(todo) => Head(todo) = Guards[5 - Len(todo)]
  <2> SUFFICES ASSUME GuardPhase(todo) PROVE Head(todo) = Guards[5 - Len(todo)]
    OBVIOUS
  <2>1. 1 \in 1..Len(todo) /\ 4 - Len(todo) + 1 = 5 - Len(todo)
    BY <1>1 DEF GuardPhase
  <2> QED
    BY <1>2, <1>3, <2>1 DEF GuardPhase
<1>8. GuardPhase(todo) => Len(todo) \in 1..4 /\ Head(todo) \in {"RateLimit", "CSRF", "APIKeyAuth", "Handler"}
  <2> SUFFICES ASSUME GuardPhase(todo)
               PROVE  Len(todo) \in 1..4 /\ Head(todo) \in {"RateLimit", "CSRF", "APIKeyAuth", "Handler"}
    OBVIOUS
  <2>1. Len(todo) \in 1..4
    BY DEF GuardPhase
  <2>2. \A k \in 1..4 : 5 - k \in 1..4
    OBVIOUS
  <2> QED
    BY <1>7, <2>1, <2>2, GuardOrder
<1> QED
  BY <1>3, <1>4, <1>5, <1>6, <1>7, <1>8 DEF Position

\* A request past the instrumentation keeps its span whatever happens next.
LEMMA TracedFrame ==
  ASSUME TracedFirst, ~In("Otel"), UNCHANGED <<req, traced, bootVars>>
  PROVE  TracedFirst'
BY DEF TracedFirst, Layers, bootVars

\* An answer ends the way through the layers without the function.
LEMMA RefusedInv ==
  ASSUME PathInv, todo # <<>>, ~In("Otel"), todo' = <<>>, UNCHANGED <<req, fn, traced, bootVars>>
  PROVE  PathInv'
<1>1. fn = NotRun /\ req # NoRequest /\ boot = "built"
  BY PhaseOf DEF PathInv
<1>2. Position'
  BY <1>1 DEF Position, NotRun, NoRequest, bootVars
<1>3. TracedFirst'
  BY TracedFrame DEF PathInv
<1>4. ~GuardPhase(todo')
  BY DEF GuardPhase
<1>5. Admission'
  BY <1>1, <1>4 DEF Admission, NotRun, NoRequest
<1> QED
  BY <1>2, <1>3, <1>5 DEF PathInv

\* A layer of the chain lets the request pass; the origin check is passed only
\* by an origin that is allowed.
LEMMA PassedChainInv ==
  ASSUME PathInv, ChainPhase(todo), Head(todo) # "Mux", todo' = Tail(todo),
         UNCHANGED <<req, fn, resp, bootVars>>, TracedFirst',
         Strict /\ Head(todo) = "OriginCheck" => OriginOK
  PROVE  PathInv'
<1>1. Position /\ Admission
  BY DEF PathInv
<1>2. /\ ChainPhase(todo') /\ todo' \in Seq(ChainLayers \cup RouteLayers)
      /\ \A x \in Members(todo) : x # Head(todo) => x \in Members(todo')
  BY <1>1, PassChain DEF Position
<1>3. ~GuardPhase(todo') /\ todo # <<>>
  BY <1>1, <1>2, PhasesDisjoint, PhaseOf
<1>4. fn = NotRun /\ req # NoRequest /\ boot = "built"
  BY <1>1, <1>3, PhaseOf
<1>5. Position'
  BY <1>2, <1>4, PhasesDisjoint DEF Position, NotRun, NoRequest, bootVars
<1>6. Admission'
  <2>1. Strict' = Strict /\ OriginOK' = OriginOK
    BY DEF Strict, OriginOK, bootVars
  <2>2. ASSUME Strict
        PROVE  ("OriginCheck" \in Members(todo')) \/ OriginOK
    BY <1>1, <1>2, <1>3, <1>4, <2>2 DEF Admission
  <2> QED
    BY <1>2, <1>3, <1>4, <2>1, <2>2 DEF Admission, NotRun, NoRequest
<1> QED
  BY <1>5, <1>6 DEF PathInv

LEMMA PassThroughInv ==
  ASSUME PathInv, PassThrough, UNCHANGED bootVars
  PROVE  PathInv'
<1>1. /\ todo # <<>> /\ todo' = Tail(todo) /\ UNCHANGED <<req, resp, fn, traced>>
      /\ Head(todo) \in {"ServerTiming", "Recovery", "RequestID", "Logging", "Timeout", "SecurityHeaders",
                         "Headers", "BodyLimit", "Collector"}
  BY DEF PassThrough, In, Pass
<1>2. ChainPhase(todo)
  <2>1. ~GuardPhase(todo)
    BY <1>1, PhaseOf DEF PathInv
  <2>2. todo # <<"Wrap">>
    BY <1>1
  <2> QED
    BY <1>1, <2>1, <2>2, PhaseOf DEF PathInv
<1>3. TracedFirst'
  BY <1>1, TracedFrame DEF PathInv, In
<1> QED
  BY <1>1, <1>2, <1>3, PassedChainInv

LEMMA TraceInv ==
  ASSUME PathInv, Trace, UNCHANGED bootVars
  PROVE  PathInv'
<1>1. /\ todo # <<>> /\ todo' = Tail(todo) /\ UNCHANGED <<req, resp, fn>>
      /\ Head(todo) = "Otel"
      /\ traced' = (req.target # "health" /\ ~in.otel.isolated)
  BY DEF Trace, In
<1>2. ChainPhase(todo)
  <2>1. ~GuardPhase(todo)
    BY <1>1, PhaseOf DEF PathInv
  <2>2. todo # <<"Wrap">>
    BY <1>1
  <2> QED
    BY <1>1, <2>1, <2>2, PhaseOf DEF PathInv
<1>3. TracedFirst'
  BY <1>1 DEF TracedFirst, bootVars
<1> QED
  BY <1>1, <1>2, <1>3, PassedChainInv

LEMMA OriginCheckInv ==
  ASSUME BootInv, PathInv, OriginCheck, UNCHANGED bootVars
  PROVE  PathInv'
<1>1. todo # <<>> /\ Head(todo) = "OriginCheck" /\ ~In("Otel")
  BY DEF OriginCheck, In
<1>2. ChainPhase(todo)
  <2>1. ~GuardPhase(todo)
    BY <1>1, PhaseOf DEF PathInv
  <2>2. todo # <<"Wrap">>
    BY <1>1
  <2> QED
    BY <1>1, <2>1, <2>2, PhaseOf DEF PathInv
<1>3. CASE Refuse(403)
  BY <1>1, <1>3, RefusedInv DEF Refuse
<1>4. CASE /\ Pass
           /\ \/ in.sec.origins = {} \/ "*" \in in.sec.origins
              \/ RequestOrigin = ""
              \/ Lower(RequestOrigin) \in {Lower(o) : o \in in.sec.origins}
              \/ SameOrigin
  <2>1. todo' = Tail(todo) /\ UNCHANGED <<req, resp, fn, traced>>
    BY <1>4 DEF Pass
  <2>2. ASSUME Strict
        PROVE  OriginOK
    <3>1. in.sec.origins # {} /\ "*" \notin in.sec.origins
      <4>1. boot = "built" /\ in.server # "custom"
        BY <1>1, <2>2, PhaseOf DEF PathInv, Strict
      <4>2. profile # "none" /\ SecurityProfile = "strict"
        BY <2>2, <4>1 DEF BootInv, BootState, LegState, ResolvedProfile, SecurityProfile, Strict
      <4> QED
        BY <2>2, <4>1, <4>2, BuiltStack DEF Strict
    <3>2. in.sec.origins \subseteq {"listed", "Listed"}
      BY <3>1, InputsAssumption DEF BootInv
    <3>3. RequestOrigin \in {"", "self", "listed", "Listed"}
      BY <1>4, <3>1, <3>2 DEF Lower, SameOrigin
    <3> QED
      BY <3>3 DEF RequestOrigin, OriginOK
  <2>3. TracedFirst'
    BY <1>1, <2>1, TracedFrame DEF PathInv
  <2> QED
    BY <1>1, <1>2, <2>1, <2>2, <2>3, PassedChainInv
<1> QED
  BY <1>3, <1>4 DEF OriginCheck

\* A guard behind the mux lets the request pass.
LEMMA PassedGuardInv ==
  ASSUME PathInv, GuardPhase(todo), Len(todo) > 1, todo' = Tail(todo),
         UNCHANGED <<req, fn, resp, traced, bootVars>>,
         Len(todo) = 3 => TokenOK, Len(todo) = 2 => KeyOK
  PROVE  PathInv'
<1>1. Position /\ TracedFirst /\ Admission
  BY DEF PathInv
<1>2. /\ GuardPhase(todo') /\ todo' \in Seq(ChainLayers \cup RouteLayers)
      /\ Len(todo') = Len(todo) - 1
  BY <1>1, PassGuard DEF Position
<1>3. /\ todo # <<>> /\ fn = NotRun /\ req # NoRequest /\ boot = "built" /\ ~In("Otel") /\ ~ChainPhase(todo)
      /\ Len(todo) \in 1..4
  BY <1>1, PhaseOf DEF In
<1>4. Position'
  BY <1>2, <1>3, PhasesDisjoint DEF Position, NotRun, NoRequest, bootVars
<1>5. TracedFirst'
  BY <1>1, <1>3, TracedFrame
<1>6. Admission'
  <2>1. /\ Strict' = Strict /\ OriginOK' = OriginOK /\ KeyOK' = KeyOK /\ TokenOK' = TokenOK
    BY DEF Strict, OriginOK, KeyOK, TokenOK, bootVars
  <2>2. Strict => OriginOK
    BY <1>1, <1>3 DEF Admission
  <2>3. Len(todo') <= 2 => TokenOK
    BY <1>1, <1>2, <1>3 DEF Admission
  <2>4. Len(todo') <= 1 => KeyOK
    BY <1>1, <1>2, <1>3 DEF Admission
  <2> QED
    BY <1>2, <1>3, <2>1, <2>2, <2>3, <2>4 DEF Admission, NotRun, NoRequest
<1> QED
  BY <1>4, <1>5, <1>6 DEF PathInv

\* The guard a request is in tells its place.
LEMMA GuardAt ==
  ASSUME PathInv
  PROVE  /\ In("RateLimit") => GuardPhase(todo) /\ Len(todo) = 4
         /\ In("CSRF") => GuardPhase(todo) /\ Len(todo) = 3
         /\ In("APIKeyAuth") => GuardPhase(todo) /\ Len(todo) = 2
         /\ In("Handler") => GuardPhase(todo) /\ Len(todo) = 1
<1>1. ASSUME todo # <<>>, Head(todo) \in {"RateLimit", "CSRF", "APIKeyAuth", "Handler"}
      PROVE  GuardPhase(todo)
  <2>1. ~ChainPhase(todo)
    BY <1>1, PhaseOf DEF PathInv, ChainLayers
  <2>2. todo # <<"Wrap">>
    BY <1>1
  <2> QED
    BY <1>1, <2>1, <2>2, PhaseOf DEF PathInv
<1>2. ASSUME GuardPhase(todo)
      PROVE  /\ Head(todo) = "RateLimit" => Len(todo) = 4
             /\ Head(todo) = "CSRF" => Len(todo) = 3
             /\ Head(todo) = "APIKeyAuth" => Len(todo) = 2
             /\ Head(todo) = "Handler" => Len(todo) = 1
  <2>1. Len(todo) \in 1..4 /\ Head(todo) = Guards[5 - Len(todo)]
    BY <1>2, PhaseOf DEF PathInv
  <2>2. \A k \in 1..4 : /\ 5 - k \in 1..4
                        /\ 5 - k = 1 => k = 4
                        /\ 5 - k = 2 => k = 3
                        /\ 5 - k = 3 => k = 2
                        /\ 5 - k = 4 => k = 1
    OBVIOUS
  <2> QED
    BY <2>1, <2>2, GuardOrder
<1> QED
  BY <1>1, <1>2 DEF In

LEMMA GuardsInv ==
  ASSUME PathInv, RateLimit \/ CSRF \/ APIKeyAuth, UNCHANGED bootVars
  PROVE  PathInv'
<1>1. CASE RateLimit
  <2>1. GuardPhase(todo) /\ Len(todo) = 4 /\ ~In("Otel") /\ todo # <<>>
    BY <1>1, GuardAt DEF RateLimit, In
  <2>2. Len(todo) > 1 /\ Len(todo) # 3 /\ Len(todo) # 2
    BY <2>1
  <2> QED
    BY <1>1, <2>1, <2>2, RefusedInv, PassedGuardInv DEF RateLimit, Pass, Refuse
<1>2. CASE CSRF
  <2>1. GuardPhase(todo) /\ Len(todo) = 3 /\ ~In("Otel") /\ todo # <<>>
    BY <1>2, GuardAt DEF CSRF, In
  <2>2. CASE Refuse(400)
    BY <2>1, <2>2, RefusedInv DEF Refuse
  <2>3. CASE Pass /\ (req.header # "" \/ CSRFPasses)
    <3>1. TokenOK
      BY <2>3 DEF TokenOK, CSRFPasses
    <3>2. Len(todo) > 1 /\ Len(todo) # 2
      BY <2>1
    <3> QED
      BY <2>1, <2>3, <3>1, <3>2, PassedGuardInv DEF Pass
  <2> QED
    BY <1>2, <2>2, <2>3 DEF CSRF
<1>3. CASE APIKeyAuth
  <2>1. GuardPhase(todo) /\ Len(todo) = 2 /\ ~In("Otel") /\ todo # <<>>
    BY <1>3, GuardAt DEF APIKeyAuth, In
  <2>2. CASE Refuse(401)
    BY <2>1, <2>2, RefusedInv DEF Refuse
  <2>3. CASE Pass /\ (~in.app.key \/ (IF req.header = "" /\ req.safe THEN req.query ELSE req.header) = "right")
    <3>1. KeyOK
      BY <2>3 DEF KeyOK
    <3>2. Len(todo) > 1 /\ Len(todo) # 3
      BY <2>1
    <3> QED
      BY <2>1, <2>3, <3>1, <3>2, PassedGuardInv DEF Pass
  <2> QED
    BY <1>3, <2>2, <2>3 DEF APIKeyAuth
<1> QED
  BY <1>1, <1>2, <1>3

\* The mux or errorpages.Wrap hands the request to the guards of its route.
LEMMA RoutedInv ==
  ASSUME PathInv, In("Mux") \/ In("Wrap"), todo' = Guards, UNCHANGED <<req, fn, resp, traced, bootVars>>
  PROVE  PathInv'
<1>1. Position /\ TracedFirst /\ Admission
  BY DEF PathInv
<1>2. /\ todo # <<>> /\ fn = NotRun /\ req # NoRequest /\ boot = "built" /\ ~In("Otel")
      /\ todo = <<"Wrap">> \/ (ChainPhase(todo) /\ Members(todo) = {"Mux"})
  BY <1>1, PhaseOf DEF In, ChainLayers
<1>3. /\ todo' \in Seq(ChainLayers \cup RouteLayers) /\ Len(todo') = 4 /\ GuardPhase(todo')
  BY DEF Guards, RouteLayers, GuardPhase
<1>4. Position'
  BY <1>2, <1>3, PhasesDisjoint DEF Position, NotRun, NoRequest, bootVars
<1>5. TracedFirst'
  BY <1>1, <1>2, TracedFrame
<1>6. Admission'
  <2>1. Strict' = Strict /\ OriginOK' = OriginOK
    BY DEF Strict, OriginOK, bootVars
  <2>2. Strict => OriginOK
    BY <1>1, <1>2 DEF Admission, Position, Strict
  <2> QED
    BY <1>2, <1>3, <2>1, <2>2 DEF Admission, NotRun, NoRequest
<1> QED
  BY <1>4, <1>5, <1>6 DEF PathInv

LEMMA RouteInv ==
  ASSUME PathInv, Mux \/ Wrap, UNCHANGED bootVars
  PROVE  PathInv'
<1>1. In("Mux") \/ In("Wrap")
  BY DEF Mux, Wrap
<1>2. todo # <<>> /\ ~In("Otel")
  BY <1>1 DEF In
<1>3. \/ todo' = Guards /\ UNCHANGED <<req, resp, fn, traced>>
      \/ todo' = <<>> /\ UNCHANGED <<req, fn, traced>>
  BY DEF Mux, Wrap, Reply
<1> QED
  BY <1>1, <1>2, <1>3, RoutedInv, RefusedInv

\* The function runs behind all guards.
LEMMA HandlerInv ==
  ASSUME PathInv, ResultHandler \/ ResultHandlerWithValidation, UNCHANGED bootVars
  PROVE  PathInv'
<1>1. Position /\ TracedFirst /\ Admission
  BY DEF PathInv
<1>2. In("Handler") /\ todo' = <<>> /\ UNCHANGED <<req, traced>>
  BY DEF ResultHandler, ResultHandlerWithValidation
<1>3. GuardPhase(todo) /\ Len(todo) = 1 /\ ~In("Otel") /\ todo # <<>>
  BY <1>2, GuardAt DEF In
<1>4. req # NoRequest /\ boot = "built" /\ ~ChainPhase(todo)
  BY <1>1, <1>3, PhaseOf
<1>5. Len(todo) <= 1 /\ Len(todo) <= 2
  BY <1>3
<1>6. TokenOK /\ KeyOK /\ (Strict => OriginOK)
  BY <1>1, <1>3, <1>4, <1>5 DEF Admission
<1>7. Position'
  BY <1>2, <1>4 DEF Position, NoRequest, bootVars
<1>8. TracedFirst'
  BY <1>1, <1>2, <1>3, TracedFrame
<1>9. Admission'
  <2>1. Strict' = Strict /\ OriginOK' = OriginOK /\ KeyOK' = KeyOK /\ TokenOK' = TokenOK
    BY <1>2 DEF Strict, OriginOK, KeyOK, TokenOK, bootVars
  <2> QED
    BY <1>2, <1>4, <1>6, <2>1 DEF Admission, NoRequest, GuardPhase
<1> QED
  BY <1>7, <1>8, <1>9 DEF PathInv

\* A request enters at the outermost layer of the chain that was built.
LEMMA ReceiveInv ==
  ASSUME BootInv, PathInv, Receive, UNCHANGED bootVars
  PROVE  PathInv'
<1>1. /\ boot = "built" /\ req = NoRequest /\ req' # NoRequest
      /\ todo' = IF in.server = "custom" THEN <<"Wrap">> ELSE stack \o <<"Mux">>
      /\ UNCHANGED <<resp, fn, traced>>
  BY TrafficAssumption DEF Receive, BootInv
<1>2. fn = NotRun /\ fn' = NotRun /\ boot' = "built" /\ NoRequest' = NoRequest /\ NotRun' = NotRun
  BY <1>1 DEF PathInv, Position, bootVars, NoRequest, NotRun
<1>3. Layers' = Layers /\ Strict' = Strict
  BY DEF Layers, Strict, bootVars
<1>4. CASE in.server = "custom"
  <2>1. todo' = <<"Wrap">> /\ todo' \in Seq(ChainLayers \cup RouteLayers) /\ in'.server = "custom"
    BY <1>1, <1>4 DEF RouteLayers, bootVars
  <2>2. Position'
    BY <1>1, <1>2, <2>1 DEF Position
  <2>3. Layers = {}
    BY <1>4 DEF BootInv, BootState, Layers
  <2>4. TracedFirst'
    BY <1>3, <2>3 DEF TracedFirst
  <2>5. ~GuardPhase(todo')
    BY <2>1, PhasesDisjoint
  <2>6. Admission'
    BY <1>2, <1>3, <1>4, <2>5 DEF Admission, Strict
  <2> QED
    BY <2>2, <2>4, <2>6 DEF PathInv
<1>5. CASE in.server # "custom"
  <2> DEFINE A == ChainLayers \cup RouteLayers
             M == <<"Mux">>
  <2>1. todo' = stack \o M
    BY <1>1, <1>5
  <2>2. stack \in Seq(ChainLayers) /\ Layers = Members(stack)
    BY <1>1, <1>5, BuiltStack
  <2>3. stack \in Seq(A) /\ M \in Seq(A) /\ Len(M) = 1 /\ M[1] = "Mux" /\ Len(stack) \in Nat
    BY <2>2 DEF RouteLayers
  <2> HIDE DEF M, A
  <2>4. /\ todo' \in Seq(A) /\ Len(todo') = Len(stack) + 1
        /\ \A i \in 1..Len(stack) : todo'[i] = stack[i]
        /\ todo'[Len(stack) + 1] = "Mux"
    <3>1. todo' \in Seq(A) /\ Len(todo') = Len(stack) + 1
      <4>1. (stack \o M) \in Seq(A) /\ Len(stack \o M) = Len(stack) + Len(M)
        BY <2>3, ConcatProperties, Zenon
      <4> QED
        BY <2>1, <2>3, <4>1
    <3>2. \A i \in 1..Len(stack) + 1 :
             todo'[i] = IF i <= Len(stack) THEN stack[i] ELSE M[i - Len(stack)]
      <4>1. \A i \in 1..Len(stack) + Len(M) :
               (stack \o M)[i] = IF i <= Len(stack) THEN stack[i] ELSE M[i - Len(stack)]
        BY <2>3, ConcatProperties, Zenon
      <4> QED
        BY <2>1, <2>3, <4>1
    <3>3. \A i \in 1..Len(stack) : todo'[i] = stack[i]
      BY <2>3, <3>2
    <3>4. todo'[Len(stack) + 1] = M[1]
      BY <2>3, <3>2
    <3> QED
      BY <2>3, <3>1, <3>3, <3>4
  <2>5. ChainPhase(todo')
    BY <2>2, <2>3, <2>4 DEF ChainPhase
  <2>6. Members(todo') = Members(stack) \cup Members(M)
    BY <2>1, <2>3, MembersConcat
  <2>7. Position'
    BY <1>1, <1>2, <2>4, <2>5, PhasesDisjoint DEF Position, A
  <2>8. TracedFirst'
    <3>1. "Otel" \in Layers => Len(stack) > 0 /\ stack[1] = "Otel"
      BY <1>1, <1>5, BuiltStack
    <3>2. "Otel" \in Layers => todo' # <<>> /\ Head(todo') = "Otel"
      BY <2>3, <2>4, <3>1
    <3> QED
      BY <1>3, <3>2 DEF TracedFirst, In
  <2>9. Admission'
    <3>1. Strict => "OriginCheck" \in Members(stack)
      <4>1. Strict => profile # "none" /\ SecurityProfile = "strict"
        BY <1>1, <1>5 DEF BootInv, BootState, LegState, ResolvedProfile, SecurityProfile, Strict
      <4> QED
        BY <1>1, <1>5, <2>2, <4>1, BuiltStack
    <3>2. ~GuardPhase(todo')
      BY <2>4, <2>5, PhasesDisjoint DEF A
    <3> QED
      BY <1>2, <1>3, <2>5, <2>6, <3>1, <3>2 DEF Admission
  <2> QED
    BY <2>7, <2>8, <2>9 DEF PathInv
<1> QED
  BY <1>4, <1>5

\* Between requests nothing is kept.
LEMMA ResetInv ==
  ASSUME req' = NoRequest, todo' = <<>>, fn' = NotRun
  PROVE  PathInv'
<1>1. ~GuardPhase(todo')
  BY DEF GuardPhase
<1> QED
  BY <1>1 DEF PathInv, Position, TracedFirst, Admission, NoRequest, NotRun

LEMMA PathFrame ==
  ASSUME PathInv, UNCHANGED pathVars, in' = in, boot = "built" => UNCHANGED bootVars
  PROVE  PathInv'
<1>1. CASE req = NoRequest
  <2>1. req' = NoRequest /\ todo' = <<>> /\ fn' = NotRun
    BY <1>1 DEF PathInv, Position, pathVars
  <2> QED
    BY <2>1, ResetInv
<1>2. CASE req # NoRequest
  <2>1. UNCHANGED <<bootVars, pathVars>> /\ NoRequest' = NoRequest /\ NotRun' = NotRun
    BY <1>2 DEF PathInv, Position, NoRequest, NotRun
  <2>2. /\ req' = req /\ todo' = todo /\ fn' = fn /\ traced' = traced /\ in' = in
        /\ boot' = boot /\ stack' = stack
    BY <2>1 DEF pathVars, bootVars
  <2>3. Position'
    BY <2>1, <2>2 DEF PathInv, Position, ChainPhase, GuardPhase
  <2>4. TracedFirst'
    BY <2>1, <2>2 DEF PathInv, TracedFirst, Layers, In
  <2>5. ChainPhase(todo)' = ChainPhase(todo) /\ GuardPhase(todo)' = GuardPhase(todo)
    BY <2>2 DEF ChainPhase, GuardPhase
  <2>6. /\ Strict' = Strict /\ OriginOK' = OriginOK /\ KeyOK' = KeyOK /\ TokenOK' = TokenOK
    BY <2>2 DEF Strict, OriginOK, KeyOK, TokenOK
  <2>7. Admission'
    BY <2>1, <2>2, <2>5, <2>6 DEF PathInv, Admission
  <2> QED
    BY <2>3, <2>4, <2>7 DEF PathInv
<1> QED
  BY <1>1, <1>2

LEMMA PathStepInv ==
  ASSUME BootInv, PathInv, PathStep, UNCHANGED bootVars
  PROVE  PathInv'
<1>1. CASE Close
  BY <1>1, ResetInv DEF Close
<1> QED
  BY <1>1, ReceiveInv, PassThroughInv, TraceInv, OriginCheckInv, RouteInv, GuardsInv, HandlerInv DEF PathStep

-----------------------------------------------------------------------------
(* IInv is inductive *)

LEMMA InitInv == Init => IInv
<1> SUFFICES ASSUME Init PROVE IInv
  OBVIOUS
<1>1. PathInv
  <2>1. ~GuardPhase(todo)
    BY DEF Init, PathInit, GuardPhase
  <2> QED
    BY <2>1 DEF Init, PathInit, PathInv, Position, TracedFirst, Admission
<1> QED
  BY <1>1, BootInitInv DEF Init, IInv

LEMMA NextInv == IInv /\ [Next]_vars => IInv'
<1> SUFFICES ASSUME IInv, [Next]_vars PROVE IInv'
  OBVIOUS
<1>1. CASE BootStep /\ UNCHANGED pathVars
  <2>1. boot # "built" /\ in' = in
    BY <1>1 DEF BootStep, Resolve, WireSpans, WireMetrics, BuildProvider, Flush, ApplySecurity, NewService,
                MountHealth, MountSurfaces
  <2> QED
    BY <1>1, <2>1, BootStepInv, PathFrame DEF IInv
<1>2. CASE PathStep /\ UNCHANGED bootVars
  BY <1>2, BootFrame, PathStepInv DEF IInv
<1>3. CASE UNCHANGED vars
  <2>1. UNCHANGED bootVars /\ UNCHANGED pathVars /\ in' = in
    BY <1>3 DEF vars, bootVars
  <2> QED
    BY <2>1, BootFrame, PathFrame DEF IInv
<1> QED
  BY <1>1, <1>2, <1>3 DEF Next

-----------------------------------------------------------------------------
(* Theorems *)

\* IInv holds in every reachable state of Assembly.
THEOREM InvariantHolds == Spec => []IInv
  BY InitInv, NextInv, PTL DEF Spec

\* Whichever step of preset.New fails, no telemetry provider is left behind.
THEOREM BootLeavesNothing == Spec => []NoOrphanProvider
<1>1. IInv => NoOrphanProvider
  BY DEF IInv, BootInv, BootState, ProviderState, NoOrphanProvider
<1> QED
  BY <1>1, InvariantHolds, PTL

\* What the defaults make of the timeouts a boot accepts.
LEMMA Deadlines ==
  ASSUME BootInv, boot = "built", in.server # "custom"
  PROVE  /\ \A t \in Timeouts : in.timeouts[t] > 0 => timeout[t] = in.timeouts[t]
         /\ \A t \in {"readHeader", "idle", "shutdown"} : timeout[t] > 0
         /\ \A t \in {"read", "write"} : (ServerTimeout(timeout[t]) = 0) = (in.timeouts[t] = NoTimeout)
         /\ (timeout["drain"] > 0) = (in.timeouts["drain"] # NoDrainDelay)
         /\ timeout["write"] = NoTimeout <=> in.timeouts["write"] = NoTimeout
<1>1. timeout = ApplyDefaults(in.timeouts) /\ Validate(timeout)
  BY DEF BootInv, BootState, TimeoutState
<1>2. \A t \in Timeouts : in.timeouts[t] \in Int
  BY InputsAssumption DEF BootInv
<1>3. \A t \in Timeouts : timeout[t] = IF in.timeouts[t] = 0 THEN Default[t] ELSE in.timeouts[t]
  BY <1>1 DEF ApplyDefaults
<1>4. \A t \in Timeouts : Default[t] \in Int /\ Default[t] > 0
  BY DEF Timeouts, Default
<1>5. {"read", "readHeader", "write", "idle", "shutdown", "drain"} = Timeouts
  BY DEF Timeouts
<1>6. /\ timeout["read"] >= 0 \/ timeout["read"] = NoTimeout
      /\ timeout["write"] >= 0 \/ timeout["write"] = NoTimeout
      /\ timeout["readHeader"] >= 0 /\ timeout["idle"] >= 0 /\ timeout["shutdown"] > 0
      /\ timeout["drain"] >= 0 \/ timeout["drain"] = NoDrainDelay
  <2>1. timeout["read"] \in Int /\ timeout["write"] \in Int
    BY <1>2, <1>3, <1>4, <1>5
  <2> QED
    BY <1>1, <2>1 DEF Validate, InvalidTimeout
<1>7. \A t \in Timeouts : in.timeouts[t] > 0 => timeout[t] = in.timeouts[t]
  BY <1>2, <1>3
<1>8. \A t \in {"readHeader", "idle", "shutdown"} : timeout[t] > 0
  <2> SUFFICES ASSUME NEW t \in {"readHeader", "idle", "shutdown"} PROVE timeout[t] > 0
    OBVIOUS
  <2>1. t \in Timeouts /\ timeout[t] >= 0
    BY <1>2, <1>3, <1>4, <1>5, <1>6
  <2> QED
    BY <1>2, <1>3, <1>4, <2>1
<1>9. ASSUME NEW t \in {"read", "write"}
      PROVE  /\ (ServerTimeout(timeout[t]) = 0) = (in.timeouts[t] = NoTimeout)
             /\ timeout[t] = NoTimeout <=> in.timeouts[t] = NoTimeout
  <2>1. t \in Timeouts /\ (timeout[t] >= 0 \/ timeout[t] = NoTimeout)
    BY <1>5, <1>6
  <2>2. /\ timeout[t] = IF in.timeouts[t] = 0 THEN Default[t] ELSE in.timeouts[t]
        /\ Default[t] \in Int /\ Default[t] > 0 /\ in.timeouts[t] \in Int
    BY <1>2, <1>3, <1>4, <2>1
  <2> QED
    BY <2>1, <2>2 DEF ServerTimeout, NoTimeout
<1>10. (timeout["drain"] > 0) = (in.timeouts["drain"] # NoDrainDelay)
  <2>1. /\ timeout["drain"] = IF in.timeouts["drain"] = 0 THEN Default["drain"] ELSE in.timeouts["drain"]
        /\ Default["drain"] \in Int /\ Default["drain"] > 0 /\ in.timeouts["drain"] \in Int
    BY <1>2, <1>3, <1>4, <1>5
  <2> QED
    BY <1>6, <2>1 DEF NoDrainDelay
<1> QED
  BY <1>7, <1>8, <1>9, <1>10

\* Every service preset.New returns has the legs, the security layers, the
\* exporters and the deadlines its configuration asked for, in whatever
\* combination code, environment and defaults decide them.
THEOREM BuiltAsAsked == Spec => []BootAsAsked
<1>1. ASSUME IInv, boot = "built", in.server = "preset"
      PROVE  /\ ("Otel" \in Layers) = Asked("otel")
             /\ \A l \in {"pages", "realtime"} : (l \in mounts) = Asked(l)
             /\ ({"Headers", "BodyLimit"} \subseteq Layers) = SecurityAsked
             /\ ~SecurityAsked => {"Headers", "BodyLimit", "OriginCheck"} \cap Layers = {}
             /\ "OriginCheck" \in Layers => StrictAsked
             /\ in.code.security = "on" /\ StrictAsked => "OriginCheck" \in Layers
             /\ span = (IF Asked("otel") THEN ExporterAsked(in.otel.span, "traces") ELSE "none")
             /\ reader = (IF Asked("otel") THEN ExporterAsked(in.otel.reader, "metrics") ELSE "none")
             /\ \A t \in Timeouts : in.timeouts[t] > 0 => timeout[t] = in.timeouts[t]
             /\ \A t \in {"readHeader", "idle", "shutdown"} : timeout[t] > 0
             /\ \A t \in {"read", "write"} : (ServerTimeout(timeout[t]) = 0) = (in.timeouts[t] = NoTimeout)
             /\ (timeout["drain"] > 0) = (in.timeouts["drain"] # NoDrainDelay)
             /\ ("Timeout" \in Layers) = (in.timeouts["write"] # NoTimeout)
  <2>1. LegState /\ ExporterState /\ StackState /\ ExtraState /\ ProviderState /\ in.server # "custom" /\ BootInv
    BY <1>1 DEF IInv, BootInv, BootState
  <2>2. /\ "Otel" \in Layers <=> LegOn("otel")
        /\ "Timeout" \in Layers <=> timeout.write # NoTimeout
        /\ profile = "none" => {"Headers", "BodyLimit", "OriginCheck"} \cap Layers = {}
        /\ profile # "none" => {"Headers", "BodyLimit"} \subseteq Layers
        /\ profile # "none" => ("OriginCheck" \in Layers <=> SecurityProfile = "strict")
    BY <1>1, <2>1, BuiltStack
  <2>3. /\ leg = [l \in Legs |-> LegOn(l)] /\ profile = ResolvedProfile
        /\ \A l \in {"pages", "realtime"} : l \in mounts <=> leg[l]
        /\ span = IF LegOn("otel") THEN SpanChoice ELSE "none"
        /\ reader = IF LegOn("otel") THEN ReaderChoice ELSE "none"
    BY <1>1, <2>1 DEF LegState, StackState, ExporterState, Building
  <2>4. \A l \in Legs : LegOn(l) <=> Asked(l)
    BY DEF LegOn, Asked, AbsentValue
  <2>5. /\ ("Otel" \in Layers) = Asked("otel")
        /\ \A l \in {"pages", "realtime"} : (l \in mounts) = Asked(l)
    <3>1. LegOn("otel") <=> Asked("otel")
      BY <2>4 DEF Legs
    <3>2. \A l \in {"pages", "realtime"} : leg[l] = LegOn(l) /\ l \in Legs
      BY <2>3 DEF Legs
    <3>3. \A l \in {"pages", "realtime"} : l \in mounts <=> Asked(l)
      BY <2>3, <2>4, <3>2
    <3>4. Asked("otel") \in BOOLEAN /\ \A l \in {"pages", "realtime"} : Asked(l) \in BOOLEAN
      BY DEF Asked
    <3> QED
      BY <2>2, <3>1, <3>3, <3>4
  <2>6. /\ in.code.security \in {"nil", "on", "off"}
        /\ in.env.security \in {"absent", "none", "standard", "strict"}
    <3>1. in.env.security # "bad"
      BY <1>1, <2>1 DEF LegState, BadSwitch
    <3> QED
      BY <2>1, <3>1, InputsAssumption DEF BootInv
  <2>7. profile # "none" <=> SecurityAsked
    BY <2>3, <2>6 DEF ResolvedProfile, SecurityAsked
  <2>8. /\ ({"Headers", "BodyLimit"} \subseteq Layers) = SecurityAsked
        /\ ~SecurityAsked => {"Headers", "BodyLimit", "OriginCheck"} \cap Layers = {}
    <3>1. SecurityAsked \in BOOLEAN
      BY DEF SecurityAsked
    <3>2. profile = "none" => ~({"Headers", "BodyLimit"} \subseteq Layers)
      BY <2>2
    <3> QED
      BY <2>2, <2>7, <3>1, <3>2
  <2>9. "OriginCheck" \in Layers => StrictAsked
    <3>1. "OriginCheck" \in Layers => profile # "none" /\ SecurityProfile = "strict"
      BY <2>2
    <3> QED
      BY <2>3, <2>6, <3>1 DEF SecurityProfile, ResolvedProfile, StrictAsked
  <2>10. in.code.security = "on" /\ StrictAsked => "OriginCheck" \in Layers
    <3>1. in.code.security = "on" /\ StrictAsked => in.sec.profile = "strict"
      BY DEF StrictAsked
    <3>2. in.code.security = "on" /\ StrictAsked => profile = "strict" /\ SecurityProfile = "strict"
      BY <2>3, <3>1 DEF SecurityProfile, ResolvedProfile
    <3> QED
      BY <2>2, <3>2
  <2>11. /\ span = (IF Asked("otel") THEN ExporterAsked(in.otel.span, "traces") ELSE "none")
         /\ reader = (IF Asked("otel") THEN ExporterAsked(in.otel.reader, "metrics") ELSE "none")
    <3>1. LegOn("otel") <=> Asked("otel")
      BY <2>4 DEF Legs
    <3>2. Asked("otel") => in.code.otel \in {"nil", "on"}
      BY DEF Asked
    <3>3. Asked("otel") => SpanChoice = ExporterAsked(in.otel.span, "traces")
      BY <3>2 DEF SpanChoice, CodeSpan, Wanted, ExporterAsked
    <3>4. Asked("otel") => ReaderChoice = ExporterAsked(in.otel.reader, "metrics")
      BY <3>2 DEF ReaderChoice, CodeReader, Wanted, ExporterAsked
    <3> QED
      BY <2>3, <3>1, <3>3, <3>4
  <2>12. ("Timeout" \in Layers) = (in.timeouts["write"] # NoTimeout)
    BY <1>1, <2>1, <2>2, Deadlines
  <2> QED
    BY <1>1, <2>1, <2>5, <2>8, <2>9, <2>10, <2>11, <2>12, Deadlines
<1>2. IInv => BootAsAsked
  BY <1>1 DEF BootAsAsked
<1> QED
  BY <1>2, InvariantHolds, PTL

\* Whatever was built, a request reaches the application's function only past
\* every guard that was configured in front of it.
THEOREM NoUnentitledCall == Spec => []AdmittedMeansEntitled
<1>1. IInv => AdmittedMeansEntitled
  <2> SUFFICES ASSUME IInv, fn # NotRun
               PROVE  (Strict => OriginOK) /\ KeyOK /\ TokenOK
    BY DEF AdmittedMeansEntitled, Strict, OriginOK, KeyOK, TokenOK
  <2>1. todo = <<>> /\ req # NoRequest /\ KeyOK /\ TokenOK
    BY DEF IInv, PathInv, Position, Admission
  <2>2. ~ChainPhase(todo)
    BY <2>1 DEF ChainPhase
  <2> QED
    BY <2>1, <2>2 DEF IInv, PathInv, Admission
<1> QED
  BY <1>1, InvariantHolds, PTL

\* With the otel leg on, every answered request outside the health endpoints
\* is covered by its span, a refused one or one that panicked too.
THEOREM AllTraced == Spec => []EveryRequestTraced
<1>1. IInv => EveryRequestTraced
  BY DEF IInv, PathInv, TracedFirst, EveryRequestTraced, Answered, In
<1> QED
  BY <1>1, InvariantHolds, PTL

-----------------------------------------------------------------------------
(* What is written *)

\* Nothing is written before the answer, and only requests of the two guarded
\* routes get behind the guards.
Silence ==
  /\ todo # <<>> \/ req = NoRequest => resp = Unwritten
  /\ GuardPhase(todo) => req.target \in Guarded
  /\ req # NoRequest => req.size \in Nat

AnswerInv == Silence /\ AnswerFaithful

\* One document, under the status of the first write.
LEMMA WrittenFirst ==
  ASSUME NEW status, NEW doc, NEW allow
  PROVE  /\ Written(Unwritten, status, doc).status = status
         /\ Written(Unwritten, status, doc).docs = <<doc>>
         /\ [Written(Unwritten, status, doc) EXCEPT !.allow = allow].status = status
         /\ [Written(Unwritten, status, doc) EXCEPT !.allow = allow].docs = <<doc>>
         /\ [Written(Unwritten, status, doc) EXCEPT !.allow = allow].allow = allow
BY DEF Written, Unwritten

LEMMA MembersBehind == ASSUME NEW d PROVE Members(Append(<<"own">>, d)) = {"own", d}
BY DEF Members

LEMMA MembersOfOne == ASSUME NEW d PROVE Members(<<d>>) = {d}
BY DEF Members

\* The conjuncts of AnswerFaithful, with the documents as a set.
LEMMA AnswerParts ==
  ASSUME todo' = <<>>, req' = req, in' = in, mounts' = mounts, stack' = stack,
         req.target = "unclean" /\ resp'.docs # <<"refusal">> => resp'.status = 301,
         req.target = "missing" /\ resp'.docs # <<"refusal">> => resp'.status = 404,
         req.target = "method" /\ resp'.docs # <<"refusal">> =>
           IF CatchAll THEN resp'.status = 404 ELSE resp'.status = 405 /\ resp'.allow,
         "page" \in Members(resp'.docs) => ~req.json,
         "refusal" \in Members(resp'.docs) => fn' = NotRun /\ resp'.docs = <<"refusal">>,
         req.target = "result" /\ fn'.own = "written" /\ fn'.out \in {"value", "nil"} => resp'.docs = <<"own">>,
         req.target = "validated" /\ fn' # NotRun =>
           /\ req.decodes /\ req.size \in 1..MaxBindBody
           /\ BodyLimited => req.size <= BodyLimit,
         in.server = "preset" => resp'.status # 0
  PROVE  AnswerFaithful'
<1>1. CatchAll' = CatchAll /\ BodyLimited' = BodyLimited /\ BodyLimit' = BodyLimit /\ MaxBindBody' = MaxBindBody
  BY DEF CatchAll, BodyLimited, BodyLimit, MaxBindBody
<1>2. NotRun' = NotRun
  BY DEF NotRun
<1> QED
  BY <1>1, <1>2 DEF AnswerFaithful, Members

\* A layer that answers by itself.
LEMMA RefusedAnswer ==
  ASSUME PathInv, AnswerInv, todo # <<>>, NEW status, status # 0, Refuse(status), UNCHANGED bootVars
  PROVE  AnswerInv'
<1>1. req # NoRequest /\ fn = NotRun /\ resp = Unwritten
  BY PhaseOf DEF PathInv, AnswerInv, Silence
<1>2. /\ todo' = <<>> /\ req' = req /\ fn' = NotRun
      /\ resp'.status = status /\ resp'.docs = <<"refusal">>
  BY <1>1, WrittenFirst DEF Refuse
<1>3. in' = in /\ mounts' = mounts /\ stack' = stack
  BY DEF bootVars
<1>4. Members(resp'.docs) = {"refusal"}
  BY <1>2, MembersOfOne
<1>5. fn'.own # "written"
  BY <1>2 DEF NotRun
<1>6. AnswerFaithful'
  BY <1>2, <1>3, <1>4, <1>5, AnswerParts
<1>7. ~GuardPhase(todo')
  BY <1>2 DEF GuardPhase
<1>8. Silence'
  BY <1>1, <1>2, <1>7 DEF AnswerInv, Silence, NoRequest
<1> QED
  BY <1>6, <1>8 DEF AnswerInv

\* A layer that lets the request pass.
LEMMA PassedAnswer ==
  ASSUME AnswerInv, todo # <<>>, todo' # <<>>, UNCHANGED <<req, resp>>,
         GuardPhase(todo') => req.target \in Guarded
  PROVE  AnswerInv'
BY DEF AnswerInv, Silence, AnswerFaithful, Answered, NoRequest, Unwritten, Guarded

LEMMA ChainAnswer ==
  ASSUME PathInv, AnswerInv, PassThrough \/ Trace \/ OriginCheck, UNCHANGED bootVars
  PROVE  AnswerInv'
<1>1. /\ todo # <<>> /\ Head(todo) \in ChainLayers
      /\ Refuse(403) \/ (todo' = Tail(todo) /\ UNCHANGED <<req, resp>>)
  BY DEF PassThrough, Trace, OriginCheck, In, Pass, ChainLayers
<1>2. ChainPhase(todo) /\ Head(todo) # "Mux" /\ todo \in Seq(ChainLayers \cup RouteLayers)
  <2>1. ~GuardPhase(todo)
    BY <1>1, PhaseOf DEF PathInv, ChainLayers
  <2>2. todo # <<"Wrap">>
    BY <1>1 DEF ChainLayers
  <2> QED
    BY <1>1, <2>1, <2>2, PhaseOf DEF PathInv, Position, ChainLayers
<1>3. CASE Refuse(403)
  BY <1>1, <1>3, RefusedAnswer
<1>4. CASE todo' = Tail(todo) /\ UNCHANGED <<req, resp>>
  <2>1. ChainPhase(todo') /\ todo' \in Seq(ChainLayers \cup RouteLayers)
    BY <1>2, <1>4, PassChain
  <2>2. ~GuardPhase(todo') /\ todo' # <<>>
    BY <2>1, PhasesDisjoint DEF ChainPhase
  <2> QED
    BY <1>1, <1>4, <2>2, PassedAnswer
<1> QED
  BY <1>1, <1>3, <1>4

LEMMA GuardsAnswer ==
  ASSUME PathInv, AnswerInv, RateLimit \/ CSRF \/ APIKeyAuth, UNCHANGED bootVars
  PROVE  AnswerInv'
<1>1. /\ In("RateLimit") \/ In("CSRF") \/ In("APIKeyAuth")
      /\ Refuse(429) \/ Refuse(400) \/ Refuse(401) \/ Pass
  <2>1. CASE RateLimit
    BY <2>1 DEF RateLimit
  <2>2. CASE CSRF
    BY <2>2 DEF CSRF
  <2>3. CASE APIKeyAuth
    BY <2>3 DEF APIKeyAuth
  <2> QED
    BY <2>1, <2>2, <2>3
<1>2. GuardPhase(todo) /\ Len(todo) \in 2..4 /\ todo # <<>>
  BY <1>1, GuardAt DEF In
<1>3. CASE Pass
  <2>1. Len(todo) > 1 /\ todo \in Seq(ChainLayers \cup RouteLayers)
    BY <1>2 DEF PathInv, Position
  <2>2. GuardPhase(todo')
    BY <1>2, <1>3, <2>1, PassGuard DEF Pass
  <2>3. todo' # <<>>
    BY <2>2 DEF GuardPhase
  <2> QED
    BY <1>2, <1>3, <2>3, PassedAnswer DEF Pass, AnswerInv, Silence
<1>4. CASE Refuse(429) \/ Refuse(400) \/ Refuse(401)
  BY <1>2, <1>4, RefusedAnswer
<1> QED
  BY <1>1, <1>3, <1>4

\* The mux, or errorpages.Wrap around it, answers.
LEMMA ReplyAnswer ==
  ASSUME PathInv, AnswerInv, todo # <<>>, UNCHANGED bootVars,
         todo' = <<>>, UNCHANGED <<req, fn>>, req.target \notin Guarded,
         NEW doc, resp'.docs = <<doc>>, doc = "page" => ~req.json, doc # "refusal", resp'.status # 0,
         req.target = "unclean" => resp'.status = 301,
         req.target = "missing" => resp'.status = 404,
         req.target = "method" => IF CatchAll THEN resp'.status = 404
                                              ELSE resp'.status = 405 /\ resp'.allow
  PROVE  AnswerInv'
<1>1. req # NoRequest /\ fn = NotRun /\ req.size \in Nat
  BY PhaseOf DEF PathInv, AnswerInv, Silence
<1>2. todo' = <<>> /\ req' = req /\ fn' = NotRun
  BY <1>1
<1>3. in' = in /\ mounts' = mounts /\ stack' = stack
  BY DEF bootVars
<1>4. Members(resp'.docs) = {doc}
  BY <1>2, MembersOfOne
<1>5. req.target # "result" /\ req.target # "validated"
  BY DEF Guarded
<1>6. AnswerFaithful'
  BY <1>2, <1>3, <1>4, <1>5, AnswerParts
<1>7. Silence'
  BY <1>1, <1>2 DEF Silence, NoRequest, GuardPhase
<1> QED
  BY <1>6, <1>7 DEF AnswerInv

\* The mux, or errorpages.Wrap around it, hands the request on or answers it.
LEMMA RoutedAnswer ==
  ASSUME BootInv, PathInv, AnswerInv, Mux \/ Wrap, UNCHANGED bootVars
  PROVE  AnswerInv'
<1>1. todo # <<>> /\ (In("Mux") \/ In("Wrap"))
  BY DEF Mux, Wrap, In
<1>2. req # NoRequest /\ fn = NotRun /\ resp = Unwritten /\ req.size \in Nat
  BY <1>1, PhaseOf DEF PathInv, AnswerInv, Silence, In
<1>3. CASE req.target \in Guarded /\ todo' = Guards /\ UNCHANGED <<req, resp>>
  <2>1. todo' # <<>>
    BY <1>3 DEF Guards
  <2> QED
    BY <1>1, <1>3, <2>1, PassedAnswer DEF In
<1>5. Page = "page" => ~req.json
  BY DEF Page
<1>6. Page # "refusal"
  BY DEF Page
<1>9. todo # <<>>
  BY <1>1 DEF In
<1>7. CASE Mux
  <2>1. \/ req.target \in Guarded /\ todo' = Guards /\ UNCHANGED <<req, resp>>
        \/ req.target = "health" /\ Reply(200, "health", FALSE)
        \/ req.target \in {"method", "missing"} /\ CatchAll /\ Reply(404, Page, FALSE)
        \/ /\ req.target \notin Guarded /\ ~(req.target \in {"method", "missing"} /\ CatchAll)
           /\ Reply(MuxStatus, "bare", MuxStatus = 405)
    BY <1>7 DEF Mux, Guarded, Reply
  <2>2. CASE req.target = "health" /\ Reply(200, "health", FALSE)
    <3>1. todo' = <<>> /\ UNCHANGED <<req, fn>> /\ resp'.status = 200 /\ resp'.docs = <<"health">>
      BY <1>2, <2>2, WrittenFirst DEF Reply
    <3>2. req.target \notin Guarded
      BY <2>2 DEF Guarded
    <3> QED
      BY <3>1, <3>2, <1>9, <2>2, ReplyAnswer
  <2>3. CASE req.target \in {"method", "missing"} /\ CatchAll /\ Reply(404, Page, FALSE)
    <3>1. todo' = <<>> /\ UNCHANGED <<req, fn>> /\ resp'.status = 404 /\ resp'.docs = <<Page>>
      BY <1>2, <2>3, WrittenFirst DEF Reply
    <3>2. req.target \notin Guarded
      BY <2>3 DEF Guarded
    <3> QED
      BY <3>1, <3>2, <1>9, <1>5, <1>6, <2>3, ReplyAnswer
  <2>4. CASE /\ req.target \notin Guarded /\ ~(req.target \in {"method", "missing"} /\ CatchAll)
             /\ Reply(MuxStatus, "bare", MuxStatus = 405)
    <3>1. /\ req.target = "unclean" => MuxStatus = 301
          /\ req.target = "method" => MuxStatus = 405
          /\ req.target \notin {"unclean", "method"} => MuxStatus = 404
      BY DEF MuxStatus
    <3> QED
      <4>1. todo' = <<>> /\ UNCHANGED <<req, fn>> /\ resp'.status = MuxStatus /\ resp'.docs = <<"bare">> /\ (resp'.allow = (MuxStatus = 405))
        BY <1>2, <2>4, WrittenFirst DEF Reply
      <4>2. req.target \notin Guarded
        BY <2>4 DEF Guarded
      <4>3. req.target = "method" => ~CatchAll /\ resp'.status = 405 /\ resp'.allow
        <5>1. MuxStatus = 405 => resp'.allow
          BY <4>1, Zenon
        <5> QED
          BY <4>1, <2>4, <3>1, <5>1
      <4> QED
        BY <4>1, <4>2, <4>3, <1>9, <3>1, ReplyAnswer
  <2> QED
    BY <1>3, <2>1, <2>2, <2>3, <2>4
<1>8. CASE Wrap
  <2>1. \/ req.target \in Guarded /\ todo' = Guards /\ UNCHANGED <<req, resp>>
        \/ req.target = "health" /\ Reply(200, "health", FALSE)
        \/ req.target = "unclean" /\ Reply(MuxStatus, "bare", FALSE)
        \/ /\ req.target \notin Guarded \cup {"unclean"}
           /\ IF MuxStatus = 405 THEN Reply(405, Page, TRUE) ELSE Reply(404, Page, FALSE)
    BY <1>8 DEF Wrap, Guarded, Reply
  <2>2. ~CatchAll
    <3>1. In("Wrap")
      BY <1>8 DEF Wrap
    <3>2. ~ChainPhase(todo) /\ ~GuardPhase(todo)
      BY <3>1, PhaseOf DEF PathInv, In, ChainLayers
    <3>3. in.server = "custom"
      BY <1>1, <3>1, <3>2, PhaseOf DEF PathInv, Position, In
    <3> QED
      BY <3>3 DEF BootInv, BootState, CatchAll
  <2>3. /\ req.target = "unclean" => MuxStatus = 301
        /\ req.target = "method" => MuxStatus = 405
        /\ req.target \notin {"unclean", "method"} => MuxStatus = 404
    BY DEF MuxStatus
  <2>4. CASE req.target = "health" /\ Reply(200, "health", FALSE)
    <3>1. todo' = <<>> /\ UNCHANGED <<req, fn>> /\ resp'.status = 200 /\ resp'.docs = <<"health">>
      BY <1>2, <2>4, WrittenFirst DEF Reply
    <3>2. req.target \notin Guarded
      BY <2>4 DEF Guarded
    <3> QED
      BY <3>1, <3>2, <1>9, <2>4, ReplyAnswer
  <2>5. CASE req.target = "unclean" /\ Reply(MuxStatus, "bare", FALSE)
    <3>1. todo' = <<>> /\ UNCHANGED <<req, fn>> /\ resp'.status = MuxStatus /\ resp'.docs = <<"bare">>
      BY <1>2, <2>5, WrittenFirst DEF Reply
    <3>2. req.target \notin Guarded
      BY <2>5 DEF Guarded
    <3> QED
      BY <3>1, <3>2, <1>9, <2>3, <2>5, ReplyAnswer
  <2>6. CASE req.target = "method" /\ Reply(405, Page, TRUE)
    <3>1. todo' = <<>> /\ UNCHANGED <<req, fn>> /\ resp'.status = 405 /\ resp'.docs = <<Page>> /\ resp'.allow
      BY <1>2, <2>6, WrittenFirst DEF Reply
    <3>2. req.target \notin Guarded
      BY <2>6 DEF Guarded
    <3> QED
      BY <3>1, <3>2, <1>9, <1>5, <1>6, <2>2, <2>6, ReplyAnswer
  <2>7. CASE req.target \notin Guarded \cup {"unclean", "method"} /\ Reply(404, Page, FALSE)
    <3>1. todo' = <<>> /\ UNCHANGED <<req, fn>> /\ resp'.status = 404 /\ resp'.docs = <<Page>>
      BY <1>2, <2>7, WrittenFirst DEF Reply
    <3>2. req.target \notin Guarded
      BY <2>7 DEF Guarded
    <3> QED
      BY <3>1, <3>2, <1>9, <1>5, <1>6, <2>7, ReplyAnswer
  <2>8. CASE /\ req.target \notin Guarded \cup {"unclean"}
             /\ IF MuxStatus = 405 THEN Reply(405, Page, TRUE) ELSE Reply(404, Page, FALSE)
    <3>1. CASE req.target = "method"
      BY <2>3, <2>6, <2>8, <3>1
    <3>2. CASE req.target # "method"
      <4>1. MuxStatus # 405 /\ req.target \notin Guarded \cup {"unclean", "method"}
        BY <2>3, <2>8, <3>2
      <4> QED
        BY <2>7, <2>8, <4>1
    <3> QED
      BY <3>1, <3>2
  <2> QED
    BY <1>3, <2>1, <2>4, <2>5, <2>8
<1> QED
  BY <1>7, <1>8

-----------------------------------------------------------------------------
(* What the application's function leaves *)

\* A response without the documents of the layers in front of the function.
Spoken(r) == r.status # 0 /\ Members(r.docs) \cap {"page", "refusal"} = {}

OwnKinds == {"nothing", "flushed", "written"}

\* The own writes of the function.
LEMMA OwnWritten ==
  ASSUME resp = Unwritten
  PROVE  /\ OwnWrites("nothing") = Unwritten
         /\ OwnWrites("written") = Written(Unwritten, 200, "own")
         /\ OwnWrites("written").status = 200 /\ OwnWrites("written").docs = <<"own">>
         /\ OwnWrites("flushed").status = 200 /\ OwnWrites("flushed").docs = <<>>
         /\ \A own \in OwnKinds : /\ DOMAIN OwnWrites(own) = {"status", "docs", "allow"}
                                  /\ OwnWrites(own).docs \in {<<>>, <<"own">>}
                                  /\ Members(OwnWrites(own).docs) \subseteq {"own"}
<1>1. OwnWrites("nothing") = Unwritten /\ OwnWrites("written") = Written(Unwritten, 200, "own")
  BY DEF OwnWrites
<1>2. /\ Written(Unwritten, 200, "own").status = 200
      /\ Written(Unwritten, 200, "own").docs = <<"own">>
  BY WrittenFirst
<1>3. OwnWrites("written").status = 200 /\ OwnWrites("written").docs = <<"own">>
  BY <1>1, <1>2
<1>4. OwnWrites("flushed").status = 200 /\ OwnWrites("flushed").docs = <<>>
  BY DEF OwnWrites, Unwritten
<1>5. OwnWrites("nothing").docs = <<>>
  BY <1>1 DEF Unwritten
<1>6. Members(<<"own">>) = {"own"} /\ Members(<<>>) = {}
  BY MembersOfOne, MembersEmpty
<1>7. ASSUME NEW own \in OwnKinds
      PROVE  DOMAIN OwnWrites(own) = {"status", "docs", "allow"}
  BY DEF OwnWrites, Written, Unwritten
<1>8. ASSUME NEW own \in OwnKinds
      PROVE  OwnWrites(own).docs \in {<<>>, <<"own">>}
  BY <1>3, <1>4, <1>5 DEF OwnKinds
<1>9. ASSUME NEW own \in OwnKinds
      PROVE  Members(OwnWrites(own).docs) \subseteq {"own"}
  BY <1>6, <1>8
<1> QED
  BY <1>1, <1>3, <1>4, <1>7, <1>8, <1>9

\* A document behind another response keeps what that response holds.
LEMMA SpokenBehind ==
  ASSUME NEW r, NEW status, NEW doc, DOMAIN r = {"status", "docs", "allow"},
         r.docs \in {<<>>, <<"own">>}, status # 0, doc \notin {"page", "refusal"}
  PROVE  Spoken(Written(r, status, doc))
<1>1. /\ Written(r, status, doc).status = IF r.status = 0 THEN status ELSE r.status
      /\ Written(r, status, doc).docs = Append(r.docs, doc)
  BY DEF Written
<1>2. Written(r, status, doc).status # 0
  BY <1>1
<1>3. Members(Append(r.docs, doc)) \subseteq {"own", doc}
  <2>1. CASE r.docs = <<>>
    <3>1. Append(r.docs, doc) = <<doc>>
      BY <2>1
    <3> QED
      BY <3>1, MembersOfOne
  <2>2. CASE r.docs = <<"own">>
    BY <2>2, MembersBehind
  <2> QED
    BY <2>1, <2>2
<1> QED
  BY <1>1, <1>2, <1>3 DEF Spoken

\* A document of the adapter, alone or behind the own writes.
LEMMA SpokenWritten ==
  ASSUME resp = Unwritten, NEW own \in OwnKinds, NEW status, NEW doc, status # 0,
         doc \notin {"page", "refusal"}
  PROVE  Spoken(Written(OwnWrites(own), status, doc))
<1>1. DOMAIN OwnWrites(own) = {"status", "docs", "allow"} /\ OwnWrites(own).docs \in {<<>>, <<"own">>}
  BY OwnWritten
<1> QED
  BY <1>1, SpokenBehind

LEMMA SpokenError ==
  ASSUME resp = Unwritten, NEW own \in OwnKinds, NEW e \in Errors
  PROVE  Spoken(WriteError(OwnWrites(own), e))
<1>1. HTTPStatus[e.family] # 0
  BY DEF Errors, HTTPStatus
<1>2. SanitizeErrorMessage(e) \notin {"page", "refusal"}
  BY DEF SanitizeErrorMessage, Errors
<1> QED
  BY <1>1, <1>2, SpokenWritten DEF WriteError

LEMMA SpokenResult ==
  ASSUME resp = Unwritten, NEW own \in OwnKinds, NEW out \in {"value", "nil"}
  PROVE  Spoken(WriteResult(OwnWrites(own), out))
<1>1. CASE out = "value"
  <2>1. WriteResult(OwnWrites(own), out) = Written(OwnWrites(own), 200, "value")
    BY <1>1 DEF WriteResult
  <2> QED
    BY <2>1, SpokenWritten
<1>2. CASE out = "nil"
  <2>1. \A r : /\ DOMAIN r = {"status", "docs", "allow"} =>
                    [r EXCEPT !.status = IF r.status = 0 THEN 204 ELSE r.status].status # 0
               /\ [r EXCEPT !.status = IF r.status = 0 THEN 204 ELSE r.status].docs = r.docs
    OBVIOUS
  <2>2. DOMAIN OwnWrites(own) = {"status", "docs", "allow"}
    BY OwnWritten
  <2>3. Members(OwnWrites(own).docs) \subseteq {"own"}
    BY OwnWritten
  <2> QED
    BY <1>2, <2>1, <2>2, <2>3 DEF WriteResult, Spoken
<1> QED
  BY <1>1, <1>2

\* A panic behind the recovery middleware, or behind the own writes.
LEMMA SpokenPanic ==
  ASSUME resp = Unwritten, NEW own \in OwnKinds
  PROVE  /\ Members(Panicked(OwnWrites(own)).docs) \cap {"page", "refusal"} = {}
         /\ Recovered => Panicked(OwnWrites(own)).status # 0
<1>1. CASE Recovered /\ OwnWrites(own).status = 0
  <2>1. Panicked(OwnWrites(own)) = Written(OwnWrites(own), 500, "default")
    BY <1>1 DEF Panicked
  <2> QED
    BY <2>1, SpokenWritten DEF Spoken
<1>2. CASE ~(Recovered /\ OwnWrites(own).status = 0)
  <2>1. Panicked(OwnWrites(own)) = OwnWrites(own)
    BY <1>2 DEF Panicked
  <2>2. Members(OwnWrites(own).docs) \subseteq {"own"}
    BY OwnWritten
  <2> QED
    BY <1>2, <2>1, <2>2
<1> QED
  BY <1>1, <1>2

\* A bound body was read completely.
LEMMA BodyBound ==
  ASSUME BootInv, req.size \in Nat, BindJSON = "ok"
  PROVE  /\ req.decodes /\ req.size \in 1..MaxBindBody
         /\ BodyLimited => req.size <= BodyLimit
<1>1. BodyLimit \in Int
  BY InputsAssumption DEF BootInv, BodyLimit, MaxBindBody
<1>2. /\ ~(BodyLimited /\ ReadSize > BodyLimit)
      /\ ~(ReadSize > MaxBindBody) /\ ReadSize # 0 /\ req.decodes
  BY DEF BindJSON
<1>3. ReadSize = req.size /\ req.size \in 1..MaxBindBody
  BY <1>2 DEF ReadSize, MaxBindBody
<1> QED
  BY <1>1, <1>2, <1>3

\* The function ran, or its body was refused.
LEMMA FunctionAnswer ==
  ASSUME BootInv, PathInv, AnswerInv, In("Handler"), todo' = <<>>, req' = req, UNCHANGED bootVars,
         Members(resp'.docs) \cap {"page", "refusal"} = {},
         Recovered => resp'.status # 0,
         req.target = "result" /\ fn'.own = "written" /\ fn'.out \in {"value", "nil"} => resp'.docs = <<"own">>,
         req.target = "validated" /\ fn' # NotRun => BindJSON = "ok"
  PROVE  AnswerInv'
<1>1. GuardPhase(todo) /\ todo # <<>>
  BY GuardAt DEF In
<1>2. req # NoRequest /\ req.target \in Guarded /\ req.size \in Nat /\ boot = "built"
  BY <1>1, PhaseOf DEF PathInv, AnswerInv, Silence
<1>3. in' = in /\ mounts' = mounts /\ stack' = stack
  BY DEF bootVars
<1>4. in.server = "preset" => Recovered
  BY <1>2, BuiltStack DEF Recovered, Layers
<1>5. req.target = "validated" /\ fn' # NotRun =>
        /\ req.decodes /\ req.size \in 1..MaxBindBody
        /\ BodyLimited => req.size <= BodyLimit
  BY <1>2, BodyBound
<1>6. req.target \notin {"unclean", "missing", "method"}
  BY <1>2 DEF Guarded
<1>7. "page" \notin Members(resp'.docs) /\ "refusal" \notin Members(resp'.docs)
  OBVIOUS
<1>8. AnswerFaithful'
  BY <1>3, <1>4, <1>5, <1>6, <1>7, AnswerParts
<1>9. Silence'
  BY <1>2 DEF Silence, NoRequest, GuardPhase
<1> QED
  BY <1>8, <1>9 DEF AnswerInv

LEMMA ResultAnswer ==
  ASSUME BootInv, PathInv, AnswerInv, ResultHandler, UNCHANGED bootVars
  PROVE  AnswerInv'
<1>1. In("Handler") /\ todo' = <<>> /\ req' = req /\ req.target = "result"
  BY DEF ResultHandler
<1>2. resp = Unwritten
  BY <1>1 DEF AnswerInv, Silence, In
<1>3. PICK own \in OwnKinds :
        \/ fn' = [own |-> own, out |-> "panic"] /\ resp' = Panicked(OwnWrites(own))
        \/ \E e \in Errors : fn' = [own |-> own, out |-> "error"] /\ resp' = WriteError(OwnWrites(own), e)
        \/ \E out \in {"value", "nil"} :
             /\ fn' = [own |-> own, out |-> out]
             /\ resp' = IF own = "written" THEN OwnWrites(own) ELSE WriteResult(OwnWrites(own), out)
  BY DEF ResultHandler, Call, OwnKinds
<1>4. CASE fn' = [own |-> own, out |-> "panic"] /\ resp' = Panicked(OwnWrites(own))
  <2>1. fn'.out \notin {"value", "nil"}
    BY <1>4
  <2> QED
    BY <1>1, <1>2, <1>4, <2>1, SpokenPanic, FunctionAnswer
<1>5. CASE \E e \in Errors : fn' = [own |-> own, out |-> "error"] /\ resp' = WriteError(OwnWrites(own), e)
  <2>1. Spoken(resp') /\ fn'.out \notin {"value", "nil"}
    BY <1>2, <1>5, SpokenError
  <2> QED
    BY <1>1, <2>1, FunctionAnswer DEF Spoken
<1>6. CASE \E out \in {"value", "nil"} :
             /\ fn' = [own |-> own, out |-> out]
             /\ resp' = IF own = "written" THEN OwnWrites(own) ELSE WriteResult(OwnWrites(own), out)
  <2>1. fn'.own = own
    BY <1>6
  <2>2. CASE own = "written"
    <3>1. resp' = OwnWrites("written")
      BY <1>6, <2>2
    <3>2. Members(resp'.docs) = {"own"} /\ resp'.docs = <<"own">> /\ resp'.status # 0
      <4>1. /\ OwnWrites("written").status = 200 /\ OwnWrites("written").docs = <<"own">>
        BY <1>2, OwnWritten
      <4>2. resp'.docs = <<"own">> /\ resp'.status = 200
        BY <3>1, <4>1
      <4>3. Members(resp'.docs) = {"own"}
        BY <4>2, MembersOfOne
      <4> QED
        BY <4>2, <4>3
    <3> QED
      BY <1>1, <3>2, FunctionAnswer
  <2>3. CASE own # "written"
    <3>1. PICK out \in {"value", "nil"} : resp' = WriteResult(OwnWrites(own), out)
      BY <1>6, <2>3
    <3>2. Spoken(resp')
      BY <1>2, <3>1, SpokenResult
    <3>3. fn'.own # "written"
      BY <2>1, <2>3
    <3> QED
      BY <1>1, <3>2, <3>3, FunctionAnswer DEF Spoken
  <2> QED
    BY <2>2, <2>3
<1> QED
  BY <1>3, <1>4, <1>5, <1>6

LEMMA ValidatedAnswer ==
  ASSUME BootInv, PathInv, AnswerInv, ResultHandlerWithValidation, UNCHANGED bootVars
  PROVE  AnswerInv'
<1>1. In("Handler") /\ todo' = <<>> /\ req' = req /\ req.target = "validated"
  BY DEF ResultHandlerWithValidation
<1>2. resp = Unwritten /\ todo # <<>>
  BY <1>1 DEF AnswerInv, Silence, In
<1>3. fn = NotRun
  BY <1>2, PhaseOf DEF PathInv
<1>4. CASE fn' = fn /\ \E e \in Errors : resp' = WriteError(resp, e)
  <2>1. PICK e \in Errors : resp' = WriteError(resp, e)
    BY <1>4
  <2>2. Spoken(WriteError(OwnWrites("nothing"), e)) /\ OwnWrites("nothing") = resp
    BY <1>2, SpokenError, OwnWritten DEF OwnKinds
  <2>3. Spoken(resp')
    BY <2>1, <2>2
  <2> QED
    BY <1>1, <1>3, <1>4, <2>3, FunctionAnswer DEF Spoken
<1>5. ASSUME BindJSON = "ok", NEW own \in OwnKinds,
             \/ resp' = Panicked(OwnWrites(own))
             \/ \E e \in Errors : resp' = WriteError(OwnWrites(own), e)
             \/ \E out \in {"value", "nil"} : resp' = WriteResult(OwnWrites(own), out)
      PROVE  AnswerInv'
  <2>1. CASE resp' = Panicked(OwnWrites(own))
    BY <1>1, <1>2, <1>5, <2>1, SpokenPanic, FunctionAnswer
  <2>2. CASE Spoken(resp')
    BY <1>1, <1>5, <2>2, FunctionAnswer DEF Spoken
  <2> QED
    BY <1>2, <1>5, <2>1, <2>2, SpokenError, SpokenResult
<1>6. BindError \in Errors
  BY DEF BindError, Errors, HTTPStatus
<1>7. \/ fn' = fn /\ \E e \in Errors : resp' = WriteError(resp, e)
      \/ /\ BindJSON = "ok"
         /\ \E own \in OwnKinds :
              \/ resp' = Panicked(OwnWrites(own))
              \/ \E e \in Errors : resp' = WriteError(OwnWrites(own), e)
              \/ \E out \in {"value", "nil"} : resp' = WriteResult(OwnWrites(own), out)
  BY <1>6 DEF ResultHandlerWithValidation, Call, OwnKinds
<1> QED
  BY <1>4, <1>5, <1>7

\* A built chain, with the mux behind it, is where a request starts.
LEMMA ChainEntry ==
  ASSUME NEW s \in Seq(ChainLayers)
  PROVE  ChainPhase(s \o <<"Mux">>) /\ s \o <<"Mux">> \in Seq(ChainLayers \cup RouteLayers)
<1> DEFINE A == ChainLayers \cup RouteLayers
           M == <<"Mux">>
           t == s \o M
<1>1. s \in Seq(A) /\ M \in Seq(A) /\ Len(M) = 1 /\ M[1] = "Mux" /\ Len(s) \in Nat
  BY DEF RouteLayers
<1>2. \A i \in 1..Len(s) : s[i] \in ChainLayers
  OBVIOUS
<1> HIDE DEF A, M
<1>3. /\ t \in Seq(A) /\ Len(t) = Len(s) + Len(M)
      /\ \A i \in 1..Len(s) + Len(M) : t[i] = IF i <= Len(s) THEN s[i] ELSE M[i - Len(s)]
  BY <1>1, ConcatProperties, Zenon
<1> HIDE DEF t
<1>4. t[Len(s) + 1] = "Mux" /\ \A i \in 1..Len(s) : t[i] = s[i]
  BY <1>1, <1>3
<1>5. ChainPhase(t)
  BY <1>1, <1>2, <1>3, <1>4 DEF ChainPhase
<1> QED
  BY <1>3, <1>5 DEF t, M, A

\* A request arrives, and is forgotten.
LEMMA EnterAnswer ==
  ASSUME BootInv, PathInv, AnswerInv, Receive \/ Close, UNCHANGED bootVars
  PROVE  AnswerInv'
<1>1. CASE Receive
  <2>1. /\ boot = "built" /\ req = NoRequest /\ req' \in Traffic(in) /\ resp' = resp
        /\ todo' = IF in.server = "custom" THEN <<"Wrap">> ELSE stack \o <<"Mux">>
    BY <1>1 DEF Receive
  <2>2. resp = Unwritten /\ req'.size \in Nat
    BY <2>1, TrafficAssumption DEF AnswerInv, Silence, BootInv
  <2>3. todo' # <<>> /\ ~GuardPhase(todo')
    <3>1. PathInv'
      BY <1>1, ReceiveInv
    <3>2. CASE in.server = "custom"
      <4>1. todo' = <<"Wrap">>
        BY <2>1, <3>2
      <4>2. todo' \in Seq(ChainLayers \cup RouteLayers)
        BY <4>1 DEF RouteLayers
      <4> QED
        BY <4>1, <4>2, PhasesDisjoint
    <3>3. CASE in.server # "custom"
      <4>1. stack \in Seq(ChainLayers)
        BY <2>1, <3>3, BuiltStack
      <4>2. ChainPhase(todo') /\ todo' \in Seq(ChainLayers \cup RouteLayers)
        BY <2>1, <3>3, <4>1, ChainEntry
      <4> QED
        BY <4>2, PhasesDisjoint DEF ChainPhase
    <3> QED
      BY <3>2, <3>3
  <2>4. Silence'
    BY <2>2, <2>3, <2>1 DEF Silence, Unwritten
  <2>5. AnswerFaithful'
    BY <2>3 DEF AnswerFaithful, Answered
  <2> QED
    BY <2>4, <2>5 DEF AnswerInv
<1>2. CASE Close
  <2>1. req' = NoRequest /\ todo' = <<>> /\ resp' = Unwritten
    BY <1>2 DEF Close
  <2> QED
    BY <2>1 DEF AnswerInv, Silence, AnswerFaithful, Answered, NoRequest, Unwritten, GuardPhase
<1> QED
  BY <1>1, <1>2

LEMMA AnswerFrame ==
  ASSUME PathInv, AnswerInv, UNCHANGED pathVars, boot = "built" => UNCHANGED bootVars
  PROVE  AnswerInv'
<1>1. req' = req /\ todo' = todo /\ resp' = resp /\ fn' = fn
  BY DEF pathVars
<1>2. Silence'
  BY <1>1 DEF AnswerInv, Silence, NoRequest, Unwritten, GuardPhase, Guarded, Guards
<1>3. CASE req = NoRequest
  BY <1>1, <1>2, <1>3 DEF AnswerInv, AnswerFaithful, Answered, NoRequest
<1>4. CASE req # NoRequest
  <2>1. in' = in /\ mounts' = mounts /\ stack' = stack
    BY <1>4 DEF PathInv, Position, bootVars
  <2> QED
    BY <1>1, <1>2, <2>1 DEF AnswerInv, AnswerFaithful, Answered, NoRequest, NotRun, CatchAll, BodyLimited,
       BodyLimit, MaxBindBody
<1> QED
  BY <1>3, <1>4

LEMMA AnswerNext ==
  ASSUME IInv, AnswerInv, [Next]_vars
  PROVE  AnswerInv'
<1>1. CASE BootStep /\ UNCHANGED pathVars
  <2>1. boot # "built"
    BY <1>1 DEF BootStep, Resolve, WireSpans, WireMetrics, BuildProvider, Flush, ApplySecurity, NewService,
                MountHealth, MountSurfaces
  <2> QED
    BY <1>1, <2>1, AnswerFrame DEF IInv
<1>2. CASE PathStep /\ UNCHANGED bootVars
  BY <1>2, ChainAnswer, GuardsAnswer, RoutedAnswer, ResultAnswer, ValidatedAnswer, EnterAnswer DEF IInv, PathStep
<1>3. CASE UNCHANGED vars
  <2>1. UNCHANGED bootVars /\ UNCHANGED pathVars
    BY <1>3 DEF vars
  <2> QED
    BY <2>1, AnswerFrame DEF IInv
<1> QED
  BY <1>1, <1>2, <1>3 DEF Next

LEMMA AnswerInit == Init => AnswerInv
BY DEF Init, PathInit, AnswerInv, Silence, AnswerFaithful, Answered, GuardPhase

\* Every answer is the one its route's owner meant, whichever layers were built
\* and whatever the application's function wrote, returned or panicked with.
THEOREM AnsweredAsMeant == Spec => []AnswerFaithful
<1>1. Init => IInv /\ AnswerInv
  BY InitInv, AnswerInit
<1>2. IInv /\ AnswerInv /\ [Next]_vars => IInv' /\ AnswerInv'
  BY NextInv, AnswerNext
<1>3. AnswerInv => AnswerFaithful
  BY DEF AnswerInv
<1> QED
  BY <1>1, <1>2, <1>3, PTL DEF Spec

=============================================================================
