----------------------------- MODULE MCAssembly -----------------------------
(***************************************************************************)
(* Instances of Assembly.  The boots vary one part of the input around a   *)
(* plain configuration, so that every rule of the grammar is met in both   *)
(* directions; the traffic varies the credentials, the body or the target. *)
(***************************************************************************)
EXTENDS Assembly

Plain == [code |-> [otel |-> "nil", realtime |-> "nil", pages |-> "nil", security |-> "nil"],
          env |-> [otel |-> "absent", realtime |-> "absent", pages |-> "absent", security |-> "absent"],
          sec |-> [profile |-> "", origins |-> {}, limit |-> 0],
          otel |-> [span |-> "none", reader |-> "none", otlp |-> FALSE, isolated |-> FALSE,
                    endpoints |-> {}, vetoes |-> {}],
          timeouts |-> [t \in Timeouts |-> 0],
          level |-> "ok", metrics |-> "ok", pattern |-> "free",
          app |-> [key |-> TRUE, trusted |-> {"listed", "*"}], server |-> "preset"]

\* The grammar: code against environment, for the three legs together.
LegBoots ==
  {[Plain EXCEPT !.code = [@ EXCEPT !.otel = c[1], !.realtime = c[2], !.pages = c[3]],
                 !.env = [@ EXCEPT !.otel = e[1], !.realtime = e[2], !.pages = e[3]],
                 !.pattern = p] :
     c \in [1..3 -> {"nil", "on", "off"}], e \in [1..3 -> {"absent", "on", "off", "bad"}],
     p \in {"free", "taken"}}
  \cup {[Plain EXCEPT !.code.otel = o, !.env.security = "bad"] : o \in {"nil", "on"}}

\* Exporters: code, environment and veto per signal.
OtelBoots ==
  {[Plain EXCEPT !.code.otel = c, !.env.otel = "on",
                 !.otel = [span |-> s, reader |-> r, otlp |-> o, isolated |-> i,
                           endpoints |-> e, vetoes |-> v]] :
     c \in {"nil", "on"}, s \in {"none", "code", "stdout"}, r \in {"none", "code"}, o \in BOOLEAN,
     i \in BOOLEAN, e \in {{}, {"traces"}, {"traces", "metrics"}}, v \in {{}, {"traces"}, {"metrics"}}}

\* Profiles, with the provider up.
SecurityBoots ==
  {[Plain EXCEPT !.code.otel = "on", !.code.security = c, !.env.security = e,
                 !.sec = [profile |-> p, origins |-> os, limit |-> b]] :
     c \in {"nil", "on", "off"}, e \in {"absent", "none", "standard", "strict"},
     p \in {"", "none", "standard", "strict"}, os \in {{}, {"listed"}, {"Listed", "*"}}, b \in {0, 1, 3}}

\* What NewService may refuse, with the provider up.
ConfigBoots ==
  {[Plain EXCEPT !.code.otel = "on", !.level = l, !.metrics = m, !.timeouts[t] = d] :
     l \in {"ok", "bad"}, m \in {"nil", "ok", "bad"}, t \in Timeouts, d \in {-3, -2, -1, 0, 7}}

\* Services that receive traffic.
Served ==
  {[Plain EXCEPT !.code.otel = "on", !.code.security = "on", !.code.pages = p, !.app.key = k,
                 !.sec = [profile |-> s, origins |-> {"listed"}, limit |-> b]] :
     p \in {"on", "off"}, k \in BOOLEAN, s \in {"standard", "strict"}, b \in {0, 1, 3}}
  \cup {[Plain EXCEPT !.server = "custom"]}
  \cup {[Plain EXCEPT !.code.otel = "on", !.otel.isolated = TRUE]}

MCInputs == LegBoots \cup OtelBoots \cup SecurityBoots \cup ConfigBoots \cup Served

Get == [target |-> "result", safe |-> TRUE, origin |-> "", referer |-> "", header |-> "", query |-> "",
        token |-> FALSE, json |-> FALSE, size |-> 1, decodes |-> TRUE]

Credentials ==
  {[Get EXCEPT !.safe = s, !.origin = o, !.referer = r, !.header = h, !.query = q, !.token = t] :
     s \in BOOLEAN, o \in {"", "self", "Listed", "foreign", "null"}, r \in {"", "self", "foreign"},
     h \in {"", "right", "wrong"}, q \in {"", "right"}, t \in BOOLEAN}
Bodies ==
  {[Get EXCEPT !.target = "validated", !.safe = FALSE, !.header = "right", !.size = n, !.decodes = d] :
     n \in 0..4, d \in BOOLEAN}
Targets ==
  {[Get EXCEPT !.target = t, !.json = j, !.origin = o] :
     t \in {"health", "missing", "method", "unclean"}, j \in BOOLEAN, o \in {"", "foreign"}}

MCTraffic(i) == IF i \in Served THEN Credentials \cup Bodies \cup Targets ELSE {Get}
=============================================================================
