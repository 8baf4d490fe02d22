--------------------------- MODULE MetricsCollector ---------------------------
(***************************************************************************)
(* The Prometheus surface of a Service (metrics.go): the collection        *)
(* middleware around the mux, the statusRecorder, and the exposition that  *)
(* a scrape, itself a request behind the middleware, renders.              *)
(*                                                                         *)
(* A duration is a number of time units and bucket i has the bound i, so   *)
(* NBounds + 1 stands for every duration above all bounds.  The request's  *)
(* method is part of its route label.                                      *)
(***************************************************************************)
EXTENDS Naturals, FiniteSets, FiniteSetsExt

CONSTANTS
  Requests,       \* requests the service receives
  Routes,         \* mux patterns, the scrape path and "unmatched" aside
  Codes,          \* status codes handlers send with WriteHeader
  Informational,  \* those of them that are 1xx
  NBounds,        \* len(durationBuckets)
  MaxWrites,      \* bound: WriteHeader calls of one handler
  BasicAuth       \* BasicAuthUser/Pass are set

ASSUME MetricsAssumption ==
  /\ Informational \subseteq Codes
  /\ Codes \subseteq Nat \ {0}
  /\ NBounds \in Nat \ {0}
  /\ MaxWrites \in Nat
  /\ BasicAuth \in BOOLEAN
  /\ "metrics" \notin Routes /\ "unmatched" \notin Routes

OK           == 200
Unauthorized == 401
Labels    == Routes \cup {"metrics", "unmatched"}
Durations == 1..(NBounds + 1)
Inf       == NBounds + 1      \* index of the +Inf bucket
Keys      == Labels \X (Codes \cup {OK, Unauthorized})

VARIABLES
  pc,        \* request -> where the middleware is
  route,     \* request -> its label, known once the mux has matched
  status,    \* request -> statusRecorder.status
  wrote,     \* request -> statusRecorder.wroteHeader
  writes,    \* request -> WriteHeader calls so far
  wire,      \* request -> the status net/http sent (0: none yet)
  stray,     \* request -> the code of its first WriteHeader, where that call
             \* could not set the status of the response (0: it could); history
  took,      \* request -> its measured duration (0: not finished)
  inFlight,  \* the gauge
  byRoute,   \* the series created so far: key -> histogram and counter
  scraped    \* the last exposition

reqVars == <<pc, route, wrote, status, writes, wire, stray, took>>
vars == <<reqVars, inFlight, byRoute, scraped>>

Series == [buckets : [1..Inf -> Nat], count : Nat, sum : Nat]
EmptySeries == [buckets |-> [i \in 1..Inf |-> 0], count |-> 0, sum |-> 0]

Exposition(gauge, series) == [inFlight |-> gauge, series |-> series]

TypeOK ==
  /\ pc \in [Requests -> {"idle", "serving", "returned", "done", "panicked"}]
  /\ route \in [Requests -> Labels]
  /\ status \in [Requests -> Codes \cup {OK, Unauthorized}]
  /\ wrote \in [Requests -> BOOLEAN]
  /\ writes \in [Requests -> Nat]
  /\ wire \in [Requests -> Codes \cup {0, OK, Unauthorized}]
  /\ stray \in [Requests -> Codes \cup {0}]
  /\ took \in [Requests -> Durations \cup {0}]
  /\ inFlight \in Nat
  /\ DOMAIN byRoute \subseteq Keys
  /\ \A k \in DOMAIN byRoute : byRoute[k] \in Series
  /\ DOMAIN scraped.series \subseteq DOMAIN byRoute

Init ==
  /\ pc = [r \in Requests |-> "idle"]
  /\ route = [r \in Requests |-> "unmatched"]
  /\ status = [r \in Requests |-> OK]
  /\ wrote = [r \in Requests |-> FALSE]
  /\ writes = [r \in Requests |-> 0]
  /\ wire = [r \in Requests |-> 0]
  /\ stray = [r \in Requests |-> 0]
  /\ took = [r \in Requests |-> 0]
  /\ inFlight = 0
  /\ byRoute = [k \in {} |-> EmptySeries]
  /\ scraped = Exposition(0, [k \in {} |-> EmptySeries])

-----------------------------------------------------------------------------
\* The middleware counts the request in, then the mux stamps r.Pattern.
Enter(r, label) ==
  /\ pc[r] = "idle"
  /\ pc' = [pc EXCEPT ![r] = "serving"]
  /\ route' = [route EXCEPT ![r] = label]
  /\ inFlight' = inFlight + 1
  /\ UNCHANGED <<status, wrote, writes, wire, stray, took, byRoute, scraped>>

\* net/http: a 1xx status is sent on its own, the first other one is final.
Uncommitted(r) == wire[r] \in Informational \cup {0}
Sent(r, code) == IF Uncommitted(r) THEN code ELSE wire[r]

\* A handler's first WriteHeader is a 1xx or comes after the response went out.
Strays(r, code) ==
  stray' = [stray EXCEPT ![r] =
    IF ~wrote[r] /\ (code \in Informational \/ ~Uncommitted(r)) THEN code ELSE @]

\* Mutant of WriteHeader: a superfluous second call overwrites the status.
WriteHeaderOverwrites(r, code) ==
  /\ pc[r] = "serving" /\ route[r] # "metrics"
  /\ writes[r] < MaxWrites
  /\ writes' = [writes EXCEPT ![r] = @ + 1]
  /\ status' = [status EXCEPT ![r] = code]
  /\ wrote' = [wrote EXCEPT ![r] = TRUE]
  /\ wire' = [wire EXCEPT ![r] = Sent(r, code)]
  /\ Strays(r, code)
  /\ UNCHANGED <<pc, route, took, inFlight, byRoute, scraped>>

\* statusRecorder.WriteHeader: the first code is recorded, all are passed on.
WriteHeader(r, code) ==
  /\ pc[r] = "serving" /\ route[r] # "metrics"
  /\ writes[r] < MaxWrites
  /\ writes' = [writes EXCEPT ![r] = @ + 1]
  /\ status' = [status EXCEPT ![r] = IF wrote[r] THEN @ ELSE code]
  /\ wrote' = [wrote EXCEPT ![r] = TRUE]
  /\ wire' = [wire EXCEPT ![r] = Sent(r, code)]
  /\ Strays(r, code)
  /\ UNCHANGED <<pc, route, took, inFlight, byRoute, scraped>>

\* A Write or Flush that nothing was committed before: net/http sends 200, and
\* statusRecorder, which overrides neither for its status, keeps what it has.
Write(r) ==
  /\ pc[r] = "serving" /\ route[r] # "metrics"
  /\ Uncommitted(r)
  /\ wire' = [wire EXCEPT ![r] = OK]
  /\ UNCHANGED <<pc, route, status, wrote, writes, stray, took, inFlight, byRoute, scraped>>

\* The handler returns; a response without a final status goes out as 200.
Return(r) ==
  /\ pc[r] = "serving" /\ route[r] # "metrics"
  /\ pc' = [pc EXCEPT ![r] = "returned"]
  /\ wire' = [wire EXCEPT ![r] = Sent(r, OK)]
  /\ UNCHANGED <<route, status, wrote, writes, stray, took, inFlight, byRoute, scraped>>

\* metricsAuth refuses the scrape.
Refuse(r) ==
  /\ pc[r] = "serving" /\ route[r] = "metrics"
  /\ BasicAuth
  /\ pc' = [pc EXCEPT ![r] = "returned"]
  /\ status' = [status EXCEPT ![r] = Unauthorized]
  /\ wrote' = [wrote EXCEPT ![r] = TRUE]
  /\ wire' = [wire EXCEPT ![r] = Unauthorized]
  /\ UNCHANGED <<route, writes, stray, took, inFlight, byRoute, scraped>>

\* The exposition is rendered under the collector's lock.
Scrape(r) ==
  /\ pc[r] = "serving" /\ route[r] = "metrics"
  /\ pc' = [pc EXCEPT ![r] = "returned"]
  /\ wire' = [wire EXCEPT ![r] = OK]
  /\ scraped' = Exposition(inFlight, byRoute)
  /\ UNCHANGED <<route, status, wrote, writes, stray, took, inFlight, byRoute>>

\* The handler panics: Recovery, outside the collector, answers 500 unless a
\* status was sent, and the rest of the middleware never runs.
Panic(r) ==
  /\ pc[r] = "serving" /\ route[r] # "metrics"
  /\ pc' = [pc EXCEPT ![r] = "panicked"]
  /\ UNCHANGED <<route, status, wrote, writes, wire, stray, took, inFlight, byRoute, scraped>>

-----------------------------------------------------------------------------
SeriesOf(key) == IF key \in DOMAIN byRoute THEN byRoute[key] ELSE EmptySeries

\* The series with one more sample: the first bucket whose bound is not below
\* the duration, if any, and the +Inf bucket.
Observe(s, duration) ==
  [buckets |-> [i \in 1..Inf |-> IF i \in {duration, Inf} THEN s.buckets[i] + 1
                                                          ELSE s.buckets[i]],
   count |-> s.count + 1,
   sum |-> s.sum + duration]

PutSeries(key, s) ==
  byRoute' = [k \in DOMAIN byRoute \cup {key} |-> IF k = key THEN s ELSE byRoute[k]]

\* Mutant of Finish: a series that exists is replaced by a fresh one.
FinishLosesSeries(r, duration) ==
  LET key == <<route[r], status[r]>> IN
  /\ pc[r] = "returned"
  /\ pc' = [pc EXCEPT ![r] = "done"]
  /\ took' = [took EXCEPT ![r] = duration]
  /\ inFlight' = inFlight - 1
  /\ PutSeries(key, Observe(EmptySeries, duration))
  /\ UNCHANGED <<route, status, wrote, writes, wire, stray, scraped>>

\* Mutant of Finish: the request is not counted out.
FinishKeepsGauge(r, duration) ==
  LET key == <<route[r], status[r]>> IN
  /\ pc[r] = "returned"
  /\ pc' = [pc EXCEPT ![r] = "done"]
  /\ took' = [took EXCEPT ![r] = duration]
  /\ PutSeries(key, Observe(SeriesOf(key), duration))
  /\ UNCHANGED <<route, status, wrote, writes, wire, stray, inFlight, scraped>>

\* The middleware after next.ServeHTTP returned, under the collector's lock.
Finish(r, duration) ==
  LET key == <<route[r], status[r]>> IN
  /\ pc[r] = "returned"
  /\ pc' = [pc EXCEPT ![r] = "done"]
  /\ took' = [took EXCEPT ![r] = duration]
  /\ inFlight' = inFlight - 1
  /\ PutSeries(key, Observe(SeriesOf(key), duration))
  /\ UNCHANGED <<route, status, wrote, writes, wire, stray, scraped>>

-----------------------------------------------------------------------------
Next ==
  \E r \in Requests :
    \/ \E label \in Labels : Enter(r, label)
    \/ \E code \in Codes : WriteHeader(r, code)
    \/ Write(r) \/ Return(r) \/ Refuse(r) \/ Scrape(r) \/ Panic(r)
    \/ \E duration \in Durations : Finish(r, duration)

Spec == Init /\ [][Next]_vars

-----------------------------------------------------------------------------
(* Properties *)

Serving  == {r \in Requests : pc[r] \in {"serving", "returned"}}
Finished == {r \in Requests : pc[r] = "done"}

\* The status to count a request under: the one its client received, but for a
\* first WriteHeader that came too early (1xx) or too late, whose code is kept.
Label(r) == <<route[r], IF stray[r] = 0 THEN wire[r] ELSE stray[r]>>

\* The requests that a series should account for.
Counted(key) == {r \in Finished : Label(r) = key}

SumTook(reqs) == MapThenSumSet(LAMBDA r : took[r], reqs)

\* The gauge loses no request and counts none twice: it is the requests being
\* served plus the ones whose handler panicked, which nothing counts out.
GaugeConserved ==
  inFlight = Cardinality(Serving) + Cardinality({r \in Requests : pc[r] = "panicked"})

\* Whatever the interleaving, every finished request is one sample of exactly
\* one series: its count, its sum, its bucket and the +Inf bucket.  The series is
\* that of its route and of the status the client received, which a superfluous
\* WriteHeader, Write, Flush or return after it does not change; a handler whose
\* first WriteHeader is a 1xx or follows a Write or Flush is counted under that
\* code instead (StatusIsResponse below).
SeriesExact ==
  /\ DOMAIN byRoute = {Label(r) : r \in Finished}
  /\ \A k \in DOMAIN byRoute :
       /\ byRoute[k].count = Cardinality(Counted(k))
       /\ byRoute[k].sum = SumTook(Counted(k))
       /\ \A i \in 1..NBounds :
            byRoute[k].buckets[i] = Cardinality({r \in Counted(k) : took[r] = i})
       /\ byRoute[k].buckets[Inf] = byRoute[k].count

\* Counters never go backwards between two scrapes, and no series disappears.
ScrapesMonotonic ==
  [][\A k \in DOMAIN scraped.series :
       /\ k \in DOMAIN scraped'.series
       /\ scraped'.series[k].count >= scraped.series[k].count
       /\ scraped'.series[k].sum >= scraped.series[k].sum
       /\ \A i \in 1..Inf : scraped'.series[k].buckets[i] >= scraped.series[k].buckets[i]]_vars

(* Statements of the documentation that the code does not keep. *)

\* The HELP line of appkit_http_requests_in_flight: "Requests currently being
\* served."
GaugeIsBeingServed == inFlight = Cardinality(Serving)

\* routeSeries: "exact Prometheus histogram semantics": the bucket le=i counts
\* every sample that is not above i.
HistogramCumulative ==
  \A k \in DOMAIN scraped.series : \A i \in 1..NBounds :
    i > 1 => scraped.series[k].buckets[i] >= scraped.series[k].buckets[i - 1]

\* "statusRecorder captures the response status without buffering the body": a
\* response is counted in a series with the status the client received.
StatusIsResponse == \A r \in Finished : <<route[r], wire[r]>> \in DOMAIN byRoute

=============================================================================
