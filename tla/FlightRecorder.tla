--------------------------- MODULE FlightRecorder ---------------------------
(***************************************************************************)
(* One go-flightrecorder recorder shared by the HTTP middleware, the manual*)
(* snapshot handler and the health-batch trigger.  The recorder itself is a*)
(* library: a snapshot-directory sink writes a file per capture, a writer  *)
(* sink writes only while its once-latch is armed and consumes it, and an  *)
(* asynchronous snapshot runs on a goroutine of its own.                   *)
(***************************************************************************)
EXTENDS Integers

CONSTANTS
  Requests,   \* HTTP requests through the middleware
  Manuals,    \* calls of the snapshot handler
  Batches,    \* health-check batches through the trigger
  Configs,    \* [mounted, sink, autoReset, trigger, cooldown, hung] a program may choose
  MaxTime     \* bound of the clock

Captures == Requests \cup Batches
Never == -1
NoOne == "nobody"

ASSUME DistinctCallers ==
  /\ Requests \cap Manuals = {} /\ Requests \cap Batches = {} /\ Manuals \cap Batches = {}
  /\ NoOne \notin Batches

\* The cooldown is a time.Duration, negative values included.
ASSUME TimeAssumption ==
  /\ \A c \in Configs : c.cooldown \in Int
  /\ MaxTime \in Nat

VARIABLES
  cfg,          \* the options; mounted: the surfaces in use; hung: the sink blocks
  enabled,      \* Recorder.Enabled
  latch,        \* the once-latch of a writer sink is armed
  inflight,     \* initiated captures: "new", "writing"
  written,      \* whose traces reached the sink
  counted,      \* appkit_flightrecorder_snapshots_total
  request,      \* request -> where it is in the middleware
  manual,       \* call -> where it is in the handler
  answer,       \* call -> the status it was answered with
  batch,        \* batch -> where it is in RecordHealthCheckWithContext
  failing,      \* batches with a failing check
  mu,           \* holder of Trigger.mu
  lastCapture,  \* Trigger.lastCapture
  initiated,    \* capture -> when SnapshotIfAsync accepted it (history)
  clock

recVars == <<enabled, latch, inflight, written, counted>>
manVars == <<manual, answer>>
batchVars == <<batch, failing, mu, lastCapture>>
vars == <<cfg, recVars, request, manVars, batchVars, initiated, clock>>

TypeOK ==
  /\ cfg \in Configs
  /\ enabled \in BOOLEAN /\ latch \in BOOLEAN
  /\ inflight \in [Captures -> {"none", "new", "writing"}]
  /\ written \subseteq Captures \cup Manuals
  /\ counted \in Nat
  /\ request \in [Requests -> {"idle", "ok", "error", "rearm", "done"}]
  /\ manual \in [Manuals -> {"idle", "reset", "snapshot", "writing", "download", "done"}]
  /\ answer \in [Manuals -> {"none", "200", "500", "503"}]
  /\ batch \in [Batches -> {"idle", "ran", "decide", "stamp", "done"}]
  /\ failing \subseteq Batches
  /\ mu \in Batches \cup {NoOne}
  /\ lastCapture \in {Never} \cup 0..MaxTime
  /\ initiated \in [Captures -> {Never} \cup 0..MaxTime]
  /\ clock \in 0..MaxTime

Init ==
  /\ cfg \in Configs
  /\ enabled \in BOOLEAN
  /\ latch = TRUE
  /\ inflight = [c \in Captures |-> "none"]
  /\ written = {} /\ counted = 0
  /\ request = [r \in Requests |-> "idle"]
  /\ manual = [m \in Manuals |-> "idle"]
  /\ answer = [m \in Manuals |-> "none"]
  /\ batch = [b \in Batches |-> "idle"]
  /\ failing = {}
  /\ mu = NoOne
  /\ lastCapture = Never
  /\ initiated = [c \in Captures |-> Never]
  /\ clock = 0

-----------------------------------------------------------------------------
\* The recorder.

Tick ==
  /\ clock < MaxTime
  /\ clock' = clock + 1
  /\ UNCHANGED <<cfg, recVars, request, manVars, batchVars, initiated>>

\* Stop disables the recorder for good; captures under way are drained.
Stop ==
  /\ enabled
  /\ enabled' = FALSE
  /\ UNCHANGED <<cfg, latch, inflight, written, counted, request, manVars, batchVars,
                 initiated, clock>>

\* SnapshotIfAsync: when the trigger fires on an enabled recorder it starts the
\* capture goroutine and answers TRUE.
Fires(err) == /\ enabled
              /\ \/ cfg.trigger = "always"
                 \/ cfg.trigger = "error" /\ err

SnapshotIfAsync(c, err) ==
  IF Fires(err)
  THEN /\ inflight' = [inflight EXCEPT ![c] = "new"]
       /\ initiated' = [initiated EXCEPT ![c] = clock]
  ELSE UNCHANGED <<inflight, initiated>>

\* The capture goroutine: a directory sink always writes, a writer sink only
\* with an armed latch.
CaptureBegin(c) ==
  /\ inflight[c] = "new"
  /\ IF cfg.sink = "dir" \/ latch
     THEN inflight' = [inflight EXCEPT ![c] = "writing"]
     ELSE inflight' = [inflight EXCEPT ![c] = "none"]
  /\ latch' = (latch /\ cfg.sink = "dir")
  /\ UNCHANGED <<cfg, enabled, written, counted, request, manVars, batchVars, initiated, clock>>

\* The write ends, with the trace in the sink or with an error; the metrics hook
\* counts it either way.
CaptureEnd(c) ==
  /\ inflight[c] = "writing" /\ ~cfg.hung
  /\ inflight' = [inflight EXCEPT ![c] = "none"]
  /\ written' \in {written, written \cup {c}}
  /\ counted' = counted + 1
  /\ UNCHANGED <<cfg, enabled, latch, request, manVars, batchVars, initiated, clock>>

-----------------------------------------------------------------------------
\* Middleware.

\* The handler behind the middleware returns, below or above the error
\* threshold, or panics: then nothing after ServeHTTP runs.
Serve(r) ==
  /\ request[r] = "idle" /\ "middleware" \in cfg.mounted
  /\ \E status \in {"ok", "error", "done"} : request' = [request EXCEPT ![r] = status]
  /\ UNCHANGED <<cfg, recVars, manVars, batchVars, initiated, clock>>

Evaluate(r) ==
  /\ request[r] \in {"ok", "error"}
  /\ LET err == request[r] = "error"
     IN  /\ SnapshotIfAsync(r, err)
         /\ request' = [request EXCEPT ![r] = IF Fires(err) THEN "rearm" ELSE "done"]
  /\ UNCHANGED <<cfg, enabled, latch, written, counted, manVars, batchVars, clock>>

\* Mutant of Rearm: the request waits until its trace is written.
RearmAfterCapture(r) ==
  /\ request[r] = "rearm" /\ inflight[r] = "none"
  /\ latch' = (latch \/ cfg.autoReset)
  /\ request' = [request EXCEPT ![r] = "done"]
  /\ UNCHANGED <<cfg, enabled, inflight, written, counted, manVars, batchVars, initiated, clock>>

\* Reset follows the initiation, not the capture.
Rearm(r) ==
  /\ request[r] = "rearm"
  /\ latch' = (latch \/ cfg.autoReset)
  /\ request' = [request EXCEPT ![r] = "done"]
  /\ UNCHANGED <<cfg, enabled, inflight, written, counted, manVars, batchVars, initiated, clock>>

-----------------------------------------------------------------------------
\* SnapshotHandler.

Reply(m, status) ==
  /\ manual' = [manual EXCEPT ![m] = "done"]
  /\ answer' = [answer EXCEPT ![m] = status]

ManualEnter(m) ==
  /\ manual[m] = "idle" /\ "handler" \in cfg.mounted
  /\ \/ ~enabled /\ Reply(m, "503")
     \/ /\ enabled
        /\ \E mode \in {"reset", "download"} : manual' = [manual EXCEPT ![m] = mode]
        /\ answer' = answer
  /\ UNCHANGED <<cfg, recVars, request, batchVars, initiated, clock>>

\* Mutant of Download: the trace is streamed, and a failure truncates the 200.
DownloadUnbuffered(m) ==
  /\ manual[m] = "download"
  /\ Reply(m, "200")
  /\ written' \in {written, written \cup {m}} /\ counted' = counted + 1
  /\ UNCHANGED <<cfg, enabled, latch, inflight, request, batchVars, initiated, clock>>

\* SnapshotToWriter into a buffer, past sink and latch; the response is written
\* only when the whole trace is there.
Download(m) ==
  /\ manual[m] = "download"
  /\ \/ /\ enabled /\ Reply(m, "200")
        /\ written' = written \cup {m} /\ counted' = counted + 1
     \/ Reply(m, "500") /\ UNCHANGED <<written, counted>>
  /\ UNCHANGED <<cfg, enabled, latch, inflight, request, batchVars, initiated, clock>>

ManualReset(m) ==
  /\ manual[m] = "reset"
  /\ latch' = TRUE
  /\ manual' = [manual EXCEPT ![m] = "snapshot"]
  /\ UNCHANGED <<cfg, enabled, inflight, written, counted, request, answer, batchVars,
                 initiated, clock>>

\* Snapshot: a consumed latch, or a recorder stopped meanwhile, makes it a
\* no-op without an error.
ManualSnapshot(m) ==
  /\ manual[m] = "snapshot"
  /\ IF enabled /\ (cfg.sink = "dir" \/ latch)
     THEN /\ latch' = (latch /\ cfg.sink = "dir")
          /\ manual' = [manual EXCEPT ![m] = "writing"]
          /\ answer' = answer
     ELSE Reply(m, "200") /\ latch' = latch
  /\ UNCHANGED <<cfg, enabled, inflight, written, counted, request, batchVars, initiated, clock>>

ManualWritten(m) ==
  /\ manual[m] = "writing" /\ ~cfg.hung
  /\ counted' = counted + 1
  /\ \/ Reply(m, "200") /\ written' = written \cup {m}
     \/ Reply(m, "500") /\ written' = written
  /\ UNCHANGED <<cfg, enabled, latch, inflight, request, batchVars, initiated, clock>>

-----------------------------------------------------------------------------
\* Trigger.RecordHealthCheckWithContext.

\* The batch runs; the recorder's own Checkable fails while it is disabled.
BatchRun(b) ==
  /\ batch[b] = "idle" /\ "trigger" \in cfg.mounted
  /\ batch' = [batch EXCEPT ![b] = "ran"]
  /\ \/ failing' = failing \cup {b}
     \/ enabled /\ failing' = failing
  /\ UNCHANGED <<cfg, recVars, request, manVars, mu, lastCapture, initiated, clock>>

\* The cooldown has not elapsed since the last capture.
Cooling == lastCapture # Never /\ clock - lastCapture < cfg.cooldown

\* Mutant of CooldownCheck: the lock covers the comparison only.
CooldownCheckUnlocked(b) ==
  /\ batch[b] = "ran" /\ mu = NoOne
  /\ batch' = [batch EXCEPT ![b] = IF Cooling THEN "done" ELSE "decide"]
  /\ UNCHANGED <<cfg, recVars, request, manVars, failing, mu, lastCapture, initiated, clock>>

\* Lock, and compare with the last capture; within the window the batch
\* returns its results at once.
CooldownCheck(b) ==
  /\ batch[b] = "ran" /\ mu = NoOne
  /\ IF Cooling
     THEN batch' = [batch EXCEPT ![b] = "done"] /\ mu' = mu
     ELSE batch' = [batch EXCEPT ![b] = "decide"] /\ mu' = b
  /\ UNCHANGED <<cfg, recVars, request, manVars, failing, lastCapture, initiated, clock>>

\* Mutant of BatchSnapshot: the window opens although nothing was captured.
BatchSnapshotStamps(b) ==
  /\ batch[b] = "decide"
  /\ SnapshotIfAsync(b, b \in failing)
  /\ batch' = [batch EXCEPT ![b] = "stamp"] /\ mu' = mu
  /\ UNCHANGED <<cfg, enabled, latch, written, counted, request, manVars, failing,
                 lastCapture, clock>>

BatchSnapshot(b) ==
  /\ batch[b] = "decide"
  /\ SnapshotIfAsync(b, b \in failing)
  /\ IF Fires(b \in failing)
     THEN batch' = [batch EXCEPT ![b] = "stamp"] /\ mu' = mu
     ELSE batch' = [batch EXCEPT ![b] = "done"] /\ mu' = NoOne
  /\ UNCHANGED <<cfg, enabled, latch, written, counted, request, manVars, failing,
                 lastCapture, clock>>

BatchStamp(b) ==
  /\ batch[b] = "stamp"
  /\ lastCapture' = clock
  /\ mu' = NoOne
  /\ batch' = [batch EXCEPT ![b] = "done"]
  /\ UNCHANGED <<cfg, recVars, request, manVars, failing, initiated, clock>>

-----------------------------------------------------------------------------
RequestStep(r) == Serve(r) \/ Evaluate(r) \/ Rearm(r)
ManualStep(m) == ManualEnter(m) \/ Download(m) \/ ManualReset(m) \/ ManualSnapshot(m)
                 \/ ManualWritten(m)
BatchStep(b) == BatchRun(b) \/ CooldownCheck(b) \/ BatchSnapshot(b) \/ BatchStamp(b)
CaptureStep(c) == CaptureBegin(c) \/ CaptureEnd(c)

Next ==
  \/ Tick \/ Stop
  \/ \E r \in Requests : RequestStep(r)
  \/ \E m \in Manuals : ManualStep(m)
  \/ \E b \in Batches : BatchStep(b)
  \/ \E c \in Captures : CaptureStep(c)

Spec == Init /\ [][Next]_vars

\* The scheduler runs every goroutine that can take a step.
FairSpec ==
  /\ Spec
  /\ \A r \in Requests : WF_vars(Evaluate(r) \/ Rearm(r))
  /\ \A b \in Batches : WF_vars(CooldownCheck(b) \/ BatchSnapshot(b) \/ BatchStamp(b))
  /\ \A c \in Captures : WF_vars(CaptureStep(c))

-----------------------------------------------------------------------------
\* "The minimum duration between captures": whatever batches run concurrently,
\* the trigger never initiates two captures within one cooldown window.
CooldownHolds ==
  \A a, b \in Batches :
    a # b /\ initiated[a] # Never /\ initiated[b] >= initiated[a]
      => initiated[b] - initiated[a] >= cfg.cooldown

\* On a directory sink a manual snapshot or download that is answered 200 left
\* a whole trace, in the directory or in the response, whatever captures and
\* resets race with it, unless the recorder was stopped under it.
ManualHonest ==
  \A m \in Manuals :
    answer[m] = "200" /\ enabled /\ cfg.sink = "dir" => m \in written

\* Neither a request nor a health batch waits for the sink, even one that
\* blocks for ever.
CallersNeverWait ==
  /\ \A r \in Requests : request[r] = "error" ~> request[r] = "done"
  /\ \A b \in Batches : batch[b] = "ran" ~> batch[b] = "done"

\* No failing batch is dropped for nothing.  A trigger on an enabled recorder
\* passes over a failing batch only in a cooldown window that the capture of
\* another batch opened: batches that captured nothing (all services healthy)
\* open none, and without a cooldown every failing batch initiates a capture.
FailuresReported ==
  \A b \in failing :
    batch[b] = "done" /\ Fires(TRUE) /\ initiated[b] = Never
      => cfg.cooldown > 0 /\ \E a \in Batches \ {b} : initiated[a] # Never

\* "The manual capture works even if an automatic middleware capture already
\* consumed" the latch (handler.go:39): an answer of 200 from an enabled recorder
\* means a trace was written.
ManualAlwaysCaptures ==
  \A m \in Manuals : answer[m] = "200" /\ enabled => m \in written

=============================================================================
