------------------------- MODULE FlightRecorderProofs -------------------------
(***************************************************************************)
(* TLAPS proofs about FlightRecorder, for any number of requests, manual   *)
(* calls and health batches, any configurations and any clock bound.       *)
(*                                                                         *)
(* IInv is inductive: InitInv, one lemma per action, NextInv.              *)
(***************************************************************************)
EXTENDS FlightRecorder, TLAPS

\* Trigger.mu is held from the cooldown check to the stamp, by one batch.
LockHeld == \A b \in Batches : batch[b] \in {"decide", "stamp"} <=> mu = b

\* lastCapture covers every capture the trigger has initiated, but for the one
\* of the batch that is about to stamp it, and a batch that has passed the
\* check is still past the window.
Window ==
  /\ lastCapture <= clock
  /\ \A b \in Batches :
       /\ initiated[b] <= clock
       /\ batch[b] \in {"idle", "ran", "decide"} => initiated[b] = Never
       /\ batch[b] # "stamp" /\ initiated[b] # Never => lastCapture # Never /\ initiated[b] <= lastCapture
       /\ batch[b] = "decide" => lastCapture = Never \/ clock - lastCapture >= cfg.cooldown

IInv ==
  /\ TypeOK
  /\ LockHeld
  /\ Window
  /\ CooldownHolds
  /\ ManualHonest

-----------------------------------------------------------------------------
(* Frame lemmas *)

\* LockHeld, Window and CooldownHolds speak about these variables only.
LEMMA TriggerFrame ==
  ASSUME LockHeld, Window, CooldownHolds,
         UNCHANGED <<cfg, batch, mu, lastCapture, clock>>,
         \A b \in Batches : initiated'[b] = initiated[b]
  PROVE  LockHeld' /\ Window' /\ CooldownHolds'
BY DEF LockHeld, Window, CooldownHolds

\* ManualHonest survives as long as no answer changes: traces stay, and a
\* recorder that was stopped stays stopped.
LEMMA ManualFrame ==
  ASSUME ManualHonest, UNCHANGED <<cfg, answer>>, written \subseteq written', enabled' => enabled
  PROVE  ManualHonest'
BY DEF ManualHonest

\* What the middleware, the sink and the handler do leaves the trigger alone.
LEMMA OutsideTrigger ==
  ASSUME IInv, UNCHANGED <<cfg, batchVars, clock>>,
         \A b \in Batches : initiated'[b] = initiated[b]
  PROVE  LockHeld' /\ Window' /\ CooldownHolds'
BY TriggerFrame DEF IInv, batchVars

\* An asynchronous snapshot keeps its bookkeeping well-typed and stamps its
\* own capture only.
LEMMA SnapshotType ==
  ASSUME TypeOK, NEW c \in Captures, NEW err \in BOOLEAN, SnapshotIfAsync(c, err)
  PROVE  /\ inflight' \in [Captures -> {"none", "new", "writing"}]
         /\ initiated' \in [Captures -> {Never} \cup 0..MaxTime]
         /\ \A d \in Captures \ {c} : initiated'[d] = initiated[d]
         /\ initiated'[c] = IF Fires(err) THEN clock ELSE initiated[c]
<1>1. /\ inflight \in [Captures -> {"none", "new", "writing"}]
      /\ initiated \in [Captures -> {Never} \cup 0..MaxTime]
      /\ clock \in 0..MaxTime
  BY DEF TypeOK
<1> QED
  BY <1>1 DEF SnapshotIfAsync

-----------------------------------------------------------------------------
(* IInv is inductive *)

LEMMA InitInv == Init => IInv
<1> SUFFICES ASSUME Init PROVE IInv
  OBVIOUS
<1>1. TypeOK
  BY TimeAssumption DEF Init, TypeOK, Never
<1>2. LockHeld /\ Window /\ CooldownHolds /\ ManualHonest
  BY DistinctCallers DEF Init, LockHeld, Window, CooldownHolds, ManualHonest, Never, Captures
<1> QED
  BY <1>1, <1>2 DEF IInv

LEMMA TickInv ==
  ASSUME IInv, Tick
  PROVE  IInv'
<1>0. TypeOK /\ LockHeld /\ Window /\ CooldownHolds /\ ManualHonest
  BY DEF IInv
<1>1. TypeOK'
  BY <1>0, TimeAssumption DEF Tick, TypeOK, recVars, manVars, batchVars
<1>2. Window'
  <2>1. /\ clock \in Int /\ clock' = clock + 1 /\ lastCapture \in Int /\ cfg.cooldown \in Int
        /\ \A b \in Batches : initiated[b] \in Int
    BY <1>0, TimeAssumption DEF Tick, TypeOK, Captures, Never
  <2>2. UNCHANGED <<cfg, batch, lastCapture, initiated>>
    BY DEF Tick, batchVars
  <2> QED
    BY <1>0, <2>1, <2>2 DEF Window
<1>3. LockHeld' /\ CooldownHolds'
  BY <1>0 DEF Tick, LockHeld, CooldownHolds, batchVars
<1>4. ManualHonest'
  BY <1>0, ManualFrame DEF Tick, recVars, manVars
<1> QED
  BY <1>1, <1>2, <1>3, <1>4 DEF IInv

LEMMA StopInv ==
  ASSUME IInv, Stop
  PROVE  IInv'
<1>1. TypeOK'
  BY DEF IInv, Stop, TypeOK, manVars, batchVars
<1>2. LockHeld' /\ Window' /\ CooldownHolds'
  BY OutsideTrigger DEF Stop
<1>3. ManualHonest'
  BY ManualFrame DEF IInv, Stop, manVars
<1> QED
  BY <1>1, <1>2, <1>3 DEF IInv

LEMMA CaptureInv ==
  ASSUME IInv, NEW c \in Captures, CaptureStep(c)
  PROVE  IInv'
<1>1. TypeOK'
  <2>1. inflight' \in [Captures -> {"none", "new", "writing"}]
    BY DEF IInv, TypeOK, CaptureStep, CaptureBegin, CaptureEnd
  <2>2. latch' \in BOOLEAN
    <3>1. latch \in BOOLEAN /\ (latch' = (latch /\ cfg.sink = "dir") \/ latch' = latch)
      BY DEF IInv, TypeOK, CaptureStep, CaptureBegin, CaptureEnd
    <3> QED
      BY <3>1
  <2>4. written' \subseteq Captures \cup Manuals /\ counted' \in Nat
    <3>1. written \subseteq Captures \cup Manuals /\ counted \in Nat
      BY DEF IInv, TypeOK
    <3> QED
      BY <3>1 DEF CaptureStep, CaptureBegin, CaptureEnd
  <2>3. UNCHANGED <<cfg, enabled, request, manVars, batchVars, initiated, clock>>
    BY DEF CaptureStep, CaptureBegin, CaptureEnd
  <2> QED
    BY <2>1, <2>2, <2>3, <2>4 DEF IInv, TypeOK, manVars, batchVars
<1>2. LockHeld' /\ Window' /\ CooldownHolds'
  BY OutsideTrigger DEF CaptureStep, CaptureBegin, CaptureEnd
<1>3. ManualHonest'
  BY ManualFrame DEF IInv, CaptureStep, CaptureBegin, CaptureEnd, manVars
<1> QED
  BY <1>1, <1>2, <1>3 DEF IInv

LEMMA RequestInv ==
  ASSUME IInv, NEW r \in Requests, RequestStep(r)
  PROVE  IInv'
<1>1. CASE Serve(r) \/ Rearm(r)
  <2>1. TypeOK'
    <3>1. request' \in [Requests -> {"idle", "ok", "error", "rearm", "done"}]
      BY <1>1 DEF IInv, TypeOK, Serve, Rearm
    <3>2. latch \in BOOLEAN /\ (latch' = latch \/ latch' = (latch \/ cfg.autoReset))
      BY <1>1 DEF IInv, TypeOK, Serve, Rearm, recVars
    <3>3. latch' \in BOOLEAN
      BY <3>2
    <3>4. UNCHANGED <<cfg, enabled, inflight, written, counted, manVars, batchVars, initiated, clock>>
      BY <1>1 DEF Serve, Rearm, recVars
    <3> QED
      BY <3>1, <3>3, <3>4 DEF IInv, TypeOK, manVars, batchVars
  <2>2. LockHeld' /\ Window' /\ CooldownHolds'
    BY <1>1, OutsideTrigger DEF Serve, Rearm
  <2>3. ManualHonest'
    BY <1>1, ManualFrame DEF IInv, Serve, Rearm, recVars, manVars
  <2> QED
    BY <2>1, <2>2, <2>3 DEF IInv
<1>2. CASE Evaluate(r)
  <2> DEFINE err == request[r] = "error"
  <2>1. r \in Captures /\ err \in BOOLEAN /\ SnapshotIfAsync(r, err) /\ TypeOK
    BY <1>2 DEF Captures, Evaluate, IInv
  <2>2. /\ inflight' \in [Captures -> {"none", "new", "writing"}]
        /\ initiated' \in [Captures -> {Never} \cup 0..MaxTime]
        /\ \A d \in Captures \ {r} : initiated'[d] = initiated[d]
    BY <2>1, SnapshotType
  <2>3. request' \in [Requests -> {"idle", "ok", "error", "rearm", "done"}]
    BY <1>2 DEF Evaluate, IInv, TypeOK
  <2>4. UNCHANGED <<cfg, enabled, latch, written, counted, manVars, batchVars, clock>>
    BY <1>2 DEF Evaluate
  <2>5. TypeOK'
    BY <2>1, <2>2, <2>3, <2>4 DEF TypeOK, manVars, batchVars
  <2>6. \A b \in Batches : initiated'[b] = initiated[b]
    BY <2>2, DistinctCallers DEF Captures
  <2>7. LockHeld' /\ Window' /\ CooldownHolds'
    BY <2>4, <2>6, OutsideTrigger
  <2>8. ManualHonest'
    BY <2>4, ManualFrame DEF IInv, manVars
  <2> QED
    BY <2>5, <2>7, <2>8 DEF IInv
<1> QED
  BY <1>1, <1>2 DEF RequestStep

\* An answer of 200 from an enabled recorder on a directory sink leaves a trace.
LEMMA ManualInv ==
  ASSUME IInv, NEW m \in Manuals, ManualStep(m)
  PROVE  IInv'
<1>0. TypeOK /\ ManualHonest
  BY DEF IInv
<1>1. UNCHANGED <<cfg, enabled, inflight, request, batchVars, initiated, clock>>
  BY DEF ManualStep, ManualEnter, Download, ManualReset, ManualSnapshot, ManualWritten, recVars
<1>2. /\ manual \in [Manuals -> {"idle", "reset", "snapshot", "writing", "download", "done"}]
      /\ answer \in [Manuals -> {"none", "200", "500", "503"}]
      /\ written \subseteq Captures \cup Manuals /\ counted \in Nat /\ latch \in BOOLEAN
  BY <1>0 DEF TypeOK
<1>3. TypeOK'
  <2>1. manual' \in [Manuals -> {"idle", "reset", "snapshot", "writing", "download", "done"}]
    BY <1>2 DEF ManualStep, ManualEnter, Download, ManualReset, ManualSnapshot, ManualWritten, Reply
  <2>2. answer' \in [Manuals -> {"none", "200", "500", "503"}]
    BY <1>2 DEF ManualStep, ManualEnter, Download, ManualReset, ManualSnapshot, ManualWritten, Reply
  <2>3. written' \subseteq Captures \cup Manuals /\ counted' \in Nat
    BY <1>2 DEF ManualStep, ManualEnter, Download, ManualReset, ManualSnapshot, ManualWritten, recVars
  <2>4. latch' = latch \/ latch' = TRUE \/ latch' = (latch /\ cfg.sink = "dir")
    BY DEF ManualStep, ManualEnter, Download, ManualReset, ManualSnapshot, ManualWritten, recVars
  <2>5. latch' \in BOOLEAN
    BY <1>2, <2>4
  <2> QED
    BY <1>0, <1>1, <2>1, <2>2, <2>3, <2>5 DEF TypeOK, batchVars
<1>4. LockHeld' /\ Window' /\ CooldownHolds'
  BY <1>1, OutsideTrigger
<1>5. ManualHonest'
  <2>1. CASE ManualEnter(m)
    BY <1>0, <1>1, <1>2, <2>1 DEF ManualEnter, Reply, ManualHonest, recVars
  <2>2. CASE Download(m)
    BY <1>0, <1>1, <1>2, <2>2 DEF Download, Reply, ManualHonest
  <2>3. CASE ManualReset(m)
    BY <1>0, <2>3, ManualFrame DEF ManualReset
  <2>4. CASE ManualSnapshot(m)
    BY <1>0, <1>1, <1>2, <2>4 DEF ManualSnapshot, Reply, ManualHonest
  <2>5. CASE ManualWritten(m)
    BY <1>0, <1>1, <1>2, <2>5 DEF ManualWritten, Reply, ManualHonest
  <2> QED
    BY <2>1, <2>2, <2>3, <2>4, <2>5 DEF ManualStep
<1> QED
  BY <1>3, <1>4, <1>5 DEF IInv

LEMMA BatchRunInv ==
  ASSUME IInv, NEW b \in Batches, BatchRun(b)
  PROVE  IInv'
<1>0. TypeOK /\ LockHeld /\ Window /\ CooldownHolds /\ ManualHonest
  BY DEF IInv
<1>1. batch' \in [Batches -> {"idle", "ran", "decide", "stamp", "done"}] /\ failing' \subseteq Batches
  BY <1>0 DEF BatchRun, TypeOK
<1>2. UNCHANGED <<cfg, recVars, request, manVars, mu, lastCapture, initiated, clock>>
  BY DEF BatchRun
<1>3. TypeOK'
  BY <1>0, <1>1, <1>2 DEF TypeOK, recVars, manVars
<1>4. batch[b] = "idle" /\ batch'[b] = "ran" /\ \A a \in Batches \ {b} : batch'[a] = batch[a]
  BY <1>0 DEF BatchRun, TypeOK
<1>5. LockHeld'
  BY <1>0, <1>2, <1>4 DEF LockHeld
<1>6. Window' /\ CooldownHolds'
  BY <1>0, <1>2, <1>4 DEF Window, CooldownHolds
<1>7. ManualHonest'
  BY <1>0, <1>2, ManualFrame DEF recVars, manVars
<1> QED
  BY <1>3, <1>5, <1>6, <1>7 DEF IInv

LEMMA CooldownCheckInv ==
  ASSUME IInv, NEW b \in Batches, CooldownCheck(b)
  PROVE  IInv'
<1>0. TypeOK /\ LockHeld /\ Window /\ CooldownHolds /\ ManualHonest
  BY DEF IInv
<1>1. /\ batch' \in [Batches -> {"idle", "ran", "decide", "stamp", "done"}]
      /\ mu' \in Batches \cup {NoOne}
  BY <1>0 DEF CooldownCheck, TypeOK
<1>2. UNCHANGED <<cfg, recVars, request, manVars, failing, lastCapture, initiated, clock>>
  BY DEF CooldownCheck
<1>3. TypeOK'
  BY <1>0, <1>1, <1>2 DEF TypeOK, recVars, manVars
<1>4. /\ mu = NoOne /\ batch[b] = "ran"
      /\ \/ Cooling /\ batch'[b] = "done" /\ mu' = mu
         \/ ~Cooling /\ batch'[b] = "decide" /\ mu' = b
      /\ \A a \in Batches \ {b} : batch'[a] = batch[a]
  BY <1>0 DEF CooldownCheck, TypeOK
<1>5. LockHeld'
  BY <1>0, <1>4, DistinctCallers DEF LockHeld
<1>6. Window'
  <2>1. ~Cooling => lastCapture = Never \/ clock - lastCapture >= cfg.cooldown
    <3>1. clock \in Int /\ lastCapture \in Int /\ cfg.cooldown \in Int
      BY <1>0, TimeAssumption DEF TypeOK, Never
    <3> QED
      BY <3>1 DEF Cooling
  <2> QED
    BY <1>0, <1>2, <1>4, <2>1 DEF Window
<1>7. CooldownHolds'
  BY <1>0, <1>2 DEF CooldownHolds
<1>8. ManualHonest'
  BY <1>0, <1>2, ManualFrame DEF recVars, manVars
<1> QED
  BY <1>3, <1>5, <1>6, <1>7, <1>8 DEF IInv

\* The step the cooldown is about: mu excludes every other batch that has
\* initiated a capture and not stamped it yet, so lastCapture covers them all.
LEMMA BatchSnapshotInv ==
  ASSUME IInv, NEW b \in Batches, BatchSnapshot(b)
  PROVE  IInv'
<1>0. TypeOK /\ LockHeld /\ Window /\ CooldownHolds /\ ManualHonest
  BY DEF IInv
<1> DEFINE F == Fires(b \in failing)
<1>1. /\ inflight' \in [Captures -> {"none", "new", "writing"}]
      /\ initiated' \in [Captures -> {Never} \cup 0..MaxTime]
      /\ \A d \in Captures \ {b} : initiated'[d] = initiated[d]
      /\ initiated'[b] = IF F THEN clock ELSE initiated[b]
  <2>1. b \in Captures /\ (b \in failing) \in BOOLEAN
    BY DEF Captures
  <2> QED
    BY <1>0, <2>1, SnapshotType DEF BatchSnapshot
<1>2. /\ batch[b] = "decide"
      /\ \/ F /\ batch'[b] = "stamp" /\ mu' = mu
         \/ ~F /\ batch'[b] = "done" /\ mu' = NoOne
      /\ \A a \in Batches \ {b} : batch'[a] = batch[a]
  BY <1>0 DEF BatchSnapshot, TypeOK
<1>3. UNCHANGED <<cfg, enabled, latch, written, counted, request, manVars, failing, lastCapture, clock>>
  BY DEF BatchSnapshot
<1>4. TypeOK'
  <2>1. /\ batch' \in [Batches -> {"idle", "ran", "decide", "stamp", "done"}]
        /\ mu' \in Batches \cup {NoOne}
    BY <1>0 DEF BatchSnapshot, TypeOK
  <2> QED
    BY <1>0, <1>1, <1>3, <2>1 DEF TypeOK, manVars
<1> HIDE DEF F
<1>5. mu = b /\ \A a \in Batches \ {b} : batch[a] \notin {"decide", "stamp"}
  BY <1>0, <1>2 DEF LockHeld
<1>6. LockHeld'
  BY <1>0, <1>2, <1>5, DistinctCallers DEF LockHeld
<1>7. \A a \in Batches : a # b => initiated'[a] = initiated[a]
  BY <1>1 DEF Captures
<1>8. /\ clock \in Nat /\ lastCapture \in Int /\ cfg.cooldown \in Int
      /\ \A a \in Batches : initiated[a] \in Int
  BY <1>0, TimeAssumption DEF TypeOK, Captures, Never
<1>9. Window'
  <2>1. \A a \in Batches : a # b => /\ initiated[a] <= clock
                                    /\ batch[a] \in {"idle", "ran", "decide"} => initiated[a] = Never
                                    /\ initiated[a] # Never => lastCapture # Never /\ initiated[a] <= lastCapture
    BY <1>0, <1>5 DEF Window
  <2>2. initiated'[b] <= clock /\ (~F => initiated'[b] = Never)
    BY <1>0, <1>1, <1>2, <1>8 DEF Window
  <2>3. lastCapture <= clock
    BY <1>0 DEF Window
  <2> QED
    BY <1>2, <1>3, <1>5, <1>7, <2>1, <2>2, <2>3 DEF Window
<1>10. CooldownHolds'
  <2>1. CASE ~F
    BY <1>0, <1>1, <1>3, <1>7, <2>1 DEF CooldownHolds
  <2>2. CASE F
    <3>1. ASSUME NEW a \in Batches, a # b, initiated[a] # Never
          PROVE  /\ clock - initiated[a] >= cfg.cooldown
                 /\ initiated[a] >= clock => initiated[a] - clock >= cfg.cooldown
      <4>1. lastCapture # Never /\ initiated[a] <= lastCapture /\ lastCapture <= clock
        BY <1>0, <1>5, <3>1 DEF Window
      <4>2. clock - lastCapture >= cfg.cooldown
        BY <1>0, <1>2, <4>1 DEF Window
      <4> QED
        BY <1>8, <4>1, <4>2
    <3>2. clock >= Never /\ ~(Never >= clock)
      BY <1>8 DEF Never
    <3>3. initiated'[b] = clock
      BY <1>1, <2>2
    <3> QED
      BY <1>0, <1>3, <1>7, <3>1, <3>2, <3>3 DEF CooldownHolds
  <2> QED
    BY <2>1, <2>2
<1>11. ManualHonest'
  BY <1>0, <1>3, ManualFrame DEF manVars
<1> QED
  BY <1>4, <1>6, <1>9, <1>10, <1>11 DEF IInv

LEMMA BatchStampInv ==
  ASSUME IInv, NEW b \in Batches, BatchStamp(b)
  PROVE  IInv'
<1>0. TypeOK /\ LockHeld /\ Window /\ CooldownHolds /\ ManualHonest
  BY DEF IInv
<1>1. /\ batch[b] = "stamp" /\ batch'[b] = "done" /\ lastCapture' = clock /\ mu' = NoOne
      /\ \A a \in Batches \ {b} : batch'[a] = batch[a]
  BY <1>0 DEF BatchStamp, TypeOK
<1>2. UNCHANGED <<cfg, recVars, request, manVars, failing, initiated, clock>>
  BY DEF BatchStamp
<1>3. TypeOK'
  <2>1. batch' \in [Batches -> {"idle", "ran", "decide", "stamp", "done"}]
    BY <1>0 DEF BatchStamp, TypeOK
  <2> QED
    BY <1>0, <1>1, <1>2, <2>1 DEF TypeOK, recVars, manVars
<1>4. mu = b /\ \A a \in Batches \ {b} : batch[a] \notin {"decide", "stamp"}
  BY <1>0, <1>1 DEF LockHeld
<1>5. LockHeld'
  BY <1>0, <1>1, <1>4, DistinctCallers DEF LockHeld
<1>6. Window'
  <2>1. clock \in Nat /\ clock # Never /\ clock <= clock
    BY <1>0, TimeAssumption DEF TypeOK, Never
  <2> QED
    BY <1>0, <1>1, <1>2, <1>4, <2>1 DEF Window
<1>7. CooldownHolds'
  BY <1>0, <1>2 DEF CooldownHolds
<1>8. ManualHonest'
  BY <1>0, <1>2, ManualFrame DEF recVars, manVars
<1> QED
  BY <1>3, <1>5, <1>6, <1>7, <1>8 DEF IInv

LEMMA StutterInv ==
  ASSUME IInv, UNCHANGED vars
  PROVE  IInv'
<1>1. TypeOK'
  BY DEF IInv, TypeOK, vars, recVars, manVars, batchVars
<1>2. LockHeld' /\ Window' /\ CooldownHolds' /\ ManualHonest'
  BY OutsideTrigger, ManualFrame DEF IInv, vars, recVars, manVars
<1> QED
  BY <1>1, <1>2 DEF IInv

LEMMA NextInv == IInv /\ [Next]_vars => IInv'
<1> SUFFICES ASSUME IInv, [Next]_vars PROVE IInv'
  OBVIOUS
<1>1. CASE Tick \/ Stop
  BY <1>1, TickInv, StopInv
<1>2. CASE \E r \in Requests : RequestStep(r)
  BY <1>2, RequestInv
<1>3. CASE \E m \in Manuals : ManualStep(m)
  BY <1>3, ManualInv
<1>4. CASE \E b \in Batches : BatchStep(b)
  BY <1>4, BatchRunInv, CooldownCheckInv, BatchSnapshotInv, BatchStampInv DEF BatchStep
<1>5. CASE \E c \in Captures : CaptureStep(c)
  BY <1>5, CaptureInv
<1>6. CASE UNCHANGED vars
  BY <1>6, StutterInv
<1> QED
  BY <1>1, <1>2, <1>3, <1>4, <1>5, <1>6 DEF Next

-----------------------------------------------------------------------------
(* What opens a cooldown window *)

\* Only a capture stamps lastCapture.
WindowOpened ==
  /\ lastCapture # Never => \E a \in Batches : initiated[a] # Never
  /\ \A b \in Batches : batch[b] = "stamp" => initiated[b] # Never

RInv == WindowOpened /\ FailuresReported

LEMMA InitReported == Init => RInv
BY DEF Init, RInv, WindowOpened, FailuresReported

\* A step that leaves the trigger alone, and the recorder enabled only if it
\* was, preserves RInv.
LEMMA ReportedFrame ==
  ASSUME RInv, UNCHANGED <<cfg, batch, failing, lastCapture>>, enabled' => enabled,
         \A b \in Batches : initiated'[b] = initiated[b], failing \subseteq Batches
  PROVE  RInv'
BY DEF RInv, WindowOpened, FailuresReported, Fires

\* The steps outside the trigger.
LEMMA ReportedOutside ==
  ASSUME IInv, RInv,
         \/ Tick \/ Stop \/ UNCHANGED vars
         \/ \E r \in Requests : RequestStep(r)
         \/ \E m \in Manuals : ManualStep(m)
         \/ \E c \in Captures : CaptureStep(c)
  PROVE  RInv'
<1>0. TypeOK /\ failing \subseteq Batches
  BY DEF IInv, TypeOK
<1>1. CASE Tick \/ Stop \/ UNCHANGED vars
  BY <1>0, <1>1, ReportedFrame DEF Tick, Stop, vars, recVars, batchVars
<1>2. CASE \E r \in Requests : Serve(r) \/ Rearm(r)
  BY <1>0, <1>2, ReportedFrame DEF Serve, Rearm, recVars, batchVars
<1>3. CASE \E r \in Requests : Evaluate(r)
  <2>1. PICK r \in Requests : Evaluate(r)
    BY <1>3
  <2>2. r \in Captures /\ (request[r] = "error") \in BOOLEAN
    BY DEF Captures
  <2>3. \A d \in Captures \ {r} : initiated'[d] = initiated[d]
    BY <1>0, <2>1, <2>2, SnapshotType DEF Evaluate
  <2>4. \A b \in Batches : initiated'[b] = initiated[b]
    BY <2>3, DistinctCallers DEF Captures
  <2> QED
    BY <1>0, <2>1, <2>4, ReportedFrame DEF Evaluate, batchVars
<1>4. CASE \E m \in Manuals : ManualStep(m)
  BY <1>0, <1>4, ReportedFrame
  DEF ManualStep, ManualEnter, Download, ManualReset, ManualSnapshot, ManualWritten, recVars, batchVars
<1>5. CASE \E c \in Captures : CaptureStep(c)
  BY <1>0, <1>5, ReportedFrame DEF CaptureStep, CaptureBegin, CaptureEnd, batchVars
<1> QED
  BY <1>1, <1>2, <1>3, <1>4, <1>5 DEF RequestStep

\* A batch is passed over in an open window, and a window was opened by a capture.
LEMMA ReportedCheck ==
  ASSUME IInv, RInv, NEW b \in Batches, CooldownCheck(b)
  PROVE  RInv'
<1>0. TypeOK /\ Window
  BY DEF IInv
<1>1. UNCHANGED <<cfg, enabled, failing, lastCapture, initiated>>
  BY DEF CooldownCheck, recVars
<1>2. /\ batch[b] = "ran"
      /\ \/ batch'[b] = "decide"
         \/ batch'[b] = "done" /\ Cooling
      /\ \A a \in Batches \ {b} : batch'[a] = batch[a]
  BY <1>0 DEF CooldownCheck, TypeOK
<1>3. WindowOpened'
  BY <1>1, <1>2 DEF RInv, WindowOpened
<1>4. Cooling => cfg.cooldown > 0 /\ \E a \in Batches : initiated[a] # Never
  <2>1. clock \in Int /\ lastCapture \in Int /\ cfg.cooldown \in Int /\ lastCapture <= clock
    BY <1>0, TimeAssumption DEF TypeOK, Never, Window
  <2> QED
    BY <2>1 DEF Cooling, RInv, WindowOpened
<1>5. initiated[b] = Never
  BY <1>0, <1>2 DEF Window
<1>6. FailuresReported'
  BY <1>0, <1>1, <1>2, <1>4, <1>5 DEF TypeOK, RInv, FailuresReported, Fires
<1> QED
  BY <1>3, <1>6 DEF RInv

\* A batch that reaches the recorder initiates a capture whenever it fires.
LEMMA ReportedSnapshot ==
  ASSUME IInv, RInv, NEW b \in Batches, BatchSnapshot(b)
  PROVE  RInv'
<1>0. TypeOK /\ failing \subseteq Batches /\ clock \in Nat
  BY TimeAssumption DEF IInv, TypeOK
<1>1. UNCHANGED <<cfg, enabled, failing, lastCapture>>
  BY DEF BatchSnapshot
<1> DEFINE F == Fires(b \in failing)
<1>2. /\ \A d \in Captures \ {b} : initiated'[d] = initiated[d]
      /\ initiated'[b] = IF F THEN clock ELSE initiated[b]
  <2>1. b \in Captures /\ (b \in failing) \in BOOLEAN
    BY DEF Captures
  <2> QED
    BY <1>0, <2>1, SnapshotType DEF BatchSnapshot
<1>3. /\ \/ F /\ batch'[b] = "stamp"
         \/ ~F /\ batch'[b] = "done"
      /\ \A a \in Batches \ {b} : batch'[a] = batch[a]
  BY <1>0 DEF BatchSnapshot, TypeOK
<1>4. b \in failing /\ Fires(TRUE) => F
  BY DEF Fires
<1>5. Fires(TRUE)' = Fires(TRUE)
  BY <1>1 DEF Fires
<1> HIDE DEF F
<1>6. clock # Never
  BY <1>0 DEF Never
<1>7. /\ \A a \in Batches \ {b} : initiated'[a] = initiated[a]
      /\ initiated[b] # Never => initiated'[b] # Never
  BY <1>2, <1>6 DEF Captures
<1>8. WindowOpened'
  BY <1>1, <1>2, <1>3, <1>6, <1>7 DEF RInv, WindowOpened
<1>9. FailuresReported'
  BY <1>0, <1>1, <1>2, <1>3, <1>4, <1>5, <1>6, <1>7 DEF RInv, FailuresReported
<1> QED
  BY <1>8, <1>9 DEF RInv

LEMMA ReportedStamp ==
  ASSUME IInv, RInv, NEW b \in Batches, BatchRun(b) \/ BatchStamp(b)
  PROVE  RInv'
<1>0. TypeOK
  BY DEF IInv
<1>1. UNCHANGED <<cfg, enabled, initiated>> /\ \A a \in Batches \ {b} : batch'[a] = batch[a]
  BY <1>0 DEF BatchRun, BatchStamp, recVars, TypeOK
<1>2. CASE BatchRun(b)
  <2>1. batch'[b] = "ran" /\ lastCapture' = lastCapture /\ (failing' = failing \/ failing' = failing \cup {b})
    BY <1>0, <1>2 DEF BatchRun, TypeOK
  <2> QED
    BY <1>0, <1>1, <2>1 DEF RInv, WindowOpened, FailuresReported, Fires, TypeOK
<1>3. CASE BatchStamp(b)
  <2>1. batch[b] = "stamp" /\ batch'[b] = "done" /\ failing' = failing
    BY <1>0, <1>3 DEF BatchStamp, TypeOK
  <2>2. initiated[b] # Never
    BY <2>1 DEF RInv, WindowOpened
  <2> QED
    BY <1>0, <1>1, <2>1, <2>2 DEF RInv, WindowOpened, FailuresReported, Fires, TypeOK
<1> QED
  BY <1>2, <1>3

LEMMA NextReported == IInv /\ RInv /\ [Next]_vars => RInv'
<1> SUFFICES ASSUME IInv, RInv, [Next]_vars PROVE RInv'
  OBVIOUS
<1>1. CASE \E b \in Batches : BatchStep(b)
  BY <1>1, ReportedCheck, ReportedSnapshot, ReportedStamp DEF BatchStep
<1>2. CASE ~\E b \in Batches : BatchStep(b)
  BY <1>2, ReportedOutside DEF Next
<1> QED
  BY <1>1, <1>2

-----------------------------------------------------------------------------
(* Theorems *)

\* IInv holds in every reachable state of FlightRecorder.
THEOREM InvariantHolds == Spec => []IInv
  BY InitInv, NextInv, PTL DEF Spec

\* However many health batches run concurrently and whatever the cooldown, the
\* trigger never initiates two captures less than a cooldown apart.
THEOREM CooldownKept == Spec => []CooldownHolds
<1>1. IInv => CooldownHolds
  BY DEF IInv
<1> QED
  BY <1>1, InvariantHolds, PTL

\* A trigger on an enabled recorder passes over a failing batch only within a
\* cooldown, and only after the capture of another batch.
THEOREM NoFailureDropped == Spec => []FailuresReported
<1>1. RInv => FailuresReported
  BY DEF RInv
<1> QED
  BY <1>1, InvariantHolds, InitReported, NextReported, PTL DEF Spec

\* On a directory sink an answer of 200 from the snapshot handler means the
\* trace was written, unless the recorder was stopped meanwhile.
THEOREM SnapshotHonest == Spec => []ManualHonest
<1>1. IInv => ManualHonest
  BY DEF IInv
<1> QED
  BY <1>1, InvariantHolds, PTL

=============================================================================
