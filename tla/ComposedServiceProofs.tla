------------------------ MODULE ComposedServiceProofs ------------------------
(***************************************************************************)
(* Proofs about a service put together from its legs (ComposedService),    *)
(* for every hook list, and about the health surface on its own            *)
(* (HealthSurface) for any number of callers: what holds when their calls  *)
(* do not overlap, which is how the hooks of a service drive it, and what  *)
(* is left when they do.                                                   *)
(***************************************************************************)
EXTENDS ComposedService, FiniteSetTheorems, TLAPS

-----------------------------------------------------------------------------
(* The inductive invariant of the health surface *)

\* One call at a time.  A call that is under way knows how far it has got: the
\* flag is claimed throughout a Start, the loop runs once the probe is up, and
\* it is stopped before a Shutdown clears the flag.
CallProgress ==
  /\ IsFiniteSet(Active)
  /\ \A c, d \in Active : c = d
  /\ \A c \in Callers :
       /\ call[c] \in {"probe", "dash", "undo"} => started
       /\ call[c] = "dash" => loop /\ Dashboard
       /\ call[c] \in {"clear", "close"} => ~loop
       /\ call[c] = "close" => ~started
  /\ ~Dashboard => ~pusher

SurfaceInv ==
  /\ SurfaceTypeOK
  /\ CallProgress
  /\ FlagTruthful
  /\ ShutdownStops

LEMMA SurfaceInvInit ==
  ASSUME SurfaceInit
  PROVE  SurfaceInv
<1>1. SurfaceTypeOK
  <2>1. calls \in [Callers -> 0..MaxCalls]
    BY HealthAssumption DEF SurfaceInit
  <2>2. call \in [Callers -> {"idle"} \cup StartSteps \cup StopSteps]
    BY DEF SurfaceInit
  <2>3. outcome \in [Callers -> {"none", "started", "rejected", "failed", "stopped"}]
    BY DEF SurfaceInit
  <2> QED
    BY <2>1, <2>2, <2>3 DEF SurfaceInit, SurfaceTypeOK
<1>2. Active = {}
  BY DEF SurfaceInit, Active
<1>3. IsFiniteSet(Active)
  BY <1>2, FS_EmptySet
<1>4. CallProgress
  BY <1>2, <1>3 DEF SurfaceInit, CallProgress
<1> QED
  BY <1>1, <1>4 DEF SurfaceInv, SurfaceInit, FlagTruthful, ShutdownStops

\* The bound on calls under way lets a call begin only when there is none.
LEMMA BeginsAlone ==
  ASSUME MaxActive = 1, CallProgress, NEW c \in Callers, NEW at, Begin(c, at)
  PROVE  Active = {}
<1>1. Cardinality(Active) < 1 /\ IsFiniteSet(Active)
  BY DEF Begin, CallProgress
<1>2. Cardinality(Active) \in Nat
  BY <1>1, FS_CardinalityType
<1>3. Cardinality(Active) = 0
  BY <1>1, <1>2
<1> QED
  BY <1>1, <1>3, FS_EmptySet

\* What a step does to the calls under way: caller c's call moves to `at`.
LEMMA Moved ==
  ASSUME SurfaceTypeOK, CallProgress, NEW c \in Callers, NEW at,
         call' = [call EXCEPT ![c] = at],
         Active \subseteq {c}
  PROVE  /\ IsFiniteSet(Active')
         /\ \A d, e \in Active' : d = e
         /\ call'[c] = at
         /\ \A d \in Callers : d # c => call'[d] = "idle" /\ call[d] = "idle"
         /\ at = "idle" <=> Active' = {}
<1>1. \A d \in Callers : call'[d] = IF d = c THEN at ELSE call[d]
  BY DEF SurfaceTypeOK
<1>2. \A d \in Callers : d # c => call[d] = "idle"
  BY DEF Active
<1>3. Active' \in SUBSET {c} /\ (at = "idle" <=> Active' = {})
  BY <1>1, <1>2 DEF Active
<1>4. IsFiniteSet({c})
  BY FS_Singleton
<1>5. IsFiniteSet(Active')
  BY <1>3, <1>4, FS_Subset
<1> QED
  BY <1>1, <1>2, <1>3, <1>5

LEMMA SurfaceType ==
  ASSUME SurfaceTypeOK, [SurfaceNext]_healthVars
  PROVE  SurfaceTypeOK'
<1> USE DEF SurfaceTypeOK, StartSteps, StopSteps
<1>1. CASE UNCHANGED healthVars
  BY <1>1 DEF healthVars, surfaceVars, callVars
<1>2. CASE Drain \/ Refresh
  BY <1>2 DEF Drain, Refresh, callVars
<1>3. ASSUME NEW c \in Callers, StartClaim(c) \/ StartRejected(c) \/ ShutdownBegin(c)
      PROVE  SurfaceTypeOK'
  <2>1. calls' \in [Callers -> 0..MaxCalls]
    BY <1>3, HealthAssumption DEF StartClaim, StartRejected, ShutdownBegin, Begin
  <2>2. call' \in [Callers -> {"idle"} \cup StartSteps \cup StopSteps]
    BY <1>3 DEF StartClaim, StartRejected, ShutdownBegin, Begin
  <2>3. outcome' \in [Callers -> {"none", "started", "rejected", "failed", "stopped"}]
    BY <1>3 DEF StartClaim, StartRejected, ShutdownBegin
  <2> QED
    BY <1>3, <2>1, <2>2, <2>3
       DEF StartClaim, StartRejected, ShutdownBegin, surfaceVars
<1>4. ASSUME NEW c \in Callers, CallStep(c)
      PROVE  SurfaceTypeOK'
  BY <1>4 DEF CallStep, ProbeStart, ProbeStartFails, DashboardStart,
     DashboardStartFails, StartUndo, ShutdownMark, ProbeShutdown,
     ShutdownClear, DashboardShutdown, Step, Return, surfaceVars
<1> QED
  BY <1>1, <1>2, <1>3, <1>4 DEF SurfaceNext

\* A caller whose call is under way is the only one.
LEMMA OnlyActive ==
  ASSUME CallProgress, NEW c \in Callers, call[c] # "idle"
  PROVE  Active \subseteq {c}
  BY DEF CallProgress, Active

LEMMA SurfaceStep ==
  ASSUME MaxActive = 1, SurfaceInv, [SurfaceNext]_healthVars
  PROVE  SurfaceInv'
<1>1. SurfaceTypeOK' /\ SurfaceTypeOK /\ CallProgress /\ FlagTruthful /\ ShutdownStops
  BY SurfaceType DEF SurfaceInv
<1>2. CASE UNCHANGED healthVars
  BY <1>1, <1>2 DEF healthVars, surfaceVars, callVars, SurfaceInv, CallProgress,
     FlagTruthful, ShutdownStops, Active
<1>3. CASE Drain \/ Refresh
  BY <1>1, <1>3 DEF Drain, Refresh, callVars, SurfaceInv, CallProgress,
     FlagTruthful, ShutdownStops, Active
<1>4. ASSUME NEW c \in Callers, StartClaim(c) \/ ShutdownBegin(c)
      PROVE  SurfaceInv'
  <2>1. PICK at \in {"probe", "mark"} : Begin(c, at)
    BY <1>4 DEF StartClaim, ShutdownBegin
  <2>2. Active = {} /\ call' = [call EXCEPT ![c] = at]
    <3>1. Active = {}
      BY <1>1, <2>1, BeginsAlone
    <3> QED
      BY <2>1, <3>1 DEF Begin
  <2>3. /\ IsFiniteSet(Active') /\ \A d, e \in Active' : d = e
        /\ call'[c] = at /\ \A d \in Callers : d # c => call'[d] = "idle"
        /\ Active' # {}
    BY <1>1, <2>2, Moved
  <2>4. at = "probe" => started'
    BY <1>4, <2>1, <2>3 DEF StartClaim, ShutdownBegin, Begin, SurfaceTypeOK
  <2>5. pusher' = pusher
    BY <1>4 DEF StartClaim, ShutdownBegin, surfaceVars
  <2>6. CallProgress'
    BY <1>1, <2>3, <2>4, <2>5 DEF CallProgress
  <2> QED
    BY <1>1, <2>3, <2>6 DEF SurfaceInv, FlagTruthful, ShutdownStops
<1>5. ASSUME NEW c \in Callers, StartRejected(c)
      PROVE  SurfaceInv'
  BY <1>1, <1>5 DEF StartRejected, surfaceVars, SurfaceInv, CallProgress,
     FlagTruthful, ShutdownStops, Active
<1>6. ASSUME NEW c \in Callers, CallStep(c)
      PROVE  SurfaceInv'
  <2>1. /\ call[c] # "idle" /\ \E at \in {"idle", "dash", "undo", "stop", "clear", "close"} :
                                  call' = [call EXCEPT ![c] = at]
    BY <1>6 DEF CallStep, ProbeStart, ProbeStartFails, DashboardStart,
       DashboardStartFails, StartUndo, ShutdownMark, ProbeShutdown,
       ShutdownClear, DashboardShutdown, Step, Return
  <2>2. PICK at \in {"idle", "dash", "undo", "stop", "clear", "close"} :
          call' = [call EXCEPT ![c] = at]
    BY <2>1
  <2>3. Active \subseteq {c}
    BY <1>1, <2>1, OnlyActive
  <2>4. /\ IsFiniteSet(Active') /\ \A d, e \in Active' : d = e
        /\ call'[c] = at /\ \A d \in Callers : d # c => call'[d] = "idle"
        /\ at = "idle" <=> Active' = {}
    BY <1>1, <2>2, <2>3, Moved
  <2>5. /\ call[c] \in {"probe", "dash", "undo"} => started
        /\ call[c] = "dash" => loop /\ Dashboard
        /\ call[c] \in {"clear", "close"} => ~loop
        /\ call[c] = "close" => ~started
        /\ ~Dashboard => ~pusher
    BY <1>1 DEF CallProgress
  <2> DEFINE Stage == /\ at \in {"dash", "undo"} => started'
                      /\ at = "dash" => loop' /\ Dashboard
                      /\ at \in {"clear", "close"} => ~loop'
                      /\ at = "close" => ~started'
                      /\ ~Dashboard => ~pusher'
             Rest == at = "idle" => \/ started' /\ loop' /\ (Dashboard => pusher')
                                    \/ ~started' /\ outcome'[c] = "failed"
                                    \/ ~started' /\ ~loop' /\ ~pusher'
  <2>6. Stage /\ Rest
    <3>1. CASE ProbeStart(c)
      BY <1>1, <3>1, <2>4, <2>5 DEF ProbeStart, Step, Return, SurfaceTypeOK
    <3>2. CASE ProbeStartFails(c)
      BY <1>1, <3>2, <2>4, <2>5 DEF ProbeStartFails, Step, surfaceVars, SurfaceTypeOK
    <3>3. CASE DashboardStart(c)
      BY <1>1, <3>3, <2>4, <2>5 DEF DashboardStart, Return, SurfaceTypeOK
    <3>4. CASE DashboardStartFails(c)
      BY <1>1, <3>4, <2>4, <2>5 DEF DashboardStartFails, Step, surfaceVars, SurfaceTypeOK
    <3>5. CASE StartUndo(c)
      BY <1>1, <3>5, <2>4, <2>5 DEF StartUndo, Return, SurfaceTypeOK
    <3>6. CASE ShutdownMark(c)
      BY <1>1, <3>6, <2>4, <2>5 DEF ShutdownMark, Step, SurfaceTypeOK
    <3>7. CASE ProbeShutdown(c)
      BY <1>1, <3>7, <2>4, <2>5 DEF ProbeShutdown, Step, SurfaceTypeOK
    <3>8. CASE ShutdownClear(c)
      BY <1>1, <3>8, <2>4, <2>5 DEF ShutdownClear, Step, Return, SurfaceTypeOK
    <3>9. CASE DashboardShutdown(c)
      BY <1>1, <3>9, <2>4, <2>5 DEF DashboardShutdown, Return, SurfaceTypeOK
    <3> QED
      BY <1>6, <3>1, <3>2, <3>3, <3>4, <3>5, <3>6, <3>7, <3>8, <3>9 DEF CallStep
  <2>7. CallProgress'
    BY <2>4, <2>6 DEF CallProgress
  <2> QED
    BY <1>1, <2>4, <2>6, <2>7 DEF SurfaceInv, FlagTruthful, ShutdownStops
<1> QED
  BY <1>2, <1>3, <1>4, <1>5, <1>6 DEF SurfaceNext

LEMMA SurfaceHolds ==
  ASSUME MaxActive = 1
  PROVE  SurfaceSpec => []SurfaceInv
<1>1. SurfaceInit => SurfaceInv
  BY SurfaceInvInit
<1>2. SurfaceInv /\ [SurfaceNext]_healthVars => SurfaceInv'
  BY SurfaceStep
<1> QED
  BY <1>1, <1>2, PTL DEF SurfaceSpec

\* health.Mounted: whenever no call is under way, a surface that rejects Start
\* as already started refreshes and pushes; a failed Start leaves it
\* restartable.  For any callers and any number of calls, one at a time.
THEOREM FlagTells ==
  ASSUME MaxActive = 1
  PROVE  SurfaceSpec => []FlagTruthful
<1>1. SurfaceInv => FlagTruthful
  BY DEF SurfaceInv
<1> QED
  BY <1>1, SurfaceHolds, PTL

\* health.Mounted: with no call under way a surface that is not started pushes
\* and refreshes nothing, unless a Start failed at the dashboard.
THEOREM StopReallyStops ==
  ASSUME MaxActive = 1
  PROVE  SurfaceSpec => []ShutdownStops
<1>1. SurfaceInv => ShutdownStops
  BY DEF SurfaceInv
<1> QED
  BY <1>1, SurfaceHolds, PTL

\* The call of c moves to `to`, every other one stays where it is.
LEMMA CallMoves ==
  ASSUME SurfaceTypeOK, NEW c \in Callers, NEW to, call' = [call EXCEPT ![c] = to]
  PROVE  call'[c] = to /\ \A d \in Callers : d # c => call'[d] = call[d]
BY DEF SurfaceTypeOK

\* health.Mounted under calls that overlap in any way: a surface that is marked
\* started refreshes, unless a Start has not armed the loop yet or is about to
\* take its claim back, or a Shutdown is about to clear the flag: no order of the
\* calls leaves a surface marked started for good without its refresh loop.
THEOREM LoopTells == SurfaceSpec => []LoopTruthful
<1>1. SurfaceInit => SurfaceTypeOK /\ LoopTruthful
  BY SurfaceInvInit DEF SurfaceInv, SurfaceInit, LoopTruthful
<1>2. ASSUME SurfaceTypeOK, LoopTruthful, [SurfaceNext]_healthVars
      PROVE  SurfaceTypeOK' /\ LoopTruthful'
  <2>1. SurfaceTypeOK'
    BY <1>2, SurfaceType
  <2>2. CASE Drain \/ Refresh \/ UNCHANGED healthVars \/ \E c \in Callers : StartRejected(c)
    <3>1. UNCHANGED <<started, loop, call>>
      <4>1. CASE Drain \/ Refresh \/ UNCHANGED healthVars
        BY <4>1 DEF Drain, Refresh, healthVars, surfaceVars, callVars
      <4>2. CASE \E c \in Callers : StartRejected(c)
        BY <4>2 DEF StartRejected, surfaceVars
      <4> QED
        BY <2>2, <4>1, <4>2
    <3> QED
      BY <1>2, <2>1, <3>1 DEF LoopTruthful, SurfaceTypeOK
  <2>3. ASSUME NEW c \in Callers, StartClaim(c) PROVE LoopTruthful'
    <3>1. call' = [call EXCEPT ![c] = "probe"]
      BY <2>3 DEF StartClaim, Begin
    <3> QED
      BY <1>2, <3>1, CallMoves DEF LoopTruthful
  <2>4. ASSUME NEW c \in Callers, ShutdownBegin(c) PROVE LoopTruthful'
    <3>1. call' = [call EXCEPT ![c] = "mark"] /\ call[c] = "idle" /\ UNCHANGED <<started, loop>>
      BY <2>4 DEF ShutdownBegin, Begin, surfaceVars
    <3> QED
      BY <1>2, <3>1, CallMoves DEF LoopTruthful
  <2>5. ASSUME NEW c \in Callers, CallStep(c) PROVE LoopTruthful'
    <3>1. CASE ProbeStart(c)
      BY <3>1 DEF ProbeStart, LoopTruthful
    <3>2. CASE ProbeStartFails(c) \/ DashboardStartFails(c)
      <4>1. call' = [call EXCEPT ![c] = "undo"]
        BY <3>2 DEF ProbeStartFails, DashboardStartFails, Step
      <4> QED
        BY <1>2, <4>1, CallMoves DEF LoopTruthful
    <3>3. CASE ProbeShutdown(c)
      <4>1. call' = [call EXCEPT ![c] = "clear"]
        BY <3>3 DEF ProbeShutdown, Step
      <4> QED
        BY <1>2, <4>1, CallMoves DEF LoopTruthful
    <3>4. CASE StartUndo(c) \/ ShutdownClear(c)
      BY <3>4 DEF StartUndo, ShutdownClear, LoopTruthful
    <3>5. CASE DashboardStart(c) \/ ShutdownMark(c) \/ DashboardShutdown(c)
      <4>1. call[c] \in {"dash", "mark", "close"} /\ UNCHANGED <<started, loop>>
        BY <3>5 DEF DashboardStart, ShutdownMark, DashboardShutdown, Step, Return
      <4>2. \E to \in {"idle", "stop"} : call' = [call EXCEPT ![c] = to]
        BY <3>5 DEF DashboardStart, ShutdownMark, DashboardShutdown, Step, Return
      <4>3. \A d \in Callers : d # c => call'[d] = call[d]
        BY <1>2, <4>2, CallMoves
      <4> QED
        BY <1>2, <4>1, <4>3 DEF LoopTruthful
    <3> QED
      BY <2>5, <3>1, <3>2, <3>3, <3>4, <3>5 DEF CallStep
  <2> QED
    BY <1>2, <2>1, <2>2, <2>3, <2>4, <2>5 DEF SurfaceNext
<1> QED
  BY <1>1, <1>2, PTL DEF SurfaceSpec

-----------------------------------------------------------------------------
(* The inductive invariant of the composed service *)

\* The wiring appended the drain hooks of the health surface and of systemd, in
\* any order and among any others, as preset.New does.
DrainWired ==
  \A name \in {"health", "systemd"} :
    \E i \in 1..Len(DrainHooks) : DrainHooks[i] = name

\* The manager knows of this shutdown, or Shutdown reports that it does not.
Told == socket => manager = "stopping" \/ result = "error"

\* What the drain hooks have done so far, hook by hook.
Announced ==
  /\ svc = "drain" =>
       \A j \in 1..Len(DrainHooks) :
         /\ j < idx /\ DrainHooks[j] = "health" => latch
         /\ j < idx /\ DrainHooks[j] = "systemd" => Told
  /\ svc \in {"wait", "await", "shutdown", "stopped"} => latch /\ Told

\* The hub exists once the service is built, and never reopens; a provider goes
\* down in a failed boot or in the shutdown hooks of a run.
Legs ==
  /\ svc \in {"new", "wiring"} => hub = "none" /\ ~hubDone /\ provider # "flushed"
  /\ svc = "bootfailed" => hub = "none" /\ ~hubDone
  /\ svc \notin {"new", "wiring", "bootfailed", "built"} => starts >= 1
  /\ hubDone => hub # "open"
  /\ provider = "flushed" =>
       /\ hub # "open"
       /\ \/ svc \in {"bootfailed", "shutdown", "stopped"}
          \/ starts > 1

Counts == idx \in Nat /\ starts \in Nat /\ svc \in Phases

DrainInv == Counts /\ Announced

LegsInv == Counts /\ Legs

\* What a hook that returned leaves of the rest.
LEMMA HookReturned ==
  ASSUME Counts, NEW ok \in BOOLEAN, Returned(ok)
  PROVE  /\ svc' = svc /\ starts' = starts /\ idx' = idx + 1
         /\ result = "error" => svc = "start" \/ result' = "error"
         /\ svc # "start" /\ ~ok => result' = "error"
         /\ Counts'
  BY DEF Returned, Counts

\* The steps of one hook call that is still running, and the background
\* goroutines, touch nothing the invariant speaks of.
LEMMA FrameKept ==
  ASSUME DrainInv,
         UNCHANGED <<svc, idx, starts, result, latch, socket, manager>>
  PROVE  DrainInv'
  BY DEF DrainInv, Counts, Announced, Told

LEMMA BackgroundInv ==
  ASSUME DrainInv, Background \/ OpenStream \/ CloseStream \/ Expire \/ UNCHANGED vars
  PROVE  DrainInv'
<1>1. UNCHANGED <<svc, idx, starts, result, latch, socket, manager>>
  BY DEF Background, OpenStream, CloseStream, Expire, vars, lifeVars, legVars, healthVars, surfaceVars, callVars, sdVars,
     Refresh, Sd!SdBackground, Sd!Ping, Sd!DogExit
<1> QED
  BY <1>1, FrameKept

LEMMA BootInv ==
  ASSUME DrainInv, Boot
  PROVE  DrainInv'
  BY DEF DrainInv, Counts, Phases, Announced, Boot, BootRejected, SetupProvider, BootFail,
     Built, Goto, lifeVars, legVars

LEMMA BindInv ==
  ASSUME DrainInv, Bind
  PROVE  DrainInv'
  BY DEF DrainInv, Counts, Phases, Announced, Bind, Goto, legVars

LEMMA ShutdownInv ==
  ASSUME DrainInv, Shutdown
  PROVE  DrainInv'
  BY DEF DrainInv, Counts, Phases, Announced, Shutdown, Goto, legVars

LEMMA LifecycleInv ==
  ASSUME DrainWired, DrainInv, Lifecycle
  PROVE  DrainInv'
<1>1. CASE StartDone
  BY <1>1 DEF DrainInv, Counts, Phases, Announced, StartDone, Goto, lifeVars, legVars
<1>2. CASE DrainDone
  <2>1. latch /\ Told
    BY <1>2, ComposedAssumption DEF DrainDone, Goto, DrainWired, DrainInv, Counts, Announced
  <2> QED
    BY <1>2, <2>1 DEF DrainInv, Counts, Phases, Announced, Told, DrainDone, Goto,
       lifeVars, legVars, healthVars, surfaceVars, callVars, sdVars
<1>3. CASE Release \/ ReleaseDone \/ ShutdownDone
  BY <1>3 DEF DrainInv, Counts, Phases, Announced, Told, Release, ReleaseDone,
     ShutdownDone, Goto, lifeVars, legVars, healthVars, surfaceVars, callVars, sdVars
<1> QED
  BY <1>1, <1>2, <1>3 DEF Lifecycle

\* A hook outside the drain list neither takes the latch back nor the news.
LEMMA OtherHookInv ==
  ASSUME DrainInv, svc # "drain", svc' = svc, starts' = starts, idx' \in Nat, latch' = latch,
         socket' = socket, svc = "start" \/ Told'
  PROVE  DrainInv'
  BY DEF DrainInv, Counts, Announced

LEMMA DrainHookInv ==
  ASSUME DrainInv, svc = "drain", svc' = svc, starts' = starts, idx' = idx + 1,
         latch => latch', Told => Told',
         idx <= Len(DrainHooks),
         DrainHooks[idx] = "health" => latch', DrainHooks[idx] = "systemd" => Told'
  PROVE  DrainInv'
<1>1. idx \in Nat /\ DrainHooks \in Seq(HookNames)
  BY ComposedAssumption DEF DrainInv, Counts
<1>2. \A j \in 1..Len(DrainHooks) : j < idx + 1 => j < idx \/ j = idx
  BY <1>1
<1>3. Announced'
  BY <1>1, <1>2 DEF DrainInv, Announced
<1> QED
  BY <1>1, <1>3 DEF DrainInv, Counts

LEMMA HookInv ==
  ASSUME DrainInv, Hook
  PROVE  DrainInv'
<1> USE DEF At
<1>0. Counts /\ Announced
  BY DEF DrainInv
<1>1. CASE AppHook
  <2>1. PICK ok \in BOOLEAN : Returned(ok)
    BY <1>1 DEF AppHook
  <2>2. /\ svc' = svc /\ starts' = starts /\ idx' = idx + 1 /\ idx' \in Nat
        /\ result = "error" => svc = "start" \/ result' = "error"
    BY <1>0, <2>1, HookReturned DEF Counts
  <2>3. UNCHANGED <<latch, socket, manager>>
    BY <1>1 DEF AppHook, legVars, healthVars, surfaceVars, callVars, sdVars
  <2>4. svc # "start" /\ Told => Told'
    BY <2>2, <2>3 DEF Told
  <2>5. CASE svc = "drain"
    <3>1. idx <= Len(DrainHooks) /\ DrainHooks[idx] = "app"
      BY <1>1, <2>5 DEF AppHook
    <3> QED
      BY <2>2, <2>3, <2>4, <2>5, <3>1, DrainHookInv
  <2>6. CASE svc # "drain"
    <3>1. svc = "start" \/ svc = "shutdown"
      BY <1>1, <2>6 DEF AppHook
    <3>2. svc = "start" \/ Told'
      BY <1>0, <2>4, <3>1 DEF Announced
    <3> QED
      BY <2>2, <2>3, <2>6, <3>2, OtherHookInv
  <2> QED
    BY <2>5, <2>6
<1>2. CASE MountedStart
  <2>1. svc = "start" /\ UNCHANGED <<latch, socket>>
    BY <1>2 DEF MountedStart, legVars, sdVars, StartClaim, ProbeStart, ProbeStartFails,
       DashboardStart, DashboardStartFails, StartUndo, StartRejected, surfaceVars
  <2>2. svc' = svc /\ starts' = starts /\ idx' \in Nat
    BY <1>0, <1>2 DEF MountedStart, Returned, lifeVars, Counts
  <2> QED
    BY <2>1, <2>2, OtherHookInv
<1>3. CASE MountedDrain
  <2>1. svc = "drain" /\ latch' /\ Returned(TRUE) /\ idx <= Len(DrainHooks)
                      /\ DrainHooks[idx] = "health"
    BY <1>3 DEF MountedDrain, Drain
  <2>2. UNCHANGED <<socket, manager>>
    BY <1>3 DEF MountedDrain, legVars, sdVars
  <2>3. /\ svc' = svc /\ starts' = starts /\ idx' = idx + 1
        /\ result = "error" => result' = "error"
    BY <1>0, <2>1, HookReturned
  <2>4. Told => Told'
    BY <2>2, <2>3 DEF Told
  <2> QED
    BY <2>1, <2>2, <2>3, <2>4, DrainHookInv
<1>4. CASE SystemdStart
  <2>1. svc = "start" /\ UNCHANGED <<latch, socket>>
    BY <1>4 DEF SystemdStart, legVars, healthVars, surfaceVars, callVars, Sd!ReadyHook, Sd!NotifySkipped, Sd!NotifyFails,
       Sd!sdVars
  <2>2. svc' = svc /\ starts' = starts /\ idx' \in Nat
    BY <1>0, <1>4 DEF SystemdStart, Returned, Counts
  <2> QED
    BY <2>1, <2>2, OtherHookInv
<1>5. CASE SystemdDrain
  <2>1. svc = "drain" /\ idx <= Len(DrainHooks) /\ DrainHooks[idx] = "systemd"
                      /\ UNCHANGED latch
    BY <1>5 DEF SystemdDrain, legVars, healthVars, surfaceVars, callVars
  <2>2. svc' = svc /\ starts' = starts /\ idx' = idx + 1
    BY <1>5 DEF SystemdDrain, Returned
  <2>3. Told'
    <3>1. CASE Sd!StoppingHook
      BY <3>1 DEF Told, Sd!StoppingHook, Sd!Notified
    <3>2. CASE Sd!NotifySkipped
      BY <3>2 DEF Told, Sd!NotifySkipped, Sd!sdVars
    <3>3. CASE Sd!NotifyFails /\ Returned(FALSE)
      BY <2>1, <3>3 DEF Told, Returned
    <3> QED
      BY <1>5, <3>1, <3>2, <3>3 DEF SystemdDrain
  <2> QED
    BY <2>1, <2>2, <2>3, DrainHookInv
<1>6. CASE SystemdShutdown
  <2>1. svc = "shutdown" /\ UNCHANGED <<latch, socket, manager>>
    BY <1>6 DEF SystemdShutdown, legVars, healthVars, surfaceVars, callVars, Sd!StopHook
  <2>2. svc' = svc /\ starts' = starts /\ idx' \in Nat /\ (result = "error" => result' = "error")
    BY <1>0, <1>6 DEF SystemdShutdown, Returned, Counts
  <2>3. Told'
    BY <1>0, <2>1, <2>2 DEF Announced, Told
  <2> QED
    BY <2>1, <2>2, <2>3, OtherHookInv
<1>7. CASE HubShutdown
  <2>1. svc = "shutdown" /\ UNCHANGED <<latch, socket, manager>>
    BY <1>7 DEF HubShutdown, healthVars, surfaceVars, callVars, sdVars
  <2>2. svc' = svc /\ starts' = starts /\ idx' \in Nat /\ (result = "error" => result' = "error")
    BY <1>0, <1>7 DEF HubShutdown, Returned, Counts, lifeVars
  <2>3. Told'
    BY <1>0, <2>1, <2>2 DEF Announced, Told
  <2> QED
    BY <2>1, <2>2, <2>3, OtherHookInv
<1>8. CASE ProviderShutdown
  <2>1. svc = "shutdown" /\ UNCHANGED <<latch, socket, manager>>
    BY <1>8 DEF ProviderShutdown, healthVars, surfaceVars, callVars, sdVars
  <2>2. svc' = svc /\ starts' = starts /\ idx' \in Nat /\ (result = "error" => result' = "error")
    BY <1>0, <1>8 DEF ProviderShutdown, Returned, Counts
  <2>3. Told'
    BY <1>0, <2>1, <2>2 DEF Announced, Told
  <2> QED
    BY <2>1, <2>2, <2>3, OtherHookInv
<1> QED
  BY <1>1, <1>2, <1>3, <1>4, <1>5, <1>6, <1>7, <1>8 DEF Hook

\* The invariant holds in every reachable state, for every wiring that tells the
\* health surface and the manager of a drain.
THEOREM InvariantHolds ==
  ASSUME DrainWired
  PROVE  Spec => []DrainInv
<1>1. Init => DrainInv
  BY DEF Init, DrainInv, Counts, Phases, Announced
<1>2. DrainInv /\ [Next]_vars => DrainInv'
  BY BackgroundInv, BootInv, BindInv, ShutdownInv, LifecycleInv, HookInv DEF Next
<1> QED
  BY <1>1, <1>2, PTL DEF Spec

\* preset.New and Service.Shutdown: from the end of the drain hooks on, the
\* readiness surface answers 503 and the manager was told STOPPING=1 or Shutdown
\* reports the failed notification; for every place of the two hooks in the list.
THEOREM DrainKeepsStep ==
  ASSUME DrainWired
  PROVE  Spec => []DrainInLockstep
<1>1. DrainInv => DrainInLockstep
  BY DEF DrainInv, Announced, Told, DrainInLockstep, Ready
<1> QED
  BY <1>1, InvariantHolds, PTL

-----------------------------------------------------------------------------
(* The order in which the legs go down *)

\* shutdownLegs: the provider is shut down only once the hub is closed, and a
\* provider that is down never belongs to a serving first run, for every wiring.
THEOREM SpansLast == Spec => []FlushedLast
<1>1. Init => LegsInv
  BY DEF Init, LegsInv, Counts, Phases, Legs
<1>2. ASSUME LegsInv, [Next]_vars PROVE LegsInv'
  <2> USE <1>2 DEF LegsInv, Counts, Phases, Legs
  <2>1. CASE Background \/ OpenStream \/ CloseStream \/ Expire \/ UNCHANGED vars
    BY <2>1 DEF Background, OpenStream, CloseStream, Expire, vars, lifeVars, legVars
  <2>2. CASE Boot \/ Bind \/ Shutdown
    BY <2>2 DEF Boot, BootRejected, SetupProvider, BootFail, Built, Bind, Shutdown, Goto,
       lifeVars, legVars
  <2>3. CASE Lifecycle
    BY <2>3 DEF Lifecycle, StartDone, DrainDone, Release, ReleaseDone, ShutdownDone, Goto,
       lifeVars, legVars
  <2>4. CASE AppHook \/ MountedStart \/ MountedDrain
    BY <2>4 DEF AppHook, MountedStart, MountedDrain, Returned, lifeVars, legVars
  <2>5. CASE SystemdStart \/ SystemdDrain \/ SystemdShutdown
    BY <2>5 DEF SystemdStart, SystemdDrain, SystemdShutdown, Returned, legVars
  <2>6. CASE HubShutdown
    BY <2>6 DEF HubShutdown, Returned, lifeVars
  <2>7. CASE ProviderShutdown
    BY <2>7 DEF ProviderShutdown, Returned
  <2> QED
    BY <2>1, <2>2, <2>3, <2>4, <2>5, <2>6, <2>7 DEF Next, Hook
<1>3. LegsInv => FlushedLast
  BY DEF LegsInv, Counts, Legs, FlushedLast
<1> QED
  BY <1>1, <1>2, <1>3, PTL DEF Spec

=============================================================================
