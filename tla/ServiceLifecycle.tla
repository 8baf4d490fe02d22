--------------------------- MODULE ServiceLifecycle ---------------------------
(***************************************************************************)
(* The lifecycle of appkit.Service (service.go): calls of Start, Run and   *)
(* Shutdown/Close made by different goroutines of one process, the         *)
(* delegated httputil.Server each Start builds, the watcher goroutine that *)
(* resolves the channel Start returns, the lifecycle hooks and the         *)
(* readiness probe.                                                        *)
(*                                                                         *)
(* Every call of Start builds one serve generation, named by the call.     *)
(* s.ln and s.serve are always written together under s.mu, so they are    *)
(* one variable, current.  Steps that hold s.mu are one action; a read     *)
(* without the lock is an action of its own.                               *)
(***************************************************************************)
EXTENDS Naturals, Sequences, FiniteSets

CONSTANTS
  Starts,       \* calls of Start; each is a serve generation
  Runs,         \* the calls of Start that are made by Run
  Stops,        \* calls of Shutdown (Close is Shutdown(Background))
  None,         \* the nil pointer
  NHooks,       \* hooks configured for each of the three hook phases
  MaxInFlight,  \* bound on the requests in flight on one server
  FixedAddr     \* TRUE: cfg.Addr names a port; FALSE: "localhost:0"

ASSUME ConstantsAssumption ==
  /\ Runs \subseteq Starts
  /\ Starts \cap Stops = {}
  /\ None \notin Starts \cup Stops
  /\ NHooks \in Nat
  /\ MaxInFlight \in Nat
  /\ FixedAddr \in BOOLEAN

Closers == Runs \cup Stops    \* the goroutines that may execute Shutdown
Phases  == {"start", "drain", "shutdown"}

VARIABLES
  current,    \* s.ln / s.serve: the published generation or None
  ready,      \* s.readyProbe
  pc,         \* where each call of Start (or Run) is
  failed,     \* a start hook of this call has failed
  lnOpen,     \* generation -> its listener socket is open
  srv,        \* generation -> state of the delegated httputil.Server
  inflight,   \* generation -> requests being handled
  raw,        \* generation -> the delegated channel holds a serve failure
  graceful,   \* generation -> how often close(serve.graceful) ran
  watch,      \* generation -> whose graceful channel its watcher selects on
  watcher,    \* generation -> where its watcher goroutine is
  errCh,      \* generation -> what was sent on the channel Start returned
  hook,       \* runHooks' loop index in each call
  ran,        \* generation -> phase -> hook invocations (history)
  spc,        \* where each call of Shutdown is
  taken,      \* the generation that call took from s.serve
  expired,    \* the shutdown context of that call is done
  result,     \* "ok" or "error": what Shutdown has joined so far
  signalled   \* SIGINT/SIGTERM arrived or Run's ctx was cancelled

startVars == <<pc, failed>>
hookVars  == <<hook, ran>>
serveVars == <<lnOpen, srv, inflight, raw>>
chanVars  == <<graceful, watch, watcher, errCh>>
stopVars  == <<spc, taken, expired, result>>
vars == <<current, ready, startVars, serveVars, chanVars, hookVars, stopVars, signalled>>

StartPC   == {"idle", "bound", "hooks", "launch", "abort", "started",
              "runwait", "stopping", "failed", "returned", "panicked"}
StopPC    == {"idle", "flip", "drain", "wait", "close", "await", "release",
              "hooks", "done"}
SrvStates == {"none", "built", "refused", "launched", "serving", "broken", "stopped"}

TypeOK ==
  /\ current \in Starts \cup {None}
  /\ ready \in BOOLEAN
  /\ pc \in [Starts -> StartPC]
  /\ failed \in [Starts -> BOOLEAN]
  /\ lnOpen \in [Starts -> BOOLEAN]
  /\ srv \in [Starts -> SrvStates]
  /\ inflight \in [Starts -> Nat]
  /\ raw \in [Starts -> BOOLEAN]
  /\ graceful \in [Starts -> Nat]
  /\ watch \in [Starts -> Starts \cup {None}]
  /\ watcher \in [Starts -> {"none", "peek", "select", "sent"}]
  /\ errCh \in [Starts -> Seq({"nil", "error"})]
  /\ hook \in [Starts \cup Stops -> Nat]
  /\ ran \in [Starts -> [Phases -> Nat]]
  /\ spc \in [Closers -> StopPC]
  /\ taken \in [Closers -> Starts \cup {None}]
  /\ expired \in [Closers -> BOOLEAN]
  /\ result \in [Closers -> {"ok", "error"}]
  /\ signalled \in BOOLEAN

Init ==
  /\ current = None
  /\ ready = TRUE
  /\ pc = [s \in Starts |-> "idle"]
  /\ failed = [s \in Starts |-> FALSE]
  /\ lnOpen = [s \in Starts |-> FALSE]
  /\ srv = [s \in Starts |-> "none"]
  /\ inflight = [s \in Starts |-> 0]
  /\ raw = [s \in Starts |-> FALSE]
  /\ graceful = [s \in Starts |-> 0]
  /\ watch = [s \in Starts |-> None]
  /\ watcher = [s \in Starts |-> "none"]
  /\ errCh = [s \in Starts |-> <<>>]
  /\ hook = [c \in Starts \cup Stops |-> 0]
  /\ ran = [s \in Starts |-> [p \in Phases |-> 0]]
  /\ spc = [c \in Closers |-> "idle"]
  /\ taken = [c \in Closers |-> None]
  /\ expired = [c \in Closers |-> FALSE]
  /\ result = [c \in Closers |-> "ok"]
  /\ signalled = FALSE

Goto(s, from, to) == pc[s] = from /\ pc' = [pc EXCEPT ![s] = to]
StopGoto(c, from, to) == spc[c] = from /\ spc' = [spc EXCEPT ![c] = to]

\* runHooks calls one more hook of a phase; hooks are user code and may fail.
\* c is the call that runs the loop, s the generation it does it for.
RunHook(c, s, phase) ==
  /\ hook[c] < NHooks
  /\ hook' = [hook EXCEPT ![c] = @ + 1]
  /\ ran' = [ran EXCEPT ![s][phase] = @ + 1]

\* The loop of runHooks is over; the index starts afresh in the next one.
HooksDone(c) ==
  /\ hook[c] = NHooks
  /\ hook' = [hook EXCEPT ![c] = 0]
  /\ UNCHANGED ran

-----------------------------------------------------------------------------
(* Start *)

\* net.Listen: a port in use is refused, and binding may fail for other reasons.
Listen(s) ==
  /\ \/ /\ FixedAddr => \A t \in Starts : ~lnOpen[t]
        /\ Goto(s, "idle", "bound")
        /\ lnOpen' = [lnOpen EXCEPT ![s] = TRUE]
     \/ /\ Goto(s, "idle", "failed")
        /\ UNCHANGED lnOpen
  /\ UNCHANGED <<current, ready, failed, srv, inflight, raw, chanVars, hookVars, stopVars, signalled>>

\* NewServerListener accepts the configuration; s.ln and s.serve are published.
Publish(s) ==
  /\ Goto(s, "bound", "hooks")
  /\ srv' = [srv EXCEPT ![s] = "built"]
  /\ current' = s
  /\ UNCHANGED <<ready, failed, lnOpen, inflight, raw, chanVars, hookVars, stopVars, signalled>>

\* NewServerListener rejects it: the listener is closed again.
Reject(s) ==
  /\ Goto(s, "bound", "failed")
  /\ lnOpen' = [lnOpen EXCEPT ![s] = FALSE]
  /\ UNCHANGED <<current, ready, failed, srv, inflight, raw, chanVars, hookVars, stopVars, signalled>>

\* runStartHooks: every hook runs even when an earlier one failed.
StartHook(s) ==
  /\ pc[s] = "hooks"
  /\ RunHook(s, s, "start")
  /\ \E fails \in BOOLEAN : failed' = [failed EXCEPT ![s] = @ \/ fails]
  /\ UNCHANGED <<current, ready, pc, serveVars, chanVars, stopVars, signalled>>

\* A failed hook fails the start: the published state is dropped, whoever set it...
AbortStart(s) ==
  /\ HooksDone(s)
  /\ failed[s]
  /\ Goto(s, "hooks", "abort")
  /\ current' = None
  /\ UNCHANGED <<ready, failed, serveVars, chanVars, stopVars, signalled>>

\* Mutant of AbortClose: the listener is forgotten.
AbortKeepsListener(s) ==
  /\ Goto(s, "abort", "failed")
  /\ UNCHANGED <<current, ready, failed, serveVars, chanVars, hookVars, stopVars, signalled>>

\* ... and then the listener is closed.
AbortClose(s) ==
  /\ Goto(s, "abort", "failed")
  /\ lnOpen' = [lnOpen EXCEPT ![s] = FALSE]
  /\ UNCHANGED <<current, ready, failed, srv, inflight, raw, chanVars, hookVars, stopVars, signalled>>

\* Mutant of Launch: the joined error of the start hooks is ignored.
LaunchDespiteFailure(s) ==
  /\ HooksDone(s)
  /\ Goto(s, "hooks", "launch")
  /\ srv' = [srv EXCEPT ![s] = IF @ = "built" THEN "launched" ELSE @]
  /\ UNCHANGED <<current, ready, failed, lnOpen, inflight, raw, chanVars, stopVars, signalled>>

\* delegated.Start spawns the serve loop.
Launch(s) ==
  /\ HooksDone(s)
  /\ ~failed[s]
  /\ Goto(s, "hooks", "launch")
  /\ srv' = [srv EXCEPT ![s] = IF @ = "built" THEN "launched" ELSE @]
  /\ UNCHANGED <<current, ready, failed, lnOpen, inflight, raw, chanVars, stopVars, signalled>>

\* graceful := s.serve.graceful, read without s.mu: a nil s.serve panics, a
\* newer s.serve is somebody else's channel.  The watcher goroutine starts.
ReadGraceful(s) ==
  /\ \/ /\ current = None
        /\ Goto(s, "launch", "panicked")
        /\ UNCHANGED <<watch, watcher>>
     \/ /\ current # None
        /\ Goto(s, "launch", IF s \in Runs THEN "runwait" ELSE "started")
        /\ watch' = [watch EXCEPT ![s] = current]
        /\ watcher' = [watcher EXCEPT ![s] = "peek"]
  /\ UNCHANGED <<current, ready, failed, serveVars, graceful, errCh, hookVars, stopVars, signalled>>

\* errCh <- value, then the watcher goroutine returns.
Send(s, value) ==
  /\ errCh' = [errCh EXCEPT ![s] = Append(@, value)]
  /\ watcher' = [watcher EXCEPT ![s] = "sent"]

\* Mutant of WatcherPeek: the goroutine does not return after the error.
PeekWithoutReturn(s) ==
  /\ watcher[s] = "peek"
  /\ raw' = [raw EXCEPT ![s] = FALSE]
  /\ errCh' = [errCh EXCEPT ![s] = IF raw[s] THEN Append(@, "error") ELSE @]
  /\ watcher' = [watcher EXCEPT ![s] = "select"]
  /\ UNCHANGED <<current, ready, startVars, lnOpen, srv, inflight, graceful, watch, hookVars, stopVars, signalled>>

\* The non-blocking peek gives a failure that already arrived priority.
WatcherPeek(s) ==
  /\ watcher[s] = "peek"
  /\ \/ /\ raw[s]
        /\ raw' = [raw EXCEPT ![s] = FALSE]
        /\ Send(s, "error")
     \/ /\ ~raw[s]
        /\ watcher' = [watcher EXCEPT ![s] = "select"]
        /\ UNCHANGED <<raw, errCh>>
  /\ UNCHANGED <<current, ready, startVars, lnOpen, srv, inflight, graceful, watch, hookVars, stopVars, signalled>>

\* After the peek whichever channel is ready wins; both may be.
WatcherSelect(s) ==
  /\ watcher[s] = "select"
  /\ \/ /\ raw[s]
        /\ raw' = [raw EXCEPT ![s] = FALSE]
        /\ Send(s, "error")
     \/ /\ graceful[watch[s]] > 0
        /\ Send(s, "nil")
        /\ UNCHANGED raw
  /\ UNCHANGED <<current, ready, startVars, lnOpen, srv, inflight, graceful, watch, hookVars, stopVars, signalled>>

-----------------------------------------------------------------------------
(* The delegated server: httputil.Server around http.Server, from its use. *)

\* The serve loop begins accepting.
ServeBegin(s) ==
  /\ srv[s] = "launched"
  /\ srv' = [srv EXCEPT ![s] = "serving"]
  /\ UNCHANGED <<current, ready, startVars, lnOpen, inflight, raw, chanVars, hookVars, stopVars, signalled>>

\* Shut down before it began: Serve closes the listener and reports nothing.
ServeRefused(s) ==
  /\ srv[s] = "refused"
  /\ pc[s] \notin {"hooks", "abort", "failed"}
  /\ srv' = [srv EXCEPT ![s] = "stopped"]
  /\ lnOpen' = [lnOpen EXCEPT ![s] = FALSE]
  /\ UNCHANGED <<current, ready, startVars, inflight, raw, chanVars, hookVars, stopVars, signalled>>

\* The serve loop fails by itself: the delegated channel carries the error.
ServeFail(s) ==
  /\ srv[s] = "serving"
  /\ srv' = [srv EXCEPT ![s] = "broken"]
  /\ lnOpen' = [lnOpen EXCEPT ![s] = FALSE]
  /\ raw' = [raw EXCEPT ![s] = TRUE]
  /\ UNCHANGED <<current, ready, startVars, inflight, chanVars, hookVars, stopVars, signalled>>

RequestBegin(s) ==
  /\ srv[s] = "serving"
  /\ inflight[s] < MaxInFlight
  /\ inflight' = [inflight EXCEPT ![s] = @ + 1]
  /\ UNCHANGED <<current, ready, startVars, lnOpen, srv, raw, chanVars, hookVars, stopVars, signalled>>

RequestEnd(s) ==
  /\ inflight[s] > 0
  /\ inflight' = [inflight EXCEPT ![s] = @ - 1]
  /\ UNCHANGED <<current, ready, startVars, lnOpen, srv, raw, chanVars, hookVars, stopVars, signalled>>

-----------------------------------------------------------------------------
(* Run: Start, then wait for the signal or the serve outcome. *)

Signal ==
  /\ ~signalled
  /\ signalled' = TRUE
  /\ UNCHANGED <<current, ready, startVars, serveVars, chanVars, hookVars, stopVars>>

\* The serve outcome arrived: Run returns it without calling Shutdown.
RunServeOutcome(s) ==
  /\ errCh[s] # <<>>
  /\ Goto(s, "runwait", "returned")
  /\ UNCHANGED <<current, ready, failed, serveVars, chanVars, hookVars, stopVars, signalled>>

\* ctx.Done: Run goes on to Shutdown with a fresh ShutdownTimeout deadline.
RunSignalled(s) ==
  /\ signalled
  /\ Goto(s, "runwait", "stopping")
  /\ UNCHANGED <<current, ready, failed, serveVars, chanVars, hookVars, stopVars, signalled>>

RunReturn(s) ==
  /\ spc[s] = "done"
  /\ Goto(s, "stopping", "returned")
  /\ UNCHANGED <<current, ready, failed, serveVars, chanVars, hookVars, stopVars, signalled>>

-----------------------------------------------------------------------------
(* Shutdown *)

\* Mutant of Take: s.ln and s.serve are read under s.mu but not cleared.
TakeWithoutClearing(c) ==
  /\ c \in Runs => pc[c] = "stopping"
  /\ StopGoto(c, "idle", IF current = None THEN "done" ELSE "flip")
  /\ taken' = [taken EXCEPT ![c] = current]
  /\ UNCHANGED <<current, ready, startVars, serveVars, chanVars, hookVars, expired, result, signalled>>

\* Under s.mu: take s.ln and s.serve and clear them; nil means nothing to do.
Take(c) ==
  /\ c \in Runs => pc[c] = "stopping"
  /\ StopGoto(c, "idle", IF current = None THEN "done" ELSE "flip")
  /\ taken' = [taken EXCEPT ![c] = current]
  /\ current' = None
  /\ UNCHANGED <<ready, startVars, serveVars, chanVars, hookVars, expired, result, signalled>>

\* Mutant of ReadyFlip: the probe stays up.
ReadyFlipForgotten(c) ==
  /\ StopGoto(c, "flip", "drain")
  /\ UNCHANGED <<current, ready, startVars, serveVars, chanVars, hookVars, taken, expired, result, signalled>>

ReadyFlip(c) ==
  /\ StopGoto(c, "flip", "drain")
  /\ ready' = FALSE
  /\ UNCHANGED <<current, startVars, serveVars, chanVars, hookVars, taken, expired, result, signalled>>

\* One hook of the drain or shutdown phase; a failure is joined to the result.
StopHook(c, at, phase) ==
  /\ spc[c] = at
  /\ RunHook(c, taken[c], phase)
  /\ \E fails \in BOOLEAN :
       result' = [result EXCEPT ![c] = IF fails THEN "error" ELSE @]
  /\ UNCHANGED <<current, ready, startVars, serveVars, chanVars, spc, taken, expired, signalled>>

DrainHook(c)    == StopHook(c, "drain", "drain")
ShutdownHook(c) == StopHook(c, "hooks", "shutdown")

DrainHooksDone(c) ==
  /\ StopGoto(c, "drain", "wait")
  /\ HooksDone(c)
  /\ UNCHANGED <<current, ready, startVars, serveVars, chanVars, taken, expired, result, signalled>>

\* Mutant of DrainWait: graceful is closed without stopping the server.
DrainWaitSkipsStop(c) ==
  /\ StopGoto(c, "wait", "release")
  /\ UNCHANGED <<current, ready, startVars, serveVars, chanVars, hookVars, taken, expired, result, signalled>>

\* The drain timer fired, or the context is done, or DrainDelay is zero.
DrainWait(c) ==
  /\ StopGoto(c, "wait", "close")
  /\ UNCHANGED <<current, ready, startVars, serveVars, chanVars, hookVars, taken, expired, result, signalled>>

\* serve.srv.Shutdown begins: the listener of a serving server is closed.
SrvShutdown(c) ==
  LET s == taken[c] IN
  /\ StopGoto(c, "close", "await")
  /\ srv' = [srv EXCEPT ![s] = CASE @ \in {"built", "launched"} -> "refused"
                                 [] @ = "serving" -> "stopped"
                                 [] OTHER -> @]
  /\ lnOpen' = [lnOpen EXCEPT ![s] = @ /\ srv[s] # "serving"]
  /\ UNCHANGED <<current, ready, startVars, inflight, raw, chanVars, hookVars, taken, expired, result, signalled>>

\* Mutant of SrvShutdownReturn: the context is not consulted.
DeadlineIgnored(c) ==
  /\ StopGoto(c, "await", "release")
  /\ inflight[taken[c]] = 0
  /\ UNCHANGED <<current, ready, startVars, serveVars, chanVars, hookVars, taken, expired, result, signalled>>

\* ... and returns: connections are idle, or the deadline expired (an error).
SrvShutdownReturn(c) ==
  LET s == taken[c] IN
  /\ StopGoto(c, "await", "release")
  /\ \/ /\ inflight[s] = 0
        /\ UNCHANGED result
     \/ /\ inflight[s] > 0
        /\ expired[c]
        /\ result' = [result EXCEPT ![c] = "error"]
  /\ UNCHANGED <<current, ready, startVars, serveVars, chanVars, hookVars, taken, expired, signalled>>

\* Mutant of CloseGraceful: the channel is closed on a clean stop only.
CloseGracefulOnSuccess(c) ==
  /\ StopGoto(c, "release", "hooks")
  /\ graceful' = [graceful EXCEPT ![taken[c]] = IF result[c] = "ok" THEN @ + 1 ELSE @]
  /\ UNCHANGED <<current, ready, startVars, serveVars, watch, watcher, errCh, hookVars, taken, expired, result, signalled>>

\* close(serve.graceful), whatever srv.Shutdown returned.
CloseGraceful(c) ==
  /\ StopGoto(c, "release", "hooks")
  /\ graceful' = [graceful EXCEPT ![taken[c]] = @ + 1]
  /\ UNCHANGED <<current, ready, startVars, serveVars, watch, watcher, errCh, hookVars, taken, expired, result, signalled>>

ShutdownReturn(c) ==
  /\ StopGoto(c, "hooks", "done")
  /\ HooksDone(c)
  /\ UNCHANGED <<current, ready, startVars, serveVars, chanVars, taken, expired, result, signalled>>

\* The context is cancelled or its deadline passes.  Close has no deadline of
\* its own; the delegated server bounds it by the same ShutdownTimeout.
Expire(c) ==
  /\ spc[c] \notin {"idle", "done"}
  /\ ~expired[c]
  /\ expired' = [expired EXCEPT ![c] = TRUE]
  /\ UNCHANGED <<current, ready, startVars, serveVars, chanVars, hookVars, spc, taken, result, signalled>>

-----------------------------------------------------------------------------
\* A panic that nothing recovers ends the process: no goroutine moves again.
Alive == \A s \in Starts : pc[s] # "panicked"

StartStep(s) ==
  \/ Listen(s) \/ Publish(s) \/ Reject(s) \/ StartHook(s)
  \/ AbortStart(s) \/ AbortClose(s) \/ Launch(s) \/ ReadGraceful(s)

WatcherStep(s) == WatcherPeek(s) \/ WatcherSelect(s)

RunStep(s) == RunServeOutcome(s) \/ RunSignalled(s) \/ RunReturn(s)

EnvStep(s) ==
  \/ ServeBegin(s) \/ ServeRefused(s) \/ ServeFail(s)
  \/ RequestBegin(s) \/ RequestEnd(s)

StopStep(c) ==
  \/ ReadyFlip(c) \/ DrainHook(c) \/ DrainHooksDone(c) \/ DrainWait(c)
  \/ SrvShutdown(c) \/ SrvShutdownReturn(c) \/ CloseGraceful(c)
  \/ ShutdownHook(c) \/ ShutdownReturn(c)

Next ==
  /\ Alive
  /\ \/ \E s \in Starts : StartStep(s) \/ WatcherStep(s) \/ EnvStep(s)
     \/ \E s \in Runs : RunStep(s)
     \/ \E c \in Closers : Take(c) \/ StopStep(c) \/ Expire(c)
     \/ Signal

Spec == Init /\ [][Next]_vars

\* Goroutines are scheduled and hooks return; the shutdown deadline passes.
\* Nothing obliges a caller to stop the service, a signal to arrive, or a
\* request (an open stream, say) to end.
Fairness ==
  /\ \A s \in Starts :
       /\ WF_vars(Alive /\ StartStep(s) /\ pc[s] # "idle")
       /\ WF_vars(Alive /\ WatcherStep(s))
       /\ WF_vars(Alive /\ (ServeBegin(s) \/ ServeRefused(s)))
  /\ \A s \in Runs :
       /\ WF_vars(Alive /\ RunStep(s))
       /\ WF_vars(Alive /\ Take(s))
  /\ \A c \in Closers :
       /\ WF_vars(Alive /\ StopStep(c))
       /\ WF_vars(Alive /\ Expire(c))

FairSpec == Spec /\ Fairness

-----------------------------------------------------------------------------
(* Properties *)

\* The generation a Shutdown call works on, past the lock.
Draining(c) == spc[c] \notin {"idle", "flip", "done"}

\* Shutdown closes serve.graceful once: a second close of a channel panics.
\* Concurrent Shutdown, Close and Run calls must never own one generation.
GracefulClosedOnce == \A s \in Starts : graceful[s] <= 1

\* "Shutdown runs DrainHooks -> drain wait -> listener close -> ShutdownHooks
\* exactly once": per generation every hook of a phase runs at most once,
\* drain hooks run before the server stops, shutdown hooks after it was
\* released, and all of the drain hooks come first.
DrainSequence ==
  \A s \in Starts :
    /\ \A p \in Phases : ran[s][p] <= NHooks
    /\ ran[s]["drain"] > 0 => ~ready
    /\ graceful[s] > 0 =>
         /\ ran[s]["drain"] = NHooks
         /\ srv[s] \in {"refused", "stopped", "broken"}
    /\ ran[s]["shutdown"] > 0 => graceful[s] > 0

\* "A half-announced service must never serve": a server whose start hooks
\* have not all succeeded never accepts a connection.
HalfAnnouncedNeverServes ==
  \A s \in Starts :
    srv[s] \in {"launched", "serving", "broken"} \/ inflight[s] > 0 =>
      ran[s]["start"] = NHooks /\ ~failed[s]

\* The channel Start returned carries at most one value; nil is only sent when
\* the server has been stopped, an error only when the serve loop broke.  A
\* Shutdown that ran its hooks (telemetry flush) with a request in flight does
\* not return nil.
OutcomeFaithful ==
  /\ \A s \in Starts :
       /\ Len(errCh[s]) <= 1
       /\ errCh[s] = <<"nil">> => srv[s] \in {"stopped", "refused", "broken"}
       /\ errCh[s] = <<"error">> => srv[s] = "broken"
  /\ \A c \in Closers :
       spc[c] \in {"release", "hooks", "done"} /\ taken[c] # None /\ result[c] = "ok" =>
         inflight[taken[c]] = 0

\* An open listener always has somebody left to close it: the Start call that
\* bound it, the published state, a Shutdown call, or its own serve loop.
ListenerNeverLeaks ==
  \A s \in Starts : lnOpen[s] =>
    \/ pc[s] \in {"bound", "hooks", "abort", "launch", "panicked"}
    \/ s = current
    \/ srv[s] = "refused"
    \/ \E c \in Closers : taken[c] = s /\ spc[c] \in {"flip", "drain", "wait", "close"}

\* No watcher waits for nothing.  It follows the graceful channel of a generation,
\* its own or one that replaced it before Start looked: once a Shutdown that took
\* that generation has returned (with failing hooks or an expired deadline, too),
\* or the serve loop broke, the channel of Start is resolved or the goroutine
\* that resolves it has its message waiting.
OutcomeDelivered ==
  \A s \in Starts :
    watch[s] # None =>
      \/ errCh[s] # <<>>
      \/ /\ watcher[s] \in {"peek", "select"}
         /\ \A c \in Closers : taken[c] = watch[s] /\ spc[c] = "done" => graceful[watch[s]] > 0
         /\ srv[s] = "broken" => raw[s]

\* Calls return (or the process panics) whatever the requests in flight do: a
\* Shutdown under failing hooks and concurrent calls, and a Run after a signal.
CallsReturn ==
  /\ \A c \in Closers : spc[c] = "flip" ~> (spc[c] = "done" \/ ~Alive)
  /\ \A s \in Runs : (signalled /\ pc[s] = "runwait") ~> (pc[s] = "returned" \/ ~Alive)

(* The inductive invariant behind the safety properties. *)

\* Start got past its hooks and spawned the serve loop.
Launched(s) == pc[s] \in {"launch", "started", "runwait", "stopping", "returned", "panicked"}

\* A generation is published, or taken by exactly one Shutdown call, or
\* neither; before Publish it is neither.
Ownership ==
  /\ \A c \in Closers : spc[c] = "idle" => taken[c] = None
  /\ \A c \in Closers : spc[c] \notin {"idle", "done"} => taken[c] # None
  /\ \A c, d \in Closers : taken[c] = taken[d] /\ taken[c] # None => c = d
  /\ \A c \in Closers : taken[c] # None => taken[c] # current
  /\ \A s \in Starts : pc[s] \in {"idle", "bound"} =>
       s # current /\ \A c \in Closers : taken[c] # s

\* Where the loop index of runHooks stands in every call.
HookIndex ==
  /\ \A c \in Starts \cup Stops : hook[c] <= NHooks
  /\ \A c \in Closers : spc[c] \notin {"idle", "drain", "hooks"} => hook[c] = 0
  /\ \A c \in Stops : spc[c] = "idle" => hook[c] = 0
  /\ \A s \in Starts : pc[s] # "hooks" /\ (s \in Runs => spc[s] = "idle") => hook[s] = 0
  /\ \A s \in Runs : spc[s] # "idle" => pc[s] \in {"stopping", "returned", "panicked"}

\* The start hooks of a generation follow the Start call that owns it.
StartHookCount ==
  \A s \in Starts :
    /\ pc[s] \in {"idle", "bound"} => ran[s]["start"] = 0 /\ failed[s] = FALSE
    /\ pc[s] = "hooks" => ran[s]["start"] = hook[s]
    /\ ran[s]["start"] <= NHooks
    /\ Launched(s) => ran[s]["start"] = NHooks /\ failed[s] = FALSE

\* The drain and shutdown hooks, the stop of the server and the close of
\* graceful follow the Shutdown call that took the generation.
Untouched(s) == ran[s]["drain"] = 0 /\ ran[s]["shutdown"] = 0 /\ graceful[s] = 0

Progress(c, s) ==
  /\ spc[c] = "flip" => ran[s]["drain"] = 0
  /\ spc[c] = "drain" => ran[s]["drain"] = hook[c]
  /\ spc[c] \notin {"flip", "drain"} => ran[s]["drain"] = NHooks
  /\ spc[c] \notin {"hooks", "done"} => ran[s]["shutdown"] = 0 /\ graceful[s] = 0
  /\ spc[c] = "hooks" => ran[s]["shutdown"] = hook[c]
  /\ spc[c] = "done" => ran[s]["shutdown"] = NHooks
  /\ spc[c] \in {"hooks", "done"} => graceful[s] = 1
  /\ spc[c] \in {"await", "release", "hooks", "done"} =>
       srv[s] \in {"refused", "stopped", "broken"}
  /\ spc[c] # "flip" => ready = FALSE

StopProgress ==
  /\ \A s \in Starts : (\A c \in Closers : taken[c] # s) => Untouched(s)
  /\ \A c \in Closers, s \in Starts : taken[c] = s => Progress(c, s)

\* The delegated server runs only behind a Start that launched it.
ServerState ==
  \A s \in Starts :
    /\ srv[s] \in {"launched", "serving", "broken", "stopped"} => Launched(s)
    /\ inflight[s] > 0 => srv[s] \in {"serving", "broken", "stopped"}
    /\ srv[s] = "none" => pc[s] \in {"idle", "bound", "failed"}
    /\ pc[s] \in {"idle", "bound"} => srv[s] = "none"
    /\ srv[s] = "none" => s # current /\ \A c \in Closers : taken[c] # s

IInv ==
  TypeOK /\ Ownership /\ HookIndex /\ StartHookCount /\ StopProgress /\ ServerState

-----------------------------------------------------------------------------
(* Refinement: what a Service promises its surroundings. *)

PhaseOf(s) ==
  CASE srv[s] = "serving" -> "serving"
    [] srv[s] = "broken" -> "broken"
    [] srv[s] # "serving" /\ lnOpen[s] -> "bound"
    [] srv[s] \notin {"serving", "broken"} /\ ~lnOpen[s] /\ pc[s] # "idle" -> "stopped"
    [] OTHER -> "idle"

Contract ==
  INSTANCE ServiceContract WITH
    Serves <- Starts,
    phase <- [s \in Starts |-> PhaseOf(s)],
    draining <- [s \in Starts |->
                   \E c \in Closers : taken[c] = s /\ spc[c] \notin {"idle", "flip"}],
    outcome <- [s \in Starts |-> IF errCh[s] = <<>> THEN "none" ELSE Head(errCh[s])]

\* The lifecycle implements the contract on a fixed port, whatever the
\* interleaving of Start, Run and Shutdown calls, failures and panics.
ImplementsContract == Contract!Spec

(* Statements of the documentation that the code does not keep. *)

\* service.go: "Hooks run at most once per service".
HooksOncePerService ==
  \A s, t \in Starts : s # t => ran[s]["drain"] = 0 \/ ran[t]["drain"] = 0

\* core-v1-exit-criteria.md: "Start is idempotent-safe (second call rejected)":
\* no step replaces a published generation by another one, which would lose
\* the first, unless its serve loop broke.  Holds on a fixed port only.
SecondStartRejected ==
  [][current' # current =>
       None \in {current, current'} \/ srv[current] = "broken"]_vars

\* FEATURES.md: "restart-after-full-shutdown now serves again": a published,
\* serving generation that nobody drains is ready for traffic.
RestartServesReady ==
  \A s \in Starts :
    srv[s] = "serving" /\ current = s /\ (\A c \in Closers : ~Draining(c)) => ready

\* Start: "The returned channel receives any serve error (nil on graceful
\* shutdown)": a Start whose own generation is shut down is told.
ChannelResolved ==
  \A s \in Starts, c \in Closers :
    (taken[c] = s /\ watcher[s] # "none") ~> (errCh[s] # <<>> \/ ~Alive)

\* Start answers with an error or with a channel, whatever else happens.
StartNeverPanics == Alive

\* Run "handles graceful drain + shutdown internally": when it returns after
\* having served, the shutdown hooks have run.
RunRanShutdownHooks ==
  \A s \in Runs : pc[s] = "returned" => ran[s]["shutdown"] = NHooks

=============================================================================
