----------------------------- MODULE EventService -----------------------------
(***************************************************************************)
(* cqrs.EventService (cqrs/): its construction from an EventConfig with    *)
(* the auxiliary database of the dead-letter queue, the command chain with *)
(* the in-flight tracker, the projection workers and the queries guarded   *)
(* by their lag, and Shutdown, which drains commands and then closes the   *)
(* system.  A Shutdown is called directly or by WaitForSignal              *)
(* (shutdown.go), whose context the callback inherits.                     *)
(*                                                                         *)
(* go-cqrs-lite (system.System, the projection host, the engines) is       *)
(* external: GracefulClose drains the registered drainer, then always      *)
(* closes workers, engines and registered closers.  Lag is counted in      *)
(* events.                                                                 *)
(***************************************************************************)
EXTENDS Integers, Sequences, FiniteSets, FiniteSetsExt

CONSTANTS
  Commands,     \* commands that are dispatched, one each
  Queries,      \* calls of DispatchQueryChecked
  Stops,        \* calls of Shutdown
  Waiters,      \* those of them made by WaitForSignal
  Workers,      \* projection workers; the bootstrap one is always there
  Configs,      \* the configurations that are considered
  Backlog,      \* events an earlier process has stored
  MaxStaleness, \* the threshold of the guarded queries
  None          \* no call

ASSUME EventServiceAssumption ==
  /\ None \notin Stops
  /\ Waiters \subseteq Stops
  /\ {Backlog, MaxStaleness} \subseteq Nat

VARIABLES
  config,     \* the EventConfig
  engines,    \* the engines of the resolved deployment, by name
  chain,      \* the command middleware, outermost first
  es,         \* construction: "new", "resolved", "aux", "built" or "failed"
  aux,        \* the auxiliary *sql.DB: "none", "open" or "closed"
  dlq,        \* the dead-letter store: "none", "default" or "supplied"
  sys,        \* the system: "none", "open" or "closed"
  registered, \* sys.RegisterCloser(aux) was called
  worker,     \* worker -> status reported by the host
  pos,        \* worker -> events it has processed
  head,       \* events in the store
  query,      \* query -> where it is
  mark,       \* query -> head when it was checked (history)
  exempt,     \* query -> workers rewound or unstarted at the check (history)
  behind,     \* query -> events its answer lacks of those (history)
  cmd,        \* command -> layers of the chain it has entered, or beyond
  effect,     \* command -> what became of its events
  pending,    \* inFlightTracker.pending
  closed,     \* es.closed
  pc,         \* Shutdown call -> where it is
  cancelled,  \* the context given to WaitForSignal is done
  expired,    \* Shutdown call -> why its context is done, if it is
  drain,      \* Shutdown call -> what Drain returned
  closer,     \* the call that set es.closed (history)
  before,     \* commands in flight at that moment (history)
  closes      \* how often the system was closed (history)

buildVars == <<config, engines, chain, es, aux, dlq, sys, registered>>
workVars  == <<worker, pos>>
readVars  == <<query, mark, exempt, behind>>
cmdVars   == <<cmd, effect, pending, head>>
stopVars  == <<closed, pc, cancelled, expired, drain, closer, before, closes>>
vars == <<buildVars, workVars, readVars, cmdVars, stopVars>>

\* Catching up, live and backing off are all running here.
WorkerStatus == {"idle", "running", "stopped", "failed"}

Layers == {"tracker", "domain", "app"}

TypeOK ==
  /\ config \in Configs
  /\ chain \in Seq(Layers)
  /\ es \in {"new", "resolved", "aux", "built", "failed"}
  /\ aux \in {"none", "open", "closed"}
  /\ dlq \in {"none", "default", "supplied"}
  /\ sys \in {"none", "open", "closed"}
  /\ registered \in BOOLEAN
  /\ worker \in [Workers -> WorkerStatus]
  /\ pos \in [Workers -> Nat]
  /\ head \in Nat
  /\ query \in [Queries -> {"idle", "checked", "refused", "answered"}]
  /\ mark \in [Queries -> Nat]
  /\ exempt \in [Queries -> SUBSET Workers]
  /\ behind \in [Queries -> Nat]
  /\ cmd \in [Commands -> Nat]
  /\ effect \in [Commands -> {"none", "stored", "refused"}]
  /\ pending \in Nat
  /\ closed \in BOOLEAN
  /\ pc \in [Stops -> {"idle", "wait", "woken", "drain", "close", "done"}]
  /\ cancelled \in BOOLEAN
  /\ expired \in [Stops -> {"no", "timeout", "parent"}]
  /\ drain \in [Stops -> {"none", "ok", "cancelled"}]
  /\ closer \in Stops \cup {None}
  /\ before \subseteq Commands
  /\ closes \in Nat

Init ==
  /\ config \in Configs
  /\ engines = <<>>
  /\ chain = <<>>
  /\ es = "new"
  /\ aux = "none"
  /\ dlq = "none"
  /\ sys = "none"
  /\ registered = FALSE
  /\ worker = [w \in Workers |-> "idle"]
  /\ pos = [w \in Workers |-> 0]
  /\ head = Backlog
  /\ query = [q \in Queries |-> "idle"]
  /\ mark = [q \in Queries |-> 0]
  /\ exempt = [q \in Queries |-> {}]
  /\ behind = [q \in Queries |-> 0]
  /\ cmd = [c \in Commands |-> 0]
  /\ effect = [c \in Commands |-> "none"]
  /\ pending = 0
  /\ closed = FALSE
  /\ pc = [s \in Stops |-> "idle"]
  /\ cancelled = FALSE
  /\ expired = [s \in Stops |-> "no"]
  /\ drain = [s \in Stops |-> "none"]
  /\ closer = None
  /\ before = {}
  /\ closes = 0

-----------------------------------------------------------------------------
(* NewEventService *)

wantsDefaultDLQ == config.dlq = "default"

deploymentUsesSQLiteFile == \E i \in DOMAIN engines : engines[i].driver = "sqlite" /\ engines[i].file

driverOrDefault == IF config.driver = "" THEN "sqlite" ELSE config.driver

\* resolveDeployment: a given Deployment wins over a ConfigPath, which wins over
\* Driver and DSN ...
ResolveDeployment ==
  /\ es = "new"
  /\ es' = "resolved"
  /\ IF config.source \in {"deployment", "path"} THEN engines' = config.engines
     ELSE /\ config.dsn \/ driverOrDefault = "memory"
          /\ engines' = <<[driver |-> driverOrDefault, file |-> config.dsn]>>
  /\ UNCHANGED <<config, chain, aux, dlq, sys, registered, workVars, readVars, cmdVars, stopVars>>

\* ... the file cannot be loaded, or the DSN is missing.
ResolveFails ==
  /\ es = "new"
  /\ \/ config.source = "path"
     \/ config.source = "fields" /\ ~config.dsn /\ driverOrDefault # "memory"
  /\ es' = "failed"
  /\ UNCHANGED <<config, engines, chain, aux, dlq, sys, registered, workVars, readVars, cmdVars, stopVars>>

\* openAuxResources: no auxiliary handle is needed ...
NoAux ==
  /\ es = "resolved" /\ ~wantsDefaultDLQ
  /\ es' = "aux"
  /\ dlq' = IF config.dlq = "supplied" THEN "supplied" ELSE "none"
  /\ UNCHANGED <<config, engines, chain, aux, sys, registered, workVars, readVars, cmdVars, stopVars>>

\* ... or the default store has no sqlite file to live in, or its handle cannot
\* be opened, ...
AuxRejected ==
  /\ es = "resolved" /\ wantsDefaultDLQ
  /\ es' = "failed"
  /\ UNCHANGED <<config, engines, chain, aux, dlq, sys, registered, workVars, readVars, cmdVars, stopVars>>

\* Mutant of AuxStoreFails: the handle opened for the store is kept.
AuxStoreFailsOpen ==
  /\ es = "resolved" /\ wantsDefaultDLQ /\ deploymentUsesSQLiteFile
  /\ es' = "failed"
  /\ aux' = "open"
  /\ UNCHANGED <<config, engines, chain, dlq, sys, registered, workVars, readVars, cmdVars, stopVars>>

\* ... or its table cannot be created and the handle is closed again, ...
AuxStoreFails ==
  /\ es = "resolved" /\ wantsDefaultDLQ /\ deploymentUsesSQLiteFile
  /\ es' = "failed"
  /\ aux' = "closed"
  /\ UNCHANGED <<config, engines, chain, dlq, sys, registered, workVars, readVars, cmdVars, stopVars>>

\* ... or the handle and the store are there.
OpenAux ==
  /\ es = "resolved" /\ wantsDefaultDLQ /\ deploymentUsesSQLiteFile
  /\ es' = "aux"
  /\ aux' = "open"
  /\ dlq' = "default"
  /\ UNCHANGED <<config, engines, chain, sys, registered, workVars, readVars, cmdVars, stopVars>>

\* Mutant of MergedChain: the tracker is appended like the other layers.
MergedChainInner == (IF config.domain THEN <<"domain">> ELSE <<>>) \o <<"app", "tracker">>

\* mergeDomain: the tracker stays outermost, the Domain's middleware comes
\* before the application's.
MergedChain == <<"tracker">> \o (IF config.domain THEN <<"domain">> ELSE <<>>) \o <<"app">>

\* buildSystem succeeds: the tracker is installed and registered as drainer,
\* and the system owns the auxiliary handle from now on.
BuildSystem ==
  /\ es = "aux"
  /\ es' = "built"
  /\ sys' = "open"
  /\ chain' = MergedChain
  /\ registered' = (aux = "open")
  /\ UNCHANGED <<config, engines, aux, dlq, workVars, readVars, cmdVars, stopVars>>

\* buildSystem fails: closeOnConstructionFailure.
BuildFails ==
  /\ es = "aux"
  /\ es' = "failed"
  /\ aux' = IF aux = "open" THEN "closed" ELSE aux
  /\ UNCHANGED <<config, engines, chain, dlq, sys, registered, workVars, readVars, cmdVars, stopVars>>

-----------------------------------------------------------------------------
(* Projections *)

StartProjections ==
  /\ sys = "open"
  /\ \A w \in Workers : worker[w] = "idle"
  /\ worker' = [w \in Workers |-> "running"]
  /\ UNCHANGED <<buildVars, pos, readVars, cmdVars, stopVars>>

\* A worker gives up when an event keeps failing and nothing quarantines it.
WorkerFails(w) ==
  /\ sys = "open"
  /\ worker[w] = "running" /\ pos[w] < head /\ dlq = "none"
  /\ worker' = [worker EXCEPT ![w] = "failed"]
  /\ UNCHANGED <<buildVars, pos, readVars, cmdVars, stopVars>>

\* An event is handled, or quarantined by the dead-letter queue.
Process(w) ==
  /\ sys = "open"
  /\ worker[w] = "running"
  /\ pos[w] < head
  /\ pos' = [pos EXCEPT ![w] = @ + 1]
  /\ UNCHANGED <<buildVars, worker, readVars, cmdVars, stopVars>>

\* The rewound projection reprocesses its stream.
ResetProjection(w) ==
  /\ sys = "open"
  /\ pos[w] > 0
  /\ pos' = [pos EXCEPT ![w] = 0]
  /\ exempt' = [q \in Queries |-> IF query[q] = "checked" THEN exempt[q] \cup {w} ELSE exempt[q]]
  /\ UNCHANGED <<buildVars, worker, query, mark, behind, cmdVars, stopVars>>

\* "A projection that has not processed any event yet counts as fresh."
Lag(w) == IF pos[w] = 0 THEN 0 ELSE head - pos[w]

\* Mutant of CheckStaleness: the smallest threshold disables the check too.
CheckStalenessLoose == MaxStaleness > 1 => \A w \in Workers : Lag(w) <= MaxStaleness

\* The maximum lag is within the threshold; a threshold of 0 disables the check.
CheckStaleness == MaxStaleness > 0 => \A w \in Workers : Lag(w) <= MaxStaleness

\* DispatchQueryChecked: first the check, then the query, nothing held between.
CheckQuery(q) ==
  /\ sys # "none" /\ query[q] = "idle"
  /\ \/ /\ ~CheckStaleness
        /\ query' = [query EXCEPT ![q] = "refused"]
        /\ UNCHANGED <<mark, exempt>>
     \/ /\ CheckStaleness
        /\ query' = [query EXCEPT ![q] = "checked"]
        /\ mark' = [mark EXCEPT ![q] = head]
        /\ exempt' = [exempt EXCEPT ![q] = {w \in Workers : pos[w] = 0}]
  /\ UNCHANGED <<buildVars, workVars, behind, cmdVars, stopVars>>

AnswerQuery(q) ==
  /\ query[q] = "checked"
  /\ query' = [query EXCEPT ![q] = "answered"]
  /\ behind' = [behind EXCEPT ![q] =
       Max({0} \cup {mark[q] - pos[w] : w \in {x \in Workers \ exempt[q] : pos[x] < mark[q]}})]
  /\ mark' = [mark EXCEPT ![q] = 0]
  /\ exempt' = [exempt EXCEPT ![q] = {}]
  /\ UNCHANGED <<buildVars, workVars, cmdVars, stopVars>>

-----------------------------------------------------------------------------
(* Commands: layer by layer through the dispatcher's chain *)

Handler == Len(chain) + 1
Done == Len(chain) + 2
Running(c) == cmd[c] \in 1..Handler

\* The command enters the next layer; inFlightTracker.enter counts it.
Enter(c) ==
  /\ sys # "none"
  /\ cmd[c] < Handler
  /\ cmd' = [cmd EXCEPT ![c] = @ + 1]
  /\ pending' = IF cmd[c] < Len(chain) /\ chain[cmd[c] + 1] = "tracker" THEN pending + 1 ELSE pending
  /\ UNCHANGED <<buildVars, workVars, readVars, effect, head, stopVars>>

\* The handler appends its event; closed engines refuse it.
Store(c) ==
  /\ cmd[c] = Handler
  /\ effect[c] = "none"
  /\ effect' = [effect EXCEPT ![c] = IF sys = "closed" THEN "refused" ELSE "stored"]
  /\ head' = IF sys = "closed" THEN head ELSE head + 1
  /\ UNCHANGED <<buildVars, workVars, readVars, cmd, pending, stopVars>>

\* The deferred exit: a layer or the handler returned, failed or panicked, and
\* every layer that was entered is left.
Exit(c) ==
  /\ Running(c)
  /\ cmd' = [cmd EXCEPT ![c] = Done]
  /\ pending' = IF \E i \in 1..Len(chain) : i <= cmd[c] /\ chain[i] = "tracker" THEN pending - 1 ELSE pending
  /\ UNCHANGED <<buildVars, workVars, readVars, effect, head, stopVars>>

-----------------------------------------------------------------------------
(* WaitForSignal and Shutdown *)

Wait(s) ==
  /\ es = "built" /\ s \in Waiters /\ pc[s] = "idle"
  /\ pc' = [pc EXCEPT ![s] = "wait"]
  /\ UNCHANGED <<buildVars, workVars, readVars, cmdVars, closed, cancelled, expired, drain, closer, before, closes>>

\* A signal, or the end of the parent context; in both cases the callback's
\* context is derived from the parent.
Wake(s) ==
  /\ pc[s] = "wait"
  /\ pc' = [pc EXCEPT ![s] = "woken"]
  /\ expired' = [expired EXCEPT ![s] = IF cancelled THEN "parent" ELSE @]
  /\ UNCHANGED <<buildVars, workVars, readVars, cmdVars, closed, cancelled, drain, closer, before, closes>>

Cancel ==
  /\ Waiters # {} /\ ~cancelled
  /\ cancelled' = TRUE
  /\ expired' = [s \in Stops |-> IF pc[s] \in {"woken", "drain"} /\ s \in Waiters /\ expired[s] = "no"
                                 THEN "parent" ELSE expired[s]]
  /\ UNCHANGED <<buildVars, workVars, readVars, cmdVars, closed, pc, drain, closer, before, closes>>

\* Where a call of Shutdown begins.
Called(s) == es = "built" /\ pc[s] = (IF s \in Waiters THEN "woken" ELSE "idle")

\* Mutant of Claim: closed is tested and set in different critical sections.
ClaimUnguarded(s) ==
  /\ Called(s)
  /\ pc' = [pc EXCEPT ![s] = "drain"]
  /\ closed' = TRUE
  /\ closer' = s
  /\ before' = {c \in Commands : Running(c)}
  /\ UNCHANGED <<buildVars, workVars, readVars, cmdVars, cancelled, expired, drain, closes>>

\* Under es.mu: the first call goes on to GracefulClose ...
Claim(s) ==
  /\ Called(s)
  /\ ~closed
  /\ pc' = [pc EXCEPT ![s] = "drain"]
  /\ closed' = TRUE
  /\ closer' = s
  /\ before' = {c \in Commands : Running(c)}
  /\ UNCHANGED <<buildVars, workVars, readVars, cmdVars, cancelled, expired, drain, closes>>

\* ... every other one returns nil.
AlreadyClosed(s) ==
  /\ Called(s)
  /\ closed
  /\ pc' = [pc EXCEPT ![s] = "done"]
  /\ UNCHANGED <<buildVars, workVars, readVars, cmdVars, closed, cancelled, expired, drain, closer, before, closes>>

\* Mutant of DrainEnds: the context is not consulted while commands run.
DrainUnbounded(s) ==
  /\ pc[s] = "drain"
  /\ pending = 0
  /\ drain' = [drain EXCEPT ![s] = "ok"]
  /\ pc' = [pc EXCEPT ![s] = "close"]
  /\ UNCHANGED <<buildVars, workVars, readVars, cmdVars, closed, cancelled, expired, closer, before, closes>>

\* inFlightTracker.Drain: a poll sees no command, or the context ends it.
DrainEnds(s) ==
  /\ pc[s] = "drain"
  /\ \/ pending = 0 /\ drain' = [drain EXCEPT ![s] = "ok"]
     \/ pending > 0 /\ expired[s] # "no" /\ drain' = [drain EXCEPT ![s] = "cancelled"]
  /\ pc' = [pc EXCEPT ![s] = "close"]
  /\ UNCHANGED <<buildVars, workVars, readVars, cmdVars, closed, cancelled, expired, closer, before, closes>>

\* The close half of GracefulClose, whatever Drain returned.
Close(s) ==
  /\ pc[s] = "close"
  /\ pc' = [pc EXCEPT ![s] = "done"]
  /\ sys' = "closed"
  /\ aux' = IF registered THEN "closed" ELSE aux
  /\ closes' = closes + 1
  /\ worker' = [w \in Workers |-> IF worker[w] \in {"idle", "failed"} THEN worker[w] ELSE "stopped"]
  /\ UNCHANGED <<config, engines, chain, es, dlq, registered, pos, readVars, cmdVars, closed, cancelled,
                 expired, drain, closer, before>>

Expire(s) ==
  /\ pc[s] = "drain"
  /\ expired[s] = "no"
  /\ expired' = [expired EXCEPT ![s] = "timeout"]
  /\ UNCHANGED <<buildVars, workVars, readVars, cmdVars, closed, cancelled, pc, drain, closer, before, closes>>

-----------------------------------------------------------------------------
Construct ==
  \/ ResolveDeployment \/ ResolveFails
  \/ NoAux \/ AuxRejected \/ AuxStoreFails \/ OpenAux \/ BuildSystem \/ BuildFails

StopStep(s) == Claim(s) \/ AlreadyClosed(s) \/ DrainEnds(s) \/ Close(s)

Next ==
  \/ Construct
  \/ StartProjections
  \/ \E w \in Workers : WorkerFails(w) \/ Process(w) \/ ResetProjection(w)
  \/ \E q \in Queries : CheckQuery(q) \/ AnswerQuery(q)
  \/ \E c \in Commands : Enter(c) \/ Store(c) \/ Exit(c)
  \/ \E s \in Stops : Wait(s) \/ Wake(s) \/ StopStep(s) \/ Expire(s)
  \/ Cancel

Spec == Init /\ [][Next]_vars

\* A call that was made is scheduled and its context ends; a waiting call is
\* woken by the end of its context, while a signal may never come; a command
\* may hang.
Fairness ==
  \A s \in Stops :
    /\ WF_vars(pc[s] # "idle" /\ StopStep(s))
    /\ WF_vars(cancelled /\ Wake(s))
    /\ WF_vars(Expire(s))

FairSpec == Spec /\ Fairness

-----------------------------------------------------------------------------
(* Properties *)

\* The auxiliary handle has an owner while it is open: the construction that
\* is under way or the open system.  No failed construction and no Shutdown
\* leaves it behind.
AuxNeverLeaks == aux = "open" => es = "aux" \/ (registered /\ sys = "open")

\* "Safe to call multiple times": whatever the interleaving of Shutdown calls
\* the engines are closed once.
ClosedOnce == closes <= 1

\* In-flight commands are drained first: when the drain ended well, the events
\* of every command that was in flight when Shutdown took over were stored by
\* open engines; only an expired context may cut a command off.
DrainedBeforeClose ==
  \A s \in Stops : drain[s] = "ok" =>
    \A c \in before : cmd[c] = Done /\ effect[c] # "refused"

\* The system ALWAYS closes, even when a command handler hangs: once a Shutdown
\* has taken over, and also when the context of a waiting WaitForSignal ends.
AlwaysCloses == closed \/ (cancelled /\ \E s \in Stops : pc[s] = "wait") ~> sys = "closed"

\* What the read-your-writes guard is worth, although nothing is held between
\* the check and the query: an answer is behind the store as it was at the
\* check by no more than the threshold, in every projection that had processed
\* an event by then and was not rewound since.
CheckedAnswerFresh ==
  MaxStaleness > 0 =>
    \A q \in Queries : query[q] = "answered" => behind[q] <= MaxStaleness

\* What the owner of the service sees of it.
PhaseNow ==
  CASE es = "failed"              -> "failed"
    [] sys = "none" /\ es # "failed" -> "new"
    [] sys = "open"               -> IF closed THEN "draining" ELSE "open"
    [] sys = "closed"             -> "closed"

CommandNow(c) == IF cmd[c] = 0 THEN "idle" ELSE IF Running(c) THEN "running" ELSE "over"

Contract ==
  INSTANCE EventContract WITH
    phase   <- PhaseNow,
    held    <- aux = "open",
    command <- [c \in Commands |-> CommandNow(c)],
    fate    <- effect,
    awaited <- before,
    excused <- \E s \in Stops : drain[s] = "cancelled"

\* The service implements EventContract: no interleaving of construction, of
\* commands in their chains and of racing Shutdown calls shows its owner
\* anything else.
ImplementsContract == Contract!Spec

(* Statements of the documentation that the code does not keep. *)

\* "Shutdown gracefully stops projections and closes the event store. [...]
\* Safe to call multiple times": a call that returned nil has done so.
ReturnedMeansClosed == \A s \in Stops : pc[s] = "done" => sys = "closed"

\* "It then calls onShutdown with a context limited by Timeout": only the
\* timeout cuts a drain short.
CutOnlyByTimeout == \A s \in Stops : drain[s] = "cancelled" => expired[s] = "timeout"

\* "When the maximum projection lag exceeds maxStaleness the query is NOT
\* answered": the answer is that close to the store it is read from.
StaleNeverAnswered ==
  [][\A q \in Queries : query'[q] = "answered" /\ query[q] # "answered" => CheckStaleness]_vars

=============================================================================
