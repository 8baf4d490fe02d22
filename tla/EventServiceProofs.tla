-------------------------- MODULE EventServiceProofs --------------------------
(***************************************************************************)
(* TLAPS proofs about EventService, for any number of commands, queries,   *)
(* Shutdown calls and projection workers, any configurations and any       *)
(* staleness threshold.                                                    *)
(*                                                                         *)
(* IInv is inductive: InitInv, one lemma per action, NextInv.  The lemmas  *)
(* have one step per conjunct of IInv that the action can disturb; the     *)
(* others follow from their frame lemmas.  The refinement of EventContract *)
(* has one lemma per group of actions: the step of the contract it is, or  *)
(* none (ContractNext).                                                    *)
(***************************************************************************)
EXTENDS EventService, TLAPS, FiniteSetTheorems, NaturalsInduction, SequenceTheorems

\* What construction has reached decides who owns the auxiliary handle and
\* which chain commands run through; there is no Shutdown before it is done.
Construction ==
  /\ es = "built" <=> sys # "none"
  /\ es \in {"new", "resolved", "failed"} => aux # "open"
  /\ aux = "open" /\ es = "built" => registered /\ sys = "open"
  /\ chain = IF sys = "none" THEN <<>> ELSE MergedChain
  /\ \A s \in Stops : pc[s] # "idle" => es = "built"

\* The call that set es.closed is the only one past the claim, and how far it
\* has come decides whether the system is closed.
Ownership ==
  /\ ~closed => /\ closes = 0 /\ sys # "closed"
                /\ \A s \in Stops : pc[s] \notin {"drain", "close"} /\ drain[s] = "none"
  /\ closed => /\ closer \in Stops
               /\ pc[closer] \in {"drain", "close", "done"}
               /\ pc[closer] # "done" => closes = 0 /\ sys # "closed"
               /\ pc[closer] = "done" => closes = 1 /\ sys = "closed"
               /\ pc[closer] = "drain" => drain[closer] = "none"
               /\ pc[closer] = "close" => drain[closer] # "none"
               /\ \A s \in Stops \ {closer} : pc[s] \notin {"drain", "close"} /\ drain[s] = "none"

InFlight == {c \in Commands : Running(c)}

\* The tracker is the outermost layer, so its counter is the number of
\* commands anywhere between the first layer and the handler.
Tracking ==
  /\ \A c \in Commands : cmd[c] <= Done /\ (sys = "none" => cmd[c] = 0)
  /\ IsFiniteSet(InFlight)
  /\ pending = Cardinality(InFlight)

\* Only closed engines refuse an event, and a command that was in flight when
\* Shutdown took over has left once the drain has ended well.
Drained ==
  /\ sys # "closed" => \A c \in Commands : effect[c] # "refused"
  /\ \A c \in before : cmd[c] > 0
  /\ DrainedBeforeClose

\* From the check to the answer every worker that is not exempt stays as close
\* to the mark as the threshold asks: it is only rewound with an exemption.
Freshness ==
  MaxStaleness > 0 =>
    \A q \in Queries :
      /\ query[q] = "checked" => \A w \in Workers \ exempt[q] : mark[q] <= pos[w] + MaxStaleness
      /\ query[q] = "answered" => behind[q] <= MaxStaleness

IInv ==
  /\ TypeOK
  /\ Construction
  /\ Ownership
  /\ Tracking
  /\ Drained
  /\ Freshness

-----------------------------------------------------------------------------
(* Facts about the operators of the model *)

\* A nonempty set of naturals with an upper bound has a maximum.
LEMMA MaxOfBounded ==
  ASSUME NEW S \in SUBSET Nat, S # {}, NEW n \in Nat, \A x \in S : x <= n
  PROVE  Max(S) \in S /\ \A y \in S : y <= Max(S)
<1> DEFINE T == {n - x : x \in S}
<1>1. T \subseteq Nat /\ T # {}
  <2>1. \A x \in S : n - x \in Nat
    OBVIOUS
  <2>2. PICK x \in S : TRUE
    OBVIOUS
  <2>3. n - x \in T
    OBVIOUS
  <2> QED
    BY <2>1, <2>3
<1>2. PICK t \in T : \A u \in T : <<u, t>> \notin OpToRel(<, Nat)
  <2> HIDE DEF T
  <2> QED
    BY <1>1, NatLessThanWellFounded, WFMin
<1>3. \A u \in T : t <= u
  <2> SUFFICES ASSUME NEW u \in T PROVE t <= u
    OBVIOUS
  <2> HIDE DEF T
  <2>1. u \in Nat /\ t \in Nat
    BY <1>1
  <2>2. ~(u < t)
    BY <1>2, <2>1 DEF OpToRel
  <2> QED
    BY <2>1, <2>2
<1>4. PICK m \in S : t = n - m
  BY DEF T
<1>5. \A y \in S : m >= y
  <2> SUFFICES ASSUME NEW y \in S PROVE m >= y
    OBVIOUS
  <2>1. n - y \in T
    OBVIOUS
  <2>2. n - m <= n - y
    BY <2>1, <1>3, <1>4
  <2>3. m \in Nat /\ y \in Nat
    OBVIOUS
  <2> QED
    BY <2>2, <2>3
<1> QED
  BY <1>5 DEF Max

\* The layers of a built chain: the tracker comes first and only there.
LEMMA MergedChainShape ==
  /\ MergedChain \in Seq(Layers)
  /\ Len(MergedChain) \in Nat /\ Len(MergedChain) > 0
  /\ \A i \in 1..Len(MergedChain) : MergedChain[i] = "tracker" <=> i = 1
<1> DEFINE D == IF config.domain THEN <<"domain">> ELSE <<>>
<1>1. D \in Seq(Layers) /\ Len(D) \in Nat /\ \A i \in 1..Len(D) : D[i] # "tracker"
  <2>1. CASE config.domain
    BY <2>1 DEF Layers
  <2>2. CASE ~config.domain
    BY <2>2 DEF Layers
  <2> QED
    BY <2>1, <2>2
<1> DEFINE T == <<"tracker">>
           A == <<"app">>
<1>2. /\ T \in Seq(Layers) /\ Len(T) = 1 /\ T[1] = "tracker"
      /\ A \in Seq(Layers) /\ Len(A) = 1 /\ A[1] = "app"
  BY DEF Layers
<1>3. MergedChain = (T \o D) \o A
  BY DEF MergedChain
<1> HIDE DEF T, D, A
<1>4. /\ (T \o D) \in Seq(Layers) /\ Len(T \o D) = Len(D) + 1
      /\ (T \o D)[1] = "tracker"
      /\ \A i \in 2..Len(D) + 1 : (T \o D)[i] = D[i - 1]
  <2>1. /\ (T \o D) \in Seq(Layers) /\ Len(T \o D) = Len(T) + Len(D)
        /\ \A i \in 1..Len(T) + Len(D) : (T \o D)[i] = IF i <= Len(T) THEN T[i] ELSE D[i - Len(T)]
    BY <1>1, <1>2, ConcatProperties, Zenon
  <2> QED
    BY <1>1, <1>2, <2>1
<1>5. \A i \in 2..Len(D) + 1 : (T \o D)[i] # "tracker"
  <2> SUFFICES ASSUME NEW i \in 2..Len(D) + 1 PROVE (T \o D)[i] # "tracker"
    OBVIOUS
  <2>1. i - 1 \in 1..Len(D)
    BY <1>1
  <2> QED
    BY <1>1, <1>4, <2>1
<1>6. /\ MergedChain \in Seq(Layers) /\ Len(MergedChain) = Len(D) + 2
      /\ \A i \in 1..Len(D) + 1 : MergedChain[i] = (T \o D)[i]
      /\ MergedChain[Len(D) + 2] = "app"
  <2> HIDE DEF MergedChain
  <2> DEFINE B == T \o D
  <2>1. B \in Seq(Layers) /\ Len(B) = Len(D) + 1 /\ MergedChain = B \o A
    BY <1>3, <1>4
  <2> HIDE DEF B
  <2>2. /\ MergedChain \in Seq(Layers) /\ Len(MergedChain) = Len(D) + 2
        /\ \A i \in 1..Len(D) + 1 : MergedChain[i] = B[i]
        /\ MergedChain[Len(D) + 2] = "app"
    <3>1. /\ (B \o A) \in Seq(Layers) /\ Len(B \o A) = Len(B) + Len(A)
          /\ \A i \in 1..Len(B) + Len(A) : (B \o A)[i] = IF i <= Len(B) THEN B[i] ELSE A[i - Len(B)]
      BY <1>2, <2>1, ConcatProperties, Zenon
    <3> QED
      BY <1>1, <1>2, <2>1, <3>1
  <2> QED
    BY <2>2 DEF B
<1>7. \A i \in 1..Len(MergedChain) : MergedChain[i] = "tracker" <=> i = 1
  <2> SUFFICES ASSUME NEW i \in 1..Len(MergedChain) PROVE MergedChain[i] = "tracker" <=> i = 1
    OBVIOUS
  <2>1. i = 1 \/ i \in 2..Len(D) + 1 \/ i = Len(D) + 2
    BY <1>1, <1>6
  <2>2. CASE i = 1
    <3>1. 1 \in 1..Len(D) + 1
      BY <1>1
    <3> QED
      BY <1>4, <1>6, <2>2, <3>1
  <2>3. CASE i \in 2..Len(D) + 1
    <3>1. i \in 1..Len(D) + 1 /\ i # 1
      BY <1>1, <2>3
    <3> QED
      BY <1>5, <1>6, <2>3, <3>1
  <2>4. CASE i = Len(D) + 2
    <3>1. i # 1
      BY <1>1, <2>4
    <3> QED
      BY <1>6, <2>4, <3>1
  <2> QED
    BY <2>1, <2>2, <2>3, <2>4
<1> QED
  BY <1>1, <1>6, <1>7

\* A command that has begun has passed the tracker.
LEMMA ChainShape ==
  ASSUME Construction
  PROVE  /\ Len(chain) \in Nat
         /\ sys # "none" => /\ Len(chain) > 0
                            /\ \A i \in 1..Len(chain) : chain[i] = "tracker" <=> i = 1
         /\ Handler \in Nat /\ Done = Handler + 1 /\ Handler > 0
<1>1. Len(<<>>) = 0
  OBVIOUS
<1>2. /\ Len(chain) \in Nat
      /\ sys # "none" => /\ Len(chain) > 0
                         /\ \A i \in 1..Len(chain) : chain[i] = "tracker" <=> i = 1
  BY <1>1, MergedChainShape DEF Construction
<1> QED
  BY <1>2 DEF Handler, Done

-----------------------------------------------------------------------------
(* Frame lemmas *)

\* Construction speaks about these variables only.
LEMMA ConstructionFrame ==
  ASSUME Construction, UNCHANGED <<buildVars, pc>>
  PROVE  Construction'
BY DEF Construction, MergedChain, buildVars

\* Ownership speaks about these variables only.
LEMMA OwnershipFrame ==
  ASSUME Ownership, UNCHANGED <<closed, closes, closer, pc, drain, sys>>
  PROVE  Ownership'
BY DEF Ownership

\* Tracking speaks about these variables only.
LEMMA TrackingFrame ==
  ASSUME Tracking, UNCHANGED <<cmd, pending, chain, sys>>
  PROVE  Tracking'
BY DEF Tracking, InFlight, Running, Handler, Done

\* Drained speaks about these variables only.
LEMMA DrainedFrame ==
  ASSUME Drained, UNCHANGED <<effect, cmd, before, drain, sys, chain>>
  PROVE  Drained'
BY DEF Drained, DrainedBeforeClose, Done

\* Freshness speaks about these variables only.
LEMMA FreshnessFrame ==
  ASSUME Freshness, UNCHANGED <<query, mark, exempt, behind, pos>>
  PROVE  Freshness'
BY DEF Freshness

-----------------------------------------------------------------------------
(* IInv is inductive *)

LEMMA InitInv == Init => IInv
<1> SUFFICES ASSUME Init PROVE IInv
  OBVIOUS
<1>1. TypeOK
  <2>1. chain \in Seq(Layers) /\ head \in Nat
    BY EventServiceAssumption DEF Init
  <2>2. /\ worker \in [Workers -> WorkerStatus] /\ pos \in [Workers -> Nat]
        /\ query \in [Queries -> {"idle", "checked", "refused", "answered"}]
        /\ mark \in [Queries -> Nat]
        /\ exempt \in [Queries -> SUBSET Workers]
        /\ behind \in [Queries -> Nat]
    BY DEF Init, WorkerStatus
  <2>3. /\ cmd \in [Commands -> Nat]
        /\ effect \in [Commands -> {"none", "stored", "refused"}]
        /\ pc \in [Stops -> {"idle", "wait", "woken", "drain", "close", "done"}]
        /\ expired \in [Stops -> {"no", "timeout", "parent"}]
        /\ drain \in [Stops -> {"none", "ok", "cancelled"}]
    BY DEF Init
  <2> QED
    BY <2>1, <2>2, <2>3 DEF Init, TypeOK
<1>2. Construction /\ Ownership /\ Drained /\ Freshness
  BY DEF Init, Construction, Ownership, Drained, DrainedBeforeClose, Freshness
<1>3. Tracking
  <2>1. \A c \in Commands : cmd[c] = 0
    BY DEF Init
  <2>2. Len(chain) = 0
    BY DEF Init
  <2>3. InFlight = {}
    BY <2>1 DEF InFlight, Running
  <2> QED
    BY <2>1, <2>2, <2>3, FS_EmptySet DEF Tracking, Done, Init
<1> QED
  BY <1>1, <1>2, <1>3 DEF IInv

\* The steps of NewEventService before the system exists.
LEMMA PrepareInv ==
  ASSUME IInv, ResolveDeployment \/ ResolveFails \/ NoAux \/ AuxRejected \/ AuxStoreFails \/ OpenAux \/ BuildFails
  PROVE  IInv'
<1> USE DEF ResolveDeployment, ResolveFails, NoAux, AuxRejected, AuxStoreFails, OpenAux, BuildFails
<1>0. TypeOK /\ Construction /\ Ownership /\ Tracking /\ Drained /\ Freshness
  BY DEF IInv
<1>1. TypeOK'
  BY <1>0 DEF TypeOK, workVars, readVars, cmdVars, stopVars
<1>2. Construction'
  <2>1. es' \in {"resolved", "failed", "aux"} /\ sys = "none" /\ UNCHANGED <<chain, sys, pc>>
    BY <1>0 DEF Construction, stopVars
  <2>2. es' \in {"resolved", "failed"} => aux' # "open"
    BY <1>0 DEF Construction, stopVars
  <2>3. chain' = <<>>
    BY <1>0, <2>1 DEF Construction
  <2>4. \A s \in Stops : pc'[s] = "idle"
    BY <1>0, <2>1 DEF Construction
  <2> QED
    BY <2>1, <2>2, <2>3, <2>4 DEF Construction
<1>3. Ownership' /\ Tracking' /\ Drained' /\ Freshness'
  BY <1>0, OwnershipFrame, TrackingFrame, DrainedFrame, FreshnessFrame DEF workVars, readVars, cmdVars, stopVars
<1> QED
  BY <1>1, <1>2, <1>3 DEF IInv

LEMMA BuildSystemInv ==
  ASSUME IInv, BuildSystem
  PROVE  IInv'
<1>0. TypeOK /\ Construction /\ Ownership /\ Tracking /\ Drained /\ Freshness
  BY DEF IInv
<1>2. Construction'
  BY <1>0 DEF BuildSystem, TypeOK, Construction, MergedChain, stopVars
<1>1. TypeOK'
  <2>1. chain' \in Seq(Layers)
    BY MergedChainShape DEF BuildSystem
  <2> QED
    BY <1>0, <2>1 DEF BuildSystem, TypeOK, workVars, readVars, cmdVars, stopVars
<1>3. Ownership'
  BY <1>0 DEF BuildSystem, Ownership, Construction, stopVars
<1>4. Tracking'
  <2>1. \A c \in Commands : cmd[c] = 0 /\ cmd'[c] = 0
    BY <1>0 DEF BuildSystem, Tracking, Construction, cmdVars
  <2>2. InFlight = {} /\ InFlight' = {}
    BY <2>1 DEF InFlight, Running
  <2>3. Done' \in Nat
    <3>1. chain' \in Seq(Layers)
      BY <1>1 DEF TypeOK
    <3> QED
      BY <3>1 DEF Done
  <2> QED
    BY <1>0, <2>1, <2>2, <2>3 DEF BuildSystem, Tracking, cmdVars
<1>5. Drained'
  <2>1. \A s \in Stops : drain'[s] # "ok"
    BY <1>0 DEF BuildSystem, Construction, Ownership, stopVars
  <2> QED
    BY <1>0, <2>1 DEF BuildSystem, Drained, DrainedBeforeClose, Construction, cmdVars, stopVars
<1>6. Freshness'
  BY <1>0, FreshnessFrame DEF BuildSystem, workVars, readVars
<1> QED
  BY <1>1, <1>2, <1>3, <1>4, <1>5, <1>6 DEF IInv

LEMMA ProjectionInv ==
  ASSUME IInv, NEW w \in Workers, WorkerFails(w) \/ Process(w)
  PROVE  IInv'
<1>0. TypeOK /\ Construction /\ Ownership /\ Tracking /\ Drained /\ Freshness
  BY DEF IInv
<1>1. TypeOK'
  <2>0. worker \in [Workers -> WorkerStatus] /\ pos \in [Workers -> Nat]
    BY <1>0 DEF TypeOK
  <2>1. worker' \in [Workers -> WorkerStatus] /\ pos' \in [Workers -> Nat]
    <3>1. CASE WorkerFails(w)
      BY <2>0, <3>1 DEF WorkerFails, WorkerStatus
    <3>2. CASE Process(w)
      BY <2>0, <3>2 DEF Process
    <3> QED
      BY <3>1, <3>2
  <2> QED
    BY <1>0, <2>1 DEF TypeOK, WorkerFails, Process, buildVars, readVars, cmdVars, stopVars
<1>2. Freshness'
  <2>0. pos \in [Workers -> Nat]
    BY <1>0 DEF TypeOK
  <2>1. \A v \in Workers : pos[v] \in Nat /\ pos'[v] \in Nat /\ pos[v] <= pos'[v]
    BY <2>0 DEF WorkerFails, Process
  <2>2. UNCHANGED readVars /\ mark \in [Queries -> Nat] /\ MaxStaleness \in Nat
    BY <1>0, EventServiceAssumption DEF TypeOK, WorkerFails, Process
  <2> QED
    BY <1>0, <2>1, <2>2 DEF Freshness, readVars
<1>3. Construction' /\ Ownership' /\ Tracking' /\ Drained'
  BY <1>0, ConstructionFrame, OwnershipFrame, TrackingFrame, DrainedFrame
     DEF WorkerFails, Process, buildVars, cmdVars, stopVars
<1> QED
  BY <1>1, <1>2, <1>3 DEF IInv

LEMMA StartProjectionsInv ==
  ASSUME IInv, StartProjections
  PROVE  IInv'
<1>0. TypeOK /\ Construction /\ Ownership /\ Tracking /\ Drained /\ Freshness
  BY DEF IInv
<1>1. TypeOK'
  BY <1>0 DEF StartProjections, TypeOK, WorkerStatus, buildVars, readVars, cmdVars, stopVars
<1>2. Construction' /\ Ownership' /\ Tracking' /\ Drained' /\ Freshness'
  BY <1>0, ConstructionFrame, OwnershipFrame, TrackingFrame, DrainedFrame, FreshnessFrame
     DEF StartProjections, buildVars, readVars, cmdVars, stopVars
<1> QED
  BY <1>1, <1>2 DEF IInv

LEMMA ResetProjectionInv ==
  ASSUME IInv, NEW w \in Workers, ResetProjection(w)
  PROVE  IInv'
<1>0. TypeOK /\ Construction /\ Ownership /\ Tracking /\ Drained /\ Freshness
  BY DEF IInv
<1>1. TypeOK'
  <2>1. exempt' \in [Queries -> SUBSET Workers]
    BY <1>0 DEF ResetProjection, TypeOK
  <2>2. pos' \in [Workers -> Nat]
    BY <1>0 DEF ResetProjection, TypeOK
  <2> QED
    BY <1>0, <2>1, <2>2 DEF ResetProjection, TypeOK, buildVars, cmdVars, stopVars
<1>2. Freshness'
  <2>1. \A q \in Queries : query[q] = "checked" => exempt'[q] = exempt[q] \cup {w}
    BY DEF ResetProjection
  <2>2. \A v \in Workers \ {w} : pos'[v] = pos[v]
    BY <1>0 DEF ResetProjection, TypeOK
  <2> QED
    BY <1>0, <2>1, <2>2 DEF ResetProjection, Freshness
<1>3. Construction' /\ Ownership' /\ Tracking' /\ Drained'
  BY <1>0, ConstructionFrame, OwnershipFrame, TrackingFrame, DrainedFrame
     DEF ResetProjection, buildVars, cmdVars, stopVars
<1> QED
  BY <1>1, <1>2, <1>3 DEF IInv

LEMMA CheckQueryInv ==
  ASSUME IInv, NEW q \in Queries, CheckQuery(q)
  PROVE  IInv'
<1>0. TypeOK /\ Construction /\ Ownership /\ Tracking /\ Drained /\ Freshness
  BY DEF IInv
<1>1. TypeOK'
  <2>1. query' \in [Queries -> {"idle", "checked", "refused", "answered"}]
    <3>1. query \in [Queries -> {"idle", "checked", "refused", "answered"}]
      BY <1>0 DEF TypeOK
    <3> QED
      BY <3>1 DEF CheckQuery
  <2>2. mark' \in [Queries -> Nat] /\ exempt' \in [Queries -> SUBSET Workers]
    <3>1. mark \in [Queries -> Nat] /\ exempt \in [Queries -> SUBSET Workers] /\ head \in Nat
      BY <1>0 DEF TypeOK
    <3>2. {w \in Workers : pos[w] = 0} \in SUBSET Workers
      OBVIOUS
    <3> QED
      BY <3>1, <3>2 DEF CheckQuery
  <2>3. UNCHANGED <<buildVars, workVars, behind, cmdVars, stopVars>>
    BY DEF CheckQuery
  <2> QED
    BY <1>0, <2>1, <2>2, <2>3 DEF TypeOK, buildVars, workVars, cmdVars, stopVars
<1>2. Freshness'
  <2>1. CASE query'[q] = "refused"
    BY <1>0, <2>1 DEF CheckQuery, Freshness, TypeOK, workVars
  <2>2. CASE CheckStaleness /\ query'[q] = "checked"
    <3>1. /\ query' = [query EXCEPT ![q] = "checked"]
          /\ mark' = [mark EXCEPT ![q] = head]
          /\ exempt' = [exempt EXCEPT ![q] = {w \in Workers : pos[w] = 0}]
          /\ UNCHANGED <<pos, behind>>
      BY <1>0, <2>2 DEF CheckQuery, TypeOK, workVars
    <3>2. ASSUME MaxStaleness > 0, NEW w \in Workers, pos[w] # 0
          PROVE  head <= pos[w] + MaxStaleness
      <4>1. head - pos[w] <= MaxStaleness
        BY <2>2, <3>2 DEF CheckStaleness, Lag
      <4> QED
        BY <1>0, <4>1, EventServiceAssumption DEF TypeOK
    <3>3. ASSUME MaxStaleness > 0, NEW w \in Workers \ exempt'[q]
          PROVE  mark'[q] <= pos'[w] + MaxStaleness
      BY <1>0, <3>1, <3>2, <3>3 DEF TypeOK
    <3> QED
      BY <1>0, <3>1, <3>3 DEF Freshness, TypeOK
  <2> QED
    BY <1>0, <2>1, <2>2 DEF CheckQuery, TypeOK
<1>3. Construction' /\ Ownership' /\ Tracking' /\ Drained'
  BY <1>0, ConstructionFrame, OwnershipFrame, TrackingFrame, DrainedFrame
     DEF CheckQuery, buildVars, cmdVars, stopVars
<1> QED
  BY <1>1, <1>2, <1>3 DEF IInv

LEMMA AnswerQueryInv ==
  ASSUME IInv, NEW q \in Queries, AnswerQuery(q)
  PROVE  IInv'
<1>0. TypeOK /\ Construction /\ Ownership /\ Tracking /\ Drained /\ Freshness
  BY DEF IInv
<1> DEFINE L == {mark[q] - pos[w] : w \in {x \in Workers \ exempt[q] : pos[x] < mark[q]}}
           S == {0} \cup L
<1>1. S \in SUBSET Nat /\ S # {} /\ \A x \in S : x <= mark[q]
  BY <1>0 DEF TypeOK
<1>2. Max(S) \in S
  <2> HIDE DEF S
  <2>1. mark[q] \in Nat
    BY <1>0 DEF TypeOK
  <2> QED
    BY <1>1, <2>1, MaxOfBounded
<1>3. behind'[q] = Max(S) /\ \A r \in Queries \ {q} : behind'[r] = behind[r]
  BY <1>0 DEF AnswerQuery, TypeOK
<1>4. TypeOK'
  <2>1. behind' = [behind EXCEPT ![q] = Max(S)]
    BY DEF AnswerQuery
  <2>2. behind' \in [Queries -> Nat]
    <3> HIDE DEF S
    <3> QED
      BY <1>0, <1>1, <1>2, <2>1 DEF TypeOK
  <2>3. mark' \in [Queries -> Nat] /\ exempt' \in [Queries -> SUBSET Workers]
    BY <1>0 DEF AnswerQuery, TypeOK
  <2> QED
    BY <1>0, <2>2, <2>3 DEF AnswerQuery, TypeOK, buildVars, workVars, cmdVars, stopVars
<1>5. Freshness'
  <2>1. ASSUME MaxStaleness > 0, NEW x \in S
        PROVE  x <= MaxStaleness
    BY <1>0, <2>1, EventServiceAssumption DEF AnswerQuery, Freshness, TypeOK
  <2>2. MaxStaleness > 0 => behind'[q] <= MaxStaleness
    BY <1>2, <1>3, <2>1
  <2>3. /\ query'[q] = "answered"
        /\ \A r \in Queries \ {q} : /\ query'[r] = query[r] /\ mark'[r] = mark[r]
                                     /\ exempt'[r] = exempt[r] /\ behind'[r] = behind[r]
        /\ pos' = pos
    BY <1>0 DEF AnswerQuery, TypeOK, workVars
  <2> QED
    BY <1>0, <2>2, <2>3 DEF Freshness
<1>6. Construction' /\ Ownership' /\ Tracking' /\ Drained'
  BY <1>0, ConstructionFrame, OwnershipFrame, TrackingFrame, DrainedFrame
     DEF AnswerQuery, buildVars, cmdVars, stopVars
<1> QED
  BY <1>4, <1>5, <1>6 DEF IInv

LEMMA EnterInv ==
  ASSUME IInv, NEW c \in Commands, Enter(c)
  PROVE  IInv'
<1>0. TypeOK /\ Construction /\ Ownership /\ Tracking /\ Drained /\ Freshness
  BY DEF IInv
<1>1. /\ cmd \in [Commands -> Nat] /\ pending \in Nat
      /\ sys # "none" /\ cmd[c] < Handler
      /\ cmd' = [cmd EXCEPT ![c] = cmd[c] + 1]
      /\ UNCHANGED <<buildVars, workVars, readVars, effect, head, stopVars>>
  BY <1>0 DEF TypeOK, Enter
<1>2. /\ Len(chain) \in Nat /\ Len(chain) > 0
      /\ \A i \in 1..Len(chain) : chain[i] = "tracker" <=> i = 1
      /\ Handler = Len(chain) + 1 /\ Done = Handler + 1
      /\ Handler' = Handler /\ Done' = Done
  BY <1>0, <1>1, ChainShape DEF Handler, Done, buildVars
<1>3. \A d \in Commands : Running(d) <=> cmd[d] \in 1..Handler
  BY DEF Running
<1>4. \A d \in Commands : Running(d)' <=> cmd'[d] \in 1..Handler
  BY <1>2 DEF Running
<1>5. Tracking'
  <2>1. CASE cmd[c] = 0
    <3>1. pending' = pending + 1
      BY <1>1, <1>2, <2>1 DEF Enter
    <3>2. c \notin InFlight
      BY <1>2, <1>3, <2>1 DEF InFlight
    <3>3. InFlight' = InFlight \cup {c}
      BY <1>1, <1>2, <1>3, <1>4, <2>1 DEF InFlight
    <3>4. IsFiniteSet(InFlight') /\ Cardinality(InFlight') = Cardinality(InFlight) + 1
      BY <1>0, <3>2, <3>3, FS_AddElement DEF Tracking
    <3> QED
      BY <1>0, <1>1, <1>2, <3>1, <3>4 DEF Tracking, buildVars
  <2>2. CASE cmd[c] # 0
    <3>1. pending' = pending
      <4>1. cmd[c] < Len(chain) => chain[cmd[c] + 1] # "tracker"
        BY <1>1, <1>2, <2>2
      <4> QED
        BY <4>1 DEF Enter
    <3>2. InFlight' = InFlight
      BY <1>1, <1>2, <1>3, <1>4, <2>2 DEF InFlight
    <3> QED
      BY <1>0, <1>1, <1>2, <3>1, <3>2 DEF Tracking, buildVars
  <2> QED
    BY <2>1, <2>2
<1>6. TypeOK'
  <2>1. cmd' \in [Commands -> Nat] /\ pending' \in Nat
    BY <1>1 DEF Enter
  <2> QED
    BY <1>0, <1>1, <2>1 DEF TypeOK, buildVars, workVars, readVars, stopVars
<1>7. Drained'
  <2>1. \A d \in before : cmd[d] = Done => d # c
    BY <1>1, <1>2
  <2>2. \A d \in Commands \ {c} : cmd'[d] = cmd[d]
    BY <1>1
  <2>3. cmd'[c] > 0 /\ before \subseteq Commands
    BY <1>0, <1>1 DEF TypeOK
  <2> QED
    BY <1>0, <1>1, <1>2, <2>1, <2>2, <2>3 DEF Drained, DrainedBeforeClose, buildVars, stopVars
<1>8. Construction' /\ Ownership' /\ Freshness'
  BY <1>0, <1>1, ConstructionFrame, OwnershipFrame, FreshnessFrame DEF buildVars, workVars, readVars, stopVars
<1> QED
  BY <1>5, <1>6, <1>7, <1>8 DEF IInv

LEMMA StoreInv ==
  ASSUME IInv, NEW c \in Commands, Store(c)
  PROVE  IInv'
<1>0. TypeOK /\ Construction /\ Ownership /\ Tracking /\ Drained /\ Freshness
  BY DEF IInv
<1>1. /\ effect \in [Commands -> {"none", "stored", "refused"}] /\ head \in Nat
      /\ UNCHANGED <<buildVars, workVars, readVars, cmd, pending, stopVars>>
  BY <1>0 DEF TypeOK, Store
<1>2. TypeOK'
  <2>1. effect' \in [Commands -> {"none", "stored", "refused"}] /\ head' \in Nat
    BY <1>1 DEF Store
  <2> QED
    BY <1>0, <1>1, <2>1 DEF TypeOK, buildVars, workVars, readVars, stopVars
<1>3. Drained'
  <2>1. cmd[c] # Done
    BY <1>0, ChainShape DEF Store
  <2>2. \A d \in Commands \ {c} : effect'[d] = effect[d]
    BY <1>1 DEF Store
  <2>3. sys # "closed" => effect'[c] = "stored"
    BY <1>1 DEF Store
  <2>4. before \subseteq Commands /\ Done' = Done
    BY <1>0, <1>1 DEF TypeOK, Done, buildVars
  <2> QED
    BY <1>0, <1>1, <2>1, <2>2, <2>3, <2>4 DEF Drained, DrainedBeforeClose, buildVars, stopVars
<1>4. Construction' /\ Ownership' /\ Tracking' /\ Freshness'
  BY <1>0, <1>1, ConstructionFrame, OwnershipFrame, TrackingFrame, FreshnessFrame
     DEF buildVars, workVars, readVars, stopVars
<1> QED
  BY <1>2, <1>3, <1>4 DEF IInv

LEMMA ExitInv ==
  ASSUME IInv, NEW c \in Commands, Exit(c)
  PROVE  IInv'
<1>0. TypeOK /\ Construction /\ Ownership /\ Tracking /\ Drained /\ Freshness
  BY DEF IInv
<1>1. /\ cmd \in [Commands -> Nat] /\ pending \in Nat
      /\ cmd[c] \in 1..Handler
      /\ cmd' = [cmd EXCEPT ![c] = Done]
      /\ UNCHANGED <<buildVars, workVars, readVars, effect, head, stopVars>>
  BY <1>0 DEF TypeOK, Exit, Running
<1>2. /\ Len(chain) \in Nat /\ sys # "none" /\ Len(chain) > 0
      /\ chain[1] = "tracker"
      /\ Handler = Len(chain) + 1 /\ Done = Handler + 1
      /\ Handler' = Handler /\ Done' = Done
  <2>1. sys # "none"
    BY <1>0, <1>1 DEF Tracking
  <2> QED
    BY <1>0, <1>1, <2>1, ChainShape DEF Handler, Done, buildVars
<1>3. pending' = pending - 1
  BY <1>1, <1>2 DEF Exit
<1>4. c \in InFlight /\ InFlight' = InFlight \ {c}
  <2>1. \A d \in Commands : Running(d) <=> cmd[d] \in 1..Handler
    BY DEF Running
  <2>2. \A d \in Commands : Running(d)' <=> cmd'[d] \in 1..Handler
    BY <1>2 DEF Running
  <2> QED
    BY <1>1, <1>2, <2>1, <2>2 DEF InFlight
<1>5. /\ IsFiniteSet(InFlight') /\ Cardinality(InFlight') = Cardinality(InFlight) - 1
      /\ Cardinality(InFlight') \in Nat
  <2>1. IsFiniteSet(InFlight)
    BY <1>0 DEF Tracking
  <2>2. IsFiniteSet(InFlight \ {c}) /\ Cardinality(InFlight \ {c}) = Cardinality(InFlight) - 1
    BY <1>4, <2>1, FS_RemoveElement
  <2> QED
    BY <1>4, <2>2, FS_CardinalityType
<1>6. Tracking'
  BY <1>0, <1>1, <1>2, <1>3, <1>5 DEF Tracking, buildVars
<1>7. TypeOK'
  <2>1. cmd' \in [Commands -> Nat]
    BY <1>1, <1>2
  <2>2. pending' \in Nat
    BY <1>0, <1>3, <1>5 DEF Tracking
  <2> QED
    BY <1>0, <1>1, <2>1, <2>2 DEF TypeOK, buildVars, workVars, readVars, stopVars
<1>8. Drained'
  <2>1. /\ \A d \in Commands \ {c} : cmd'[d] = cmd[d]
        /\ cmd'[c] = Done /\ Done > 0
    BY <1>1, <1>2
  <2>2. before \subseteq Commands /\ cmd[c] # Done
    BY <1>0, <1>1, <1>2 DEF TypeOK
  <2> QED
    BY <1>0, <1>1, <1>2, <2>1, <2>2 DEF Drained, DrainedBeforeClose, buildVars, stopVars
<1>9. Construction' /\ Ownership' /\ Freshness'
  BY <1>0, <1>1, ConstructionFrame, OwnershipFrame, FreshnessFrame DEF buildVars, workVars, readVars, stopVars
<1> QED
  BY <1>6, <1>7, <1>8, <1>9 DEF IInv

\* What a Shutdown call's bookkeeping leaves alone.
LEMMA StopType ==
  ASSUME TypeOK, UNCHANGED <<config, engines, chain, es, dlq, registered, pos, readVars, cmdVars>>,
         aux' \in {"none", "open", "closed"}, sys' \in {"none", "open", "closed"},
         worker' \in [Workers -> WorkerStatus],
         closed' \in BOOLEAN, cancelled' \in BOOLEAN,
         pc' \in [Stops -> {"idle", "wait", "woken", "drain", "close", "done"}],
         expired' \in [Stops -> {"no", "timeout", "parent"}],
         drain' \in [Stops -> {"none", "ok", "cancelled"}],
         closer' \in Stops \cup {None}, before' \subseteq Commands, closes' \in Nat
  PROVE  TypeOK'
BY DEF TypeOK, readVars, cmdVars

\* A Shutdown call that begins, wakes, finds es.closed set, or whose context ends.
LEMMA CallInv ==
  ASSUME IInv, NEW s \in Stops, Wait(s) \/ Wake(s) \/ AlreadyClosed(s) \/ Expire(s)
  PROVE  IInv'
<1>0. TypeOK /\ Construction /\ Ownership /\ Tracking /\ Drained /\ Freshness
  BY DEF IInv
<1>1. /\ pc \in [Stops -> {"idle", "wait", "woken", "drain", "close", "done"}]
      /\ expired \in [Stops -> {"no", "timeout", "parent"}]
  BY <1>0 DEF TypeOK
<1>2. UNCHANGED <<buildVars, workVars, readVars, cmdVars, closed, cancelled, drain, closer, before, closes>>
  BY DEF Wait, Wake, AlreadyClosed, Expire
<1>3. TypeOK'
  <2>1. /\ pc' \in [Stops -> {"idle", "wait", "woken", "drain", "close", "done"}]
        /\ expired' \in [Stops -> {"no", "timeout", "parent"}]
    BY <1>1 DEF Wait, Wake, AlreadyClosed, Expire
  <2> QED
    BY <1>0, <1>2, <2>1, StopType DEF TypeOK, buildVars, workVars
<1>4. /\ \A t \in Stops \ {s} : pc'[t] = pc[t]
      /\ pc'[s] = pc[s] \/ (pc[s] \in {"idle", "wait", "woken"} /\ pc'[s] \in {"wait", "woken", "done"})
      /\ es = "built" \/ pc'[s] = pc[s] \/ pc[s] # "idle"
  BY <1>1 DEF Wait, Wake, AlreadyClosed, Expire, Called
<1>5. Construction'
  BY <1>0, <1>2, <1>4 DEF Construction, MergedChain, buildVars
<1>6. Ownership'
  BY <1>0, <1>2, <1>4 DEF Ownership, buildVars
<1>7. Tracking' /\ Drained' /\ Freshness'
  BY <1>0, <1>2, TrackingFrame, DrainedFrame, FreshnessFrame DEF buildVars, workVars, readVars, cmdVars
<1> QED
  BY <1>3, <1>5, <1>6, <1>7 DEF IInv

LEMMA CancelInv ==
  ASSUME IInv, Cancel
  PROVE  IInv'
<1>0. TypeOK /\ Construction /\ Ownership /\ Tracking /\ Drained /\ Freshness
  BY DEF IInv
<1>1. expired' \in [Stops -> {"no", "timeout", "parent"}]
  BY <1>0 DEF TypeOK, Cancel
<1>2. UNCHANGED <<buildVars, workVars, readVars, cmdVars, closed, pc, drain, closer, before, closes>> /\ cancelled' = TRUE
  BY DEF Cancel
<1>3. TypeOK'
  BY <1>0, <1>1, <1>2, StopType DEF TypeOK, buildVars, workVars
<1>4. Construction' /\ Ownership' /\ Tracking' /\ Drained' /\ Freshness'
  BY <1>0, <1>2, ConstructionFrame, OwnershipFrame, TrackingFrame, DrainedFrame, FreshnessFrame
     DEF buildVars, workVars, readVars, cmdVars
<1> QED
  BY <1>3, <1>4 DEF IInv

LEMMA ClaimInv ==
  ASSUME IInv, NEW s \in Stops, Claim(s)
  PROVE  IInv'
<1>0. TypeOK /\ Construction /\ Ownership /\ Tracking /\ Drained /\ Freshness
  BY DEF IInv
<1>1. /\ pc \in [Stops -> {"idle", "wait", "woken", "drain", "close", "done"}]
      /\ drain \in [Stops -> {"none", "ok", "cancelled"}]
  BY <1>0 DEF TypeOK
<1>2. /\ ~closed /\ closed' = TRUE /\ closer' = s /\ before' = InFlight
      /\ es = "built" /\ pc' = [pc EXCEPT ![s] = "drain"]
      /\ UNCHANGED <<buildVars, workVars, readVars, cmdVars, cancelled, expired, drain, closes>>
  BY DEF Claim, Called, InFlight
<1>3. TypeOK'
  <2>1. pc' \in [Stops -> {"idle", "wait", "woken", "drain", "close", "done"}]
    BY <1>1, <1>2
  <2>2. before' \subseteq Commands
    BY <1>2 DEF InFlight
  <2> QED
    BY <1>0, <1>2, <2>1, <2>2, StopType DEF TypeOK, buildVars, workVars
<1>4. Construction'
  BY <1>0, <1>1, <1>2 DEF Construction, MergedChain, buildVars
<1>5. Ownership'
  BY <1>0, <1>1, <1>2 DEF Ownership, buildVars
<1>6. Drained'
  <2>1. \A t \in Stops : drain'[t] = "none"
    BY <1>0, <1>2 DEF Ownership
  <2>2. \A c \in before' : cmd'[c] > 0
    <3>1. \A c \in InFlight : cmd[c] > 0
      BY <1>0, ChainShape DEF InFlight, Running
    <3> QED
      BY <1>2, <3>1 DEF cmdVars
  <2> QED
    BY <1>0, <1>2, <2>1, <2>2 DEF Drained, DrainedBeforeClose, buildVars, cmdVars
<1>7. Tracking' /\ Freshness'
  BY <1>0, <1>2, TrackingFrame, FreshnessFrame DEF buildVars, workVars, readVars, cmdVars
<1> QED
  BY <1>3, <1>4, <1>5, <1>6, <1>7 DEF IInv

LEMMA DrainEndsInv ==
  ASSUME IInv, NEW s \in Stops, DrainEnds(s)
  PROVE  IInv'
<1>0. TypeOK /\ Construction /\ Ownership /\ Tracking /\ Drained /\ Freshness
  BY DEF IInv
<1>1. /\ pc \in [Stops -> {"idle", "wait", "woken", "drain", "close", "done"}]
      /\ drain \in [Stops -> {"none", "ok", "cancelled"}]
  BY <1>0 DEF TypeOK
<1>2. /\ pc[s] = "drain" /\ pc' = [pc EXCEPT ![s] = "close"]
      /\ UNCHANGED <<buildVars, workVars, readVars, cmdVars, closed, cancelled, expired, closer, before, closes>>
  BY DEF DrainEnds
<1>3. closed /\ s = closer
  BY <1>0, <1>2 DEF Ownership
<1>4. TypeOK'
  <2>1. /\ pc' \in [Stops -> {"idle", "wait", "woken", "drain", "close", "done"}]
        /\ drain' \in [Stops -> {"none", "ok", "cancelled"}]
    BY <1>1 DEF DrainEnds
  <2> QED
    BY <1>0, <1>2, <2>1, StopType DEF TypeOK, buildVars, workVars
<1>5. Construction'
  BY <1>0, <1>1, <1>2 DEF Construction, MergedChain, buildVars
<1>6. drain'[s] # "none" /\ \A t \in Stops \ {s} : drain'[t] = drain[t]
  BY <1>1 DEF DrainEnds
<1>7. Ownership'
  BY <1>0, <1>1, <1>2, <1>3, <1>6 DEF Ownership, buildVars
<1>8. Drained'
  <2>1. ASSUME drain'[s] = "ok", NEW c \in before
        PROVE  cmd[c] = Done /\ effect[c] # "refused"
    <3>1. pending = 0
      BY <1>1, <2>1 DEF DrainEnds
    <3>2. InFlight = {}
      BY <1>0, <3>1, FS_EmptySet DEF Tracking
    <3>3. c \in Commands /\ ~Running(c) /\ cmd[c] > 0 /\ cmd[c] <= Done /\ cmd[c] \in Nat
      BY <1>0, <3>2 DEF TypeOK, InFlight, Drained, Tracking
    <3>4. cmd[c] = Done
      BY <1>0, <3>3, ChainShape DEF Running
    <3>5. sys # "closed"
      BY <1>0, <1>2, <1>3 DEF Ownership
    <3> QED
      BY <1>0, <3>3, <3>4, <3>5 DEF Drained
  <2>2. Done' = Done
    BY <1>2 DEF Done, buildVars
  <2> QED
    BY <1>0, <1>2, <1>6, <2>1, <2>2 DEF Drained, DrainedBeforeClose, buildVars, cmdVars
<1>9. Tracking' /\ Freshness'
  BY <1>0, <1>2, TrackingFrame, FreshnessFrame DEF buildVars, workVars, readVars, cmdVars
<1> QED
  BY <1>4, <1>5, <1>7, <1>8, <1>9 DEF IInv

LEMMA CloseInv ==
  ASSUME IInv, NEW s \in Stops, Close(s)
  PROVE  IInv'
<1>0. TypeOK /\ Construction /\ Ownership /\ Tracking /\ Drained /\ Freshness
  BY DEF IInv
<1>1. /\ pc \in [Stops -> {"idle", "wait", "woken", "drain", "close", "done"}]
      /\ worker \in [Workers -> WorkerStatus] /\ aux \in {"none", "open", "closed"}
  BY <1>0 DEF TypeOK
<1>2. /\ pc[s] = "close" /\ pc' = [pc EXCEPT ![s] = "done"]
      /\ sys' = "closed" /\ closes' = closes + 1
      /\ aux' = IF registered THEN "closed" ELSE aux
      /\ UNCHANGED <<config, engines, chain, es, dlq, registered, pos, readVars, cmdVars, closed, cancelled,
                     expired, drain, closer, before>>
  BY DEF Close
<1>3. closed /\ s = closer /\ closes = 0 /\ es = "built" /\ sys # "none"
  BY <1>0, <1>2 DEF Ownership, Construction
<1>4. TypeOK'
  <2>1. /\ pc' \in [Stops -> {"idle", "wait", "woken", "drain", "close", "done"}]
        /\ worker' \in [Workers -> WorkerStatus]
    BY <1>1 DEF Close, WorkerStatus
  <2>2. aux' \in {"none", "open", "closed"} /\ closes' \in Nat
    BY <1>1, <1>2, <1>3
  <2> QED
    BY <1>0, <1>2, <2>1, <2>2, StopType DEF TypeOK
<1>5. Construction'
  BY <1>0, <1>1, <1>2, <1>3 DEF Construction, MergedChain
<1>6. Ownership'
  BY <1>0, <1>1, <1>2, <1>3 DEF Ownership
<1>7. Tracking'
  <2>1. InFlight' = InFlight /\ Done' = Done
    BY <1>2 DEF InFlight, Running, Handler, Done, cmdVars
  <2> QED
    BY <1>0, <1>2, <1>3, <2>1 DEF Tracking, cmdVars
<1>8. Drained'
  BY <1>0, <1>2 DEF Drained, DrainedBeforeClose, Done, cmdVars
<1>9. Freshness'
  BY <1>0, <1>2, FreshnessFrame DEF readVars
<1> QED
  BY <1>4, <1>5, <1>6, <1>7, <1>8, <1>9 DEF IInv

LEMMA StutterInv ==
  ASSUME IInv, UNCHANGED vars
  PROVE  IInv'
<1>0. TypeOK /\ Construction /\ Ownership /\ Tracking /\ Drained /\ Freshness
  BY DEF IInv
<1>1. TypeOK'
  BY <1>0 DEF TypeOK, vars, buildVars, workVars, readVars, cmdVars, stopVars
<1>2. Construction' /\ Ownership' /\ Tracking' /\ Drained' /\ Freshness'
  BY <1>0, ConstructionFrame, OwnershipFrame, TrackingFrame, DrainedFrame, FreshnessFrame
     DEF vars, buildVars, workVars, readVars, cmdVars, stopVars
<1> QED
  BY <1>1, <1>2 DEF IInv

LEMMA NextInv == IInv /\ [Next]_vars => IInv'
<1> SUFFICES ASSUME IInv, [Next]_vars PROVE IInv'
  OBVIOUS
<1>1. CASE Construct
  BY <1>1, PrepareInv, BuildSystemInv DEF Construct
<1>2. CASE StartProjections
  BY <1>2, StartProjectionsInv
<1>3. CASE \E w \in Workers : WorkerFails(w) \/ Process(w) \/ ResetProjection(w)
  BY <1>3, ProjectionInv, ResetProjectionInv
<1>4. CASE \E q \in Queries : CheckQuery(q) \/ AnswerQuery(q)
  BY <1>4, CheckQueryInv, AnswerQueryInv
<1>5. CASE \E c \in Commands : Enter(c) \/ Store(c) \/ Exit(c)
  BY <1>5, EnterInv, StoreInv, ExitInv
<1>6. CASE \E s \in Stops : Wait(s) \/ Wake(s) \/ StopStep(s) \/ Expire(s)
  BY <1>6, CallInv, ClaimInv, DrainEndsInv, CloseInv DEF StopStep
<1>7. CASE Cancel
  BY <1>7, CancelInv
<1>8. CASE UNCHANGED vars
  BY <1>8, StutterInv
<1> QED
  BY <1>1, <1>2, <1>3, <1>4, <1>5, <1>6, <1>7, <1>8 DEF Next

-----------------------------------------------------------------------------
(* Theorems *)

\* IInv holds in every reachable state of EventService.
THEOREM InvariantHolds == Spec => []IInv
  BY InitInv, NextInv, PTL DEF Spec

\* The auxiliary database NewEventService opens for the dead-letter queue is
\* never left behind, neither by a construction that fails nor by Shutdown.
THEOREM AuxOwned == Spec => []AuxNeverLeaks
<1>1. IInv => AuxNeverLeaks
  BY DEF IInv, TypeOK, Construction, AuxNeverLeaks
<1> QED
  BY <1>1, InvariantHolds, PTL

\* However many Shutdown calls and WaitForSignal callbacks race, the engines
\* are closed at most once.
THEOREM SingleClose == Spec => []ClosedOnce
<1>1. IInv => ClosedOnce
  BY DEF IInv, Ownership, ClosedOnce
<1> QED
  BY <1>1, InvariantHolds, PTL

\* A drain that ended well waited for every command that was in flight when
\* Shutdown set es.closed, and open engines stored what those wrote.
THEOREM DrainWaits == Spec => []DrainedBeforeClose
<1>1. IInv => DrainedBeforeClose
  BY DEF IInv, Drained
<1> QED
  BY <1>1, InvariantHolds, PTL

\* The answer of DispatchQueryChecked is no further behind the store as it was
\* checked than the threshold, for projections that had begun and were not reset.
THEOREM GuardedQueryFresh == Spec => []CheckedAnswerFresh
<1>1. IInv => CheckedAnswerFresh
  BY DEF IInv, Freshness, CheckedAnswerFresh
<1> QED
  BY <1>1, InvariantHolds, PTL

-----------------------------------------------------------------------------
(* The refinement of EventContract *)

\* The phase the owner sees, read off the variables of the service.
LEMMA PhaseFacts ==
  ASSUME IInv
  PROVE  /\ PhaseNow = "failed" <=> es = "failed"
         /\ PhaseNow = "new" <=> es # "failed" /\ sys = "none"
         /\ PhaseNow = "open" <=> sys = "open" /\ ~closed
         /\ PhaseNow = "draining" <=> sys = "open" /\ closed
         /\ PhaseNow = "closed" <=> sys = "closed"
         /\ PhaseNow \in {"failed", "new", "open", "draining", "closed"}
<1>1. /\ es = "built" <=> sys # "none"
      /\ sys \in {"none", "open", "closed"}
      /\ closed \in BOOLEAN
  BY DEF IInv, TypeOK, Construction
<1> QED
  BY <1>1 DEF PhaseNow

\* A phase is kept with the variables it is read off.
LEMMA PhaseKept ==
  ASSUME UNCHANGED <<es, sys, closed>>
  PROVE  PhaseNow' = PhaseNow
BY DEF PhaseNow

\* Where a command is, is kept with its place in the chain.
LEMMA CommandsKept ==
  ASSUME UNCHANGED <<cmd, chain>>
  PROVE  \A c \in Commands : CommandNow(c)' = CommandNow(c)
BY DEF CommandNow, Running, Handler

\* What the contract does not mention is a stutter of it.
LEMMA ContractStutter ==
  ASSUME PhaseNow' = PhaseNow, (aux = "open")' = (aux = "open"),
         \A c \in Commands : CommandNow(c)' = CommandNow(c),
         UNCHANGED <<effect, before, drain>>
  PROVE  UNCHANGED Contract!vars
BY DEF Contract!vars

LEMMA ContractInit == Init => Contract!Init
<1> SUFFICES ASSUME Init PROVE Contract!Init
  OBVIOUS
<1>1. PhaseNow = "new" /\ \A c \in Commands : CommandNow(c) = "idle"
  BY DEF Init, PhaseNow, CommandNow
<1>2. /\ (aux = "open") = FALSE
      /\ (\E s \in Stops : drain[s] = "cancelled") = FALSE
      /\ effect = [c \in Commands |-> "none"] /\ before = {}
  BY DEF Init
<1> QED
  BY <1>1, <1>2 DEF Contract!Init

\* Construction opens the handle, comes up with it or gives up without it.
LEMMA ConstructContract ==
  ASSUME IInv, IInv', Construct
  PROVE  [Contract!Next]_Contract!vars
<1>0. Construction /\ Tracking /\ Tracking'
  BY DEF IInv
<1>1. /\ UNCHANGED <<effect, before, drain, closed, cmd>>
      /\ es \in {"new", "resolved", "aux"}
  BY DEF Construct, ResolveDeployment, ResolveFails, NoAux, AuxRejected, AuxStoreFails, OpenAux, BuildSystem,
         BuildFails, cmdVars, stopVars
<1>2. PhaseNow = "new"
  BY <1>0, <1>1, PhaseFacts DEF Construction
<1>3. \A c \in Commands : CommandNow(c)' = CommandNow(c)
  <2>1. \A c \in Commands : cmd[c] = 0 /\ cmd'[c] = 0
    BY <1>0, <1>1 DEF Construction, Tracking
  <2> QED
    BY <2>1 DEF CommandNow
<1>4. CASE ResolveDeployment \/ NoAux
  <2>1. UNCHANGED <<aux, sys>> /\ PhaseNow' = "new"
    <3>1. es' \in {"resolved", "aux"} /\ UNCHANGED <<aux, sys>>
      BY <1>4 DEF ResolveDeployment, NoAux
    <3>2. sys = "none"
      BY <1>0, <1>1 DEF Construction
    <3> QED
      BY <3>1, <3>2 DEF PhaseNow
  <2> QED
    BY <1>1, <1>2, <1>3, <2>1, ContractStutter
<1>5. CASE OpenAux
  <2>1. PhaseNow' = "new" /\ aux # "open" /\ aux' = "open"
    <3>1. es' = "aux" /\ sys' = sys /\ sys = "none" /\ aux # "open" /\ aux' = "open"
      BY <1>0, <1>5 DEF OpenAux, Construction
    <3> QED
      BY <3>1 DEF PhaseNow
  <2>2. Contract!OpenHandle
    BY <1>1, <1>2, <1>3, <2>1 DEF Contract!OpenHandle
  <2> QED
    BY <2>2 DEF Contract!Next
<1>6. CASE BuildSystem
  <2>1. PhaseNow' = "open" /\ aux' = aux
    <3>1. /\ sys' = "open" /\ es' = "built" /\ aux' = aux /\ closed' = closed /\ sys # "closed"
          /\ sys = "none"
      BY <1>0, <1>1, <1>6 DEF BuildSystem, Construction
    <3>2. closed = FALSE
      BY <3>1 DEF IInv, Ownership, TypeOK, Construction
    <3> QED
      BY <3>1, <3>2 DEF PhaseNow
  <2>2. Contract!ComeUp
    BY <1>1, <1>2, <1>3, <2>1 DEF Contract!ComeUp, Contract!At
  <2> QED
    BY <2>2 DEF Contract!Next
<1>7. CASE ResolveFails \/ AuxRejected \/ AuxStoreFails \/ BuildFails
  <2>1. PhaseNow' = "failed" /\ aux' # "open"
    <3>1. es' = "failed"
      BY <1>7 DEF ResolveFails, AuxRejected, AuxStoreFails, BuildFails
    <3>2. aux' # "open" /\ sys' = "none"
      BY <3>1 DEF IInv, Construction, TypeOK
    <3> QED
      BY <3>1, <3>2 DEF PhaseNow
  <2>2. Contract!GiveUp
    BY <1>1, <1>2, <1>3, <2>1 DEF Contract!GiveUp, Contract!At
  <2> QED
    BY <2>2 DEF Contract!Next
<1> QED
  BY <1>4, <1>5, <1>6, <1>7 DEF Construct

\* A command begins with its first layer, appends once and ends.
LEMMA CommandContract ==
  ASSUME IInv, NEW c \in Commands, Enter(c) \/ Store(c) \/ Exit(c)
  PROVE  [Contract!Next]_Contract!vars
<1>0. Construction /\ Tracking /\ cmd \in [Commands -> Nat] /\ effect \in [Commands -> {"none", "stored", "refused"}]
  BY DEF IInv, TypeOK
<1>1. /\ UNCHANGED <<es, aux, sys, closed, before, drain, chain>>
  BY DEF Enter, Store, Exit, buildVars, stopVars
<1>2. PhaseNow' = PhaseNow
  BY <1>1, PhaseKept
<1>3. /\ Handler \in Nat /\ Handler > 0 /\ Done = Handler + 1 /\ Handler' = Handler
  BY <1>0, <1>1, ChainShape DEF Handler
<1>4. \A d \in Commands : /\ CommandNow(d) = IF cmd[d] = 0 THEN "idle" ELSE IF cmd[d] \in 1..Handler THEN "running" ELSE "over"
                          /\ CommandNow(d)' = IF cmd'[d] = 0 THEN "idle" ELSE IF cmd'[d] \in 1..Handler THEN "running" ELSE "over"
  BY <1>3 DEF CommandNow, Running
<1>5. CASE Enter(c)
  <2>1. /\ sys # "none" /\ cmd[c] < Handler /\ effect' = effect
        /\ cmd'[c] = cmd[c] + 1 /\ \A d \in Commands \ {c} : cmd'[d] = cmd[d]
    BY <1>0, <1>5 DEF Enter
  <2>2. /\ CommandNow(c)' = "running" /\ CommandNow(c) = IF cmd[c] = 0 THEN "idle" ELSE "running"
        /\ \A d \in Commands \ {c} : CommandNow(d)' = CommandNow(d)
    BY <1>0, <1>3, <1>4, <2>1
  <2>3. CASE cmd[c] = 0
    <3>1. PhaseNow \notin {"new", "failed"}
      BY <1>0, <2>1, PhaseFacts DEF Construction
    <3>2. Contract!Begin(c)
      BY <1>1, <1>2, <2>1, <2>2, <2>3, <3>1 DEF Contract!Begin
    <3> QED
      BY <3>2 DEF Contract!Next
  <2>4. CASE cmd[c] # 0
    BY <1>1, <1>2, <2>1, <2>2, <2>4, ContractStutter
  <2> QED
    BY <2>3, <2>4
<1>6. CASE Store(c)
  <2>1. /\ cmd[c] = Handler /\ effect[c] = "none" /\ cmd' = cmd
        /\ effect' = [effect EXCEPT ![c] = IF sys = "closed" THEN "refused" ELSE "stored"]
    BY <1>6 DEF Store
  <2>2. CommandNow(c) = "running" /\ \A d \in Commands : CommandNow(d)' = CommandNow(d)
    BY <1>0, <1>3, <1>4, <2>1
  <2>3. PhaseNow = "closed" <=> sys = "closed"
    BY PhaseFacts
  <2>4. Contract!Append(c)
    BY <1>1, <1>2, <2>1, <2>2, <2>3 DEF Contract!Append
  <2> QED
    BY <2>4 DEF Contract!Next
<1>7. CASE Exit(c)
  <2>1. /\ cmd[c] \in 1..Handler /\ effect' = effect
        /\ cmd'[c] = Done /\ \A d \in Commands \ {c} : cmd'[d] = cmd[d]
    BY <1>0, <1>7 DEF Exit, Running
  <2>2. /\ CommandNow(c) = "running" /\ CommandNow(c)' = "over"
        /\ \A d \in Commands \ {c} : CommandNow(d)' = CommandNow(d)
    BY <1>0, <1>3, <1>4, <2>1
  <2>3. Contract!End(c)
    BY <1>1, <1>2, <2>1, <2>2 DEF Contract!End
  <2> QED
    BY <2>3 DEF Contract!Next
<1> QED
  BY <1>5, <1>6, <1>7

\* The shutdown begins where es.closed is set.
LEMMA ClaimContract ==
  ASSUME IInv, NEW s \in Stops, Claim(s)
  PROVE  [Contract!Next]_Contract!vars
<1>1. /\ ~closed /\ closed' = TRUE /\ es = "built" /\ before' = {c \in Commands : Running(c)}
      /\ UNCHANGED <<es, aux, sys, cmd, chain, effect, drain>>
  BY DEF Claim, Called, buildVars, cmdVars
<1>2. sys = "open"
  BY <1>1 DEF IInv, TypeOK, Construction, Ownership
<1>3. PhaseNow = "open" /\ PhaseNow' = "draining"
  BY <1>1, <1>2 DEF PhaseNow
<1>4. \A c \in Commands : Running(c) <=> CommandNow(c) = "running"
  <2>1. \A c \in Commands : Running(c) => cmd[c] # 0
    BY DEF Running
  <2> QED
    BY <2>1 DEF CommandNow
<1>5. Contract!Shutdown
  <2>1. \A c \in Commands : CommandNow(c)' = CommandNow(c)
    BY <1>1, CommandsKept
  <2> QED
    BY <1>1, <1>3, <1>4, <2>1 DEF Contract!Shutdown, Contract!At
<1> QED
  BY <1>5 DEF Contract!Next

\* The drain ends by itself, or its time runs out while a command is running.
LEMMA DrainEndsContract ==
  ASSUME IInv, NEW s \in Stops, DrainEnds(s)
  PROVE  [Contract!Next]_Contract!vars
<1>0. Ownership /\ Tracking /\ drain \in [Stops -> {"none", "ok", "cancelled"}] /\ sys # "none"
  BY DEF IInv, TypeOK, Construction, DrainEnds
<1>1. /\ pc[s] = "drain" /\ UNCHANGED <<es, aux, sys, closed, cmd, chain, effect, before>>
      /\ \A t \in Stops \ {s} : drain'[t] = drain[t]
  BY <1>0 DEF DrainEnds, buildVars, cmdVars
<1>2. closed /\ s = closer /\ sys # "closed" /\ \A t \in Stops : drain[t] = "none"
  BY <1>0, <1>1 DEF Ownership
<1>3. PhaseNow' = PhaseNow /\ \A c \in Commands : CommandNow(c)' = CommandNow(c)
  BY <1>1, PhaseKept, CommandsKept
<1>4. CASE pending = 0 /\ drain'[s] = "ok"
  <2>1. (\E t \in Stops : drain[t] = "cancelled")' = (\E t \in Stops : drain[t] = "cancelled")
    BY <1>1, <1>2, <1>4
  <2> QED
    BY <1>1, <1>3, <2>1 DEF Contract!vars
<1>5. CASE pending > 0 /\ drain'[s] = "cancelled"
  <2>1. PhaseNow = "draining"
    BY <1>0, <1>2, PhaseFacts DEF IInv, TypeOK
  <2>2. \E c \in Commands : CommandNow(c) = "running"
    <3>1. InFlight # {}
      BY <1>0, <1>5, FS_EmptySet DEF Tracking
    <3>2. \A c \in InFlight : c \in Commands /\ Running(c) /\ cmd[c] # 0
      BY DEF InFlight, Running
    <3> QED
      BY <3>1, <3>2 DEF CommandNow
  <2>3. (\E t \in Stops : drain[t] = "cancelled")'
    BY <1>5
  <2>4. Contract!RunOut
    BY <1>1, <1>3, <2>1, <2>2, <2>3 DEF Contract!RunOut
  <2> QED
    BY <2>4 DEF Contract!Next
<1>6. \/ pending = 0 /\ drain'[s] = "ok"
      \/ pending > 0 /\ drain'[s] = "cancelled"
  BY <1>0 DEF DrainEnds
<1> QED
  BY <1>4, <1>5, <1>6

\* The system and the handle are closed together, and after the commands.
LEMMA CloseContract ==
  ASSUME IInv, IInv', NEW s \in Stops, Close(s)
  PROVE  [Contract!Next]_Contract!vars
<1>0. Ownership /\ Construction /\ Drained /\ drain \in [Stops -> {"none", "ok", "cancelled"}]
      /\ before \subseteq Commands
  BY DEF IInv, TypeOK
<1>1. /\ pc[s] = "close" /\ sys' = "closed"
      /\ UNCHANGED <<es, closed, cmd, chain, effect, before, drain>>
  BY DEF Close, cmdVars
<1>2. closed /\ s = closer /\ es = "built" /\ sys = "open" /\ drain[s] # "none"
  BY <1>0, <1>1 DEF Ownership, Construction, IInv, TypeOK
<1>3. PhaseNow = "draining" /\ PhaseNow' = "closed"
  BY <1>1, <1>2 DEF PhaseNow
<1>4. aux' # "open"
  BY <1>1, <1>2 DEF IInv, Construction
<1>5. (\E t \in Stops : drain[t] = "cancelled") \/ \A c \in before : CommandNow(c) = "over"
  <2> SUFFICES ASSUME drain[s] = "ok", NEW c \in before PROVE CommandNow(c) = "over"
    BY <1>0, <1>2
  <2>1. cmd[c] = Done
    BY <1>0 DEF Drained, DrainedBeforeClose
  <2> QED
    BY <1>0, <2>1, ChainShape DEF CommandNow, Running
<1>6. Contract!Close
  <2>1. \A c \in Commands : CommandNow(c)' = CommandNow(c)
    BY <1>1, CommandsKept
  <2> QED
    BY <1>0, <1>1, <1>3, <1>4, <1>5, <2>1 DEF Contract!Close, Contract!At
<1> QED
  BY <1>6 DEF Contract!Next

\* Projections, queries, waiting and expiring calls are none of the contract's.
LEMMA UnseenContract ==
  ASSUME UNCHANGED <<es, sys, aux, closed, cmd, chain, effect, before, drain>>
  PROVE  [Contract!Next]_Contract!vars
BY PhaseKept, CommandsKept, ContractStutter

LEMMA ContractNext ==
  ASSUME IInv, IInv', [Next]_vars
  PROVE  [Contract!Next]_Contract!vars
<1>1. CASE Construct
  BY <1>1, ConstructContract
<1>2. CASE StartProjections \/ \E w \in Workers : WorkerFails(w) \/ Process(w) \/ ResetProjection(w)
  BY <1>2, UnseenContract DEF StartProjections, WorkerFails, Process, ResetProjection, buildVars, cmdVars, stopVars
<1>3. CASE \E q \in Queries : CheckQuery(q) \/ AnswerQuery(q)
  BY <1>3, UnseenContract DEF CheckQuery, AnswerQuery, buildVars, cmdVars, stopVars
<1>4. CASE \E c \in Commands : Enter(c) \/ Store(c) \/ Exit(c)
  BY <1>4, CommandContract
<1>5. CASE \E s \in Stops : StopStep(s)
  <2>1. ASSUME NEW s \in Stops, AlreadyClosed(s)
        PROVE  [Contract!Next]_Contract!vars
    BY <2>1, UnseenContract DEF AlreadyClosed, buildVars, cmdVars
  <2> QED
    BY <1>5, <2>1, ClaimContract, DrainEndsContract, CloseContract DEF StopStep
<1>6. CASE Cancel \/ \E s \in Stops : Wait(s) \/ Wake(s) \/ Expire(s)
  BY <1>6, UnseenContract DEF Cancel, Wait, Wake, Expire, buildVars, cmdVars
<1>7. CASE UNCHANGED vars
  BY <1>7, UnseenContract DEF vars, buildVars, cmdVars, stopVars
<1> QED
  BY <1>1, <1>2, <1>3, <1>4, <1>5, <1>6, <1>7 DEF Next

\* The event service implements its contract: it comes up whole or not at all,
\* stores what is appended until it is closed, and closes once, after the
\* commands its shutdown found running or after their time.
THEOREM ContractKept == Spec => ImplementsContract
<1>1. Init => Contract!Init
  BY ContractInit
<1>2. IInv /\ IInv' /\ [Next]_vars => [Contract!Next]_Contract!vars
  BY ContractNext
<1> QED
  BY <1>1, <1>2, InvariantHolds, PTL DEF Spec, ImplementsContract, Contract!Spec

=============================================================================
