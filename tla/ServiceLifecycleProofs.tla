------------------------ MODULE ServiceLifecycleProofs ------------------------
(***************************************************************************)
(* TLAPS proofs about ServiceLifecycle, for any number of Start, Run and   *)
(* Shutdown calls and of hooks, on a fixed or an ephemeral port.           *)
(*                                                                         *)
(* IInv is inductive: InitInv, one lemma per action, NextInv.  The lemmas  *)
(* have one step per conjunct of IInv; a conjunct whose variables the      *)
(* action leaves alone is preserved by its frame lemma.  As long as one    *)
(* listener is open at a time (OneListener: always on a fixed port, and on *)
(* ":0" unless Start is called while one is open) two more invariants      *)
(* hold: PortInv, who owns the port and is bound to close its listener,    *)
(* and OutcomeInv, what the channel of a Start and the result of a         *)
(* Shutdown tell.  From the three of them every step maps to a step of     *)
(* ServiceContract or to none (ContractNext).                              *)
(***************************************************************************)
EXTENDS ServiceLifecycle, TLAPS

\* Ownership speaks about these variables only.
LEMMA OwnershipFrame ==
  ASSUME Ownership, UNCHANGED <<current, pc, spc, taken>>
  PROVE  Ownership'
BY DEF Ownership

\* HookIndex speaks about these variables only.
LEMMA HookIndexFrame ==
  ASSUME HookIndex, UNCHANGED <<hook, spc, pc>>
  PROVE  HookIndex'
BY DEF HookIndex

\* StartHookCount speaks about these variables only.
LEMMA StartHookCountFrame ==
  ASSUME StartHookCount, UNCHANGED <<pc, ran, failed, hook>>
  PROVE  StartHookCount'
BY DEF StartHookCount, Launched

\* StopProgress speaks about these variables only.
LEMMA StopProgressFrame ==
  ASSUME StopProgress, UNCHANGED <<taken, spc, ran, hook, graceful, srv, ready>>
  PROVE  StopProgress'
BY DEF StopProgress, Untouched, Progress

\* ServerState speaks about these variables only.
LEMMA ServerStateFrame ==
  ASSUME ServerState, UNCHANGED <<srv, pc, inflight, current, taken>>
  PROVE  ServerState'
BY DEF ServerState, Launched

\* A hook invocation keeps the history and the loop index well-typed.
LEMMA RunHookType ==
  ASSUME TypeOK, NEW c \in Starts \cup Stops, NEW s \in Starts, NEW p \in Phases,
         RunHook(c, s, p)
  PROVE  /\ hook' \in [Starts \cup Stops -> Nat]
         /\ ran' \in [Starts -> [Phases -> Nat]]
         /\ hook' = [hook EXCEPT ![c] = hook[c] + 1]
         /\ hook[c] < NHooks
         /\ ran'[s][p] = ran[s][p] + 1
         /\ \A q \in Phases : q # p => ran'[s][q] = ran[s][q]
         /\ \A t \in Starts : t # s => ran'[t] = ran[t]
<1>1. hook' \in [Starts \cup Stops -> Nat]
  <2>1. hook \in [Starts \cup Stops -> Nat]
    BY DEF TypeOK
  <2>2. hook[c] + 1 \in Nat
    BY <2>1
  <2> QED
    BY <2>1, <2>2 DEF RunHook
<1>2. ran \in [Starts -> [Phases -> Nat]] /\ ran[s] \in [Phases -> Nat]
  BY DEF TypeOK
<1>3. ran' = [ran EXCEPT ![s] = [ran[s] EXCEPT ![p] = ran[s][p] + 1]]
  BY DEF RunHook
<1>4. [ran[s] EXCEPT ![p] = ran[s][p] + 1] \in [Phases -> Nat]
  BY <1>2
<1>5. ran' \in [Starts -> [Phases -> Nat]]
  BY <1>2, <1>3, <1>4
<1>6. /\ ran'[s][p] = ran[s][p] + 1
      /\ \A q \in Phases : q # p => ran'[s][q] = ran[s][q]
      /\ \A t \in Starts : t # s => ran'[t] = ran[t]
  BY <1>2, <1>3
<1> QED
  BY <1>1, <1>5, <1>6 DEF RunHook

LEMMA InitInv == Init => IInv
<1> SUFFICES ASSUME Init PROVE IInv
  OBVIOUS
<1>1. TypeOK
  <2>1. errCh \in [Starts -> Seq({"nil", "error"})]
    BY DEF Init
  <2>2. ran \in [Starts -> [Phases -> Nat]]
    BY DEF Init
  <2>3. /\ current \in Starts \cup {None} /\ ready \in BOOLEAN /\ signalled \in BOOLEAN
        /\ pc \in [Starts -> StartPC]
        /\ failed \in [Starts -> BOOLEAN]
        /\ lnOpen \in [Starts -> BOOLEAN]
        /\ srv \in [Starts -> SrvStates]
    BY DEF Init, StartPC, SrvStates
  <2>4. /\ inflight \in [Starts -> Nat]
        /\ raw \in [Starts -> BOOLEAN]
        /\ graceful \in [Starts -> Nat]
        /\ watch \in [Starts -> Starts \cup {None}]
        /\ watcher \in [Starts -> {"none", "peek", "select", "sent"}]
        /\ hook \in [Starts \cup Stops -> Nat]
    BY DEF Init
  <2>5. /\ spc \in [Closers -> StopPC]
        /\ taken \in [Closers -> Starts \cup {None}]
        /\ expired \in [Closers -> BOOLEAN]
        /\ result \in [Closers -> {"ok", "error"}]
    BY DEF Init, StopPC
  <2> QED
    BY <2>1, <2>2, <2>3, <2>4, <2>5 DEF TypeOK
<1>2. Ownership /\ HookIndex
  BY ConstantsAssumption DEF Init, Ownership, HookIndex, Closers
<1>3. StartHookCount /\ ServerState
  BY ConstantsAssumption DEF Init, StartHookCount, ServerState, Launched, Phases
<1>4. StopProgress
  BY ConstantsAssumption DEF Init, StopProgress, Untouched, Progress, Phases, Closers
<1> QED
  BY <1>1, <1>2, <1>3, <1>4 DEF IInv

LEMMA ListenInv ==
  ASSUME IInv, NEW s \in Starts, Listen(s)
  PROVE  IInv'
<1>0. TypeOK /\ Ownership /\ HookIndex /\ StartHookCount /\ StopProgress /\ ServerState
  BY DEF IInv
<1>1. TypeOK'
  <2>1. pc \in [Starts -> StartPC] /\ lnOpen \in [Starts -> BOOLEAN]
    BY <1>0 DEF TypeOK
  <2>2. pc' \in [Starts -> StartPC] /\ lnOpen' \in [Starts -> BOOLEAN]
    BY <2>1 DEF Listen, Goto, StartPC
  <2> QED
    BY <1>0, <2>2 DEF Listen, hookVars, chanVars, stopVars, TypeOK
<1>2. Ownership'
  BY <1>0, ConstantsAssumption DEF Listen, Goto, hookVars, chanVars, stopVars, TypeOK, Ownership, Closers
<1>3. HookIndex'
  BY <1>0, ConstantsAssumption DEF Listen, Goto, hookVars, chanVars, stopVars, TypeOK, HookIndex, Closers
<1>4. StartHookCount'
  <2>1. /\ pc[s] = "idle"
        /\ \E to \in {"bound", "failed"} : pc' = [pc EXCEPT ![s] = to]
        /\ UNCHANGED <<ran, failed, hook>>
    BY DEF Listen, Goto, hookVars
  <2> QED
    BY <1>0, <2>1 DEF StartHookCount, Launched, TypeOK
<1>5. StopProgress'
  BY <1>0, StopProgressFrame DEF Listen, Goto, hookVars, chanVars, stopVars
<1>6. ServerState'
  BY <1>0, ConstantsAssumption DEF Listen, Goto, hookVars, chanVars, stopVars, TypeOK, Ownership, ServerState, Launched, Closers
<1> QED
  BY <1>1, <1>2, <1>3, <1>4, <1>5, <1>6 DEF IInv

LEMMA PublishInv ==
  ASSUME IInv, NEW s \in Starts, Publish(s)
  PROVE  IInv'
<1>0. TypeOK /\ Ownership /\ HookIndex /\ StartHookCount /\ StopProgress /\ ServerState
  BY DEF IInv
<1>1. TypeOK'
  BY <1>0, ConstantsAssumption DEF Publish, Goto, hookVars, chanVars, stopVars, TypeOK, StartPC, StopPC, SrvStates, Ownership, Closers
<1>2. Ownership'
  BY <1>0, ConstantsAssumption DEF Publish, Goto, hookVars, chanVars, stopVars, TypeOK, Ownership, Closers
<1>3. HookIndex'
  BY <1>0, ConstantsAssumption DEF Publish, Goto, hookVars, chanVars, stopVars, TypeOK, HookIndex, Closers
<1>4. StartHookCount'
  BY <1>0, ConstantsAssumption DEF Publish, Goto, hookVars, chanVars, stopVars, TypeOK, HookIndex, StartHookCount, Launched, Phases, Closers
<1>5. StopProgress'
  <2>0. taken' = taken
    BY DEF Publish, stopVars
  <2>1. ASSUME NEW t \in Starts, \A d \in Closers : taken'[d] # t
        PROVE  Untouched(t)'
    <3>1. Untouched(t)
      BY <1>0, <2>0, <2>1 DEF StopProgress
    <3> QED
      BY <1>0, <2>0, <2>1, <3>1 DEF Publish, Goto, hookVars, chanVars, stopVars, TypeOK, Phases, HookIndex, Ownership, ServerState, Closers, Untouched
  <2>2. ASSUME NEW d \in Closers, NEW t \in Starts, taken'[d] = t
        PROVE  Progress(d, t)'
    <3>1. taken[d] = t /\ Progress(d, t)
      BY <1>0, <2>0, <2>2 DEF StopProgress
    <3> QED
      BY <1>0, <2>0, <3>1, ConstantsAssumption DEF Publish, Goto, hookVars, chanVars, stopVars, TypeOK, Phases, HookIndex, Ownership, ServerState, Closers, Progress
  <2> QED BY <2>1, <2>2 DEF StopProgress
<1>6. ServerState'
  BY <1>0, ConstantsAssumption DEF Publish, Goto, hookVars, chanVars, stopVars, TypeOK, Ownership, ServerState, Launched, Closers
<1> QED
  BY <1>1, <1>2, <1>3, <1>4, <1>5, <1>6 DEF IInv

LEMMA RejectInv ==
  ASSUME IInv, NEW s \in Starts, Reject(s)
  PROVE  IInv'
<1>0. TypeOK /\ Ownership /\ HookIndex /\ StartHookCount /\ StopProgress /\ ServerState
  BY DEF IInv
<1>1. TypeOK'
  BY <1>0, ConstantsAssumption DEF Reject, Goto, hookVars, chanVars, stopVars, TypeOK, StartPC, StopPC, SrvStates, Ownership, Closers
<1>2. Ownership'
  BY <1>0, ConstantsAssumption DEF Reject, Goto, hookVars, chanVars, stopVars, TypeOK, Ownership, Closers
<1>3. HookIndex'
  BY <1>0, ConstantsAssumption DEF Reject, Goto, hookVars, chanVars, stopVars, TypeOK, HookIndex, Closers
<1>4. StartHookCount'
  BY <1>0, ConstantsAssumption DEF Reject, Goto, hookVars, chanVars, stopVars, TypeOK, HookIndex, StartHookCount, Launched, Phases, Closers
<1>5. StopProgress'
  BY <1>0, StopProgressFrame DEF Reject, Goto, hookVars, chanVars, stopVars
<1>6. ServerState'
  BY <1>0, ConstantsAssumption DEF Reject, Goto, hookVars, chanVars, stopVars, TypeOK, Ownership, ServerState, Launched, Closers
<1> QED
  BY <1>1, <1>2, <1>3, <1>4, <1>5, <1>6 DEF IInv

LEMMA StartHookInv ==
  ASSUME IInv, NEW s \in Starts, StartHook(s)
  PROVE  IInv'
<1>0. TypeOK /\ Ownership /\ HookIndex /\ StartHookCount /\ StopProgress /\ ServerState
  BY DEF IInv
<1>h. RunHook(s, s, "start") /\ pc[s] = "hooks"
  BY DEF StartHook
<1>r. /\ hook' \in [Starts \cup Stops -> Nat]
      /\ ran' \in [Starts -> [Phases -> Nat]]
      /\ hook' = [hook EXCEPT ![s] = hook[s] + 1]
      /\ hook[s] < NHooks
      /\ ran'[s]["start"] = ran[s]["start"] + 1
      /\ \A q \in Phases : q # "start" => ran'[s][q] = ran[s][q]
      /\ \A t \in Starts : t # s => ran'[t] = ran[t]
  BY <1>0, <1>h, RunHookType DEF Phases
<1>1. TypeOK'
  BY <1>0, <1>h, <1>r DEF StartHook, serveVars, chanVars, stopVars, TypeOK
<1>2. Ownership'
  BY <1>0, OwnershipFrame DEF StartHook, RunHook, serveVars, chanVars, stopVars
<1>3. HookIndex'
  <2>1. hook'[s] <= NHooks /\ \A d \in Starts \cup Stops : d # s => hook'[d] = hook[d]
    BY <1>0, <1>r, ConstantsAssumption DEF TypeOK
  <2>2. UNCHANGED <<pc, spc>>
    BY DEF StartHook, stopVars
  <2>3. s \in Runs => spc[s] = "idle"
    BY <1>0, <1>h DEF HookIndex
  <2> QED
    BY <1>0, <1>h, <2>1, <2>2, <2>3, ConstantsAssumption DEF HookIndex, Closers
<1>4. StartHookCount'
  <2>1. UNCHANGED pc
    BY DEF StartHook
  <2>2. hook'[s] = hook[s] + 1 /\ \A t \in Starts : t # s => hook'[t] = hook[t]
    BY <1>0, <1>r DEF TypeOK
  <2>3. \A t \in Starts : t # s => failed'[t] = failed[t] /\ ran'[t]["start"] = ran[t]["start"]
    BY <1>0, <1>r DEF StartHook, TypeOK
  <2>4. ran'[s]["start"] = hook'[s] /\ ran'[s]["start"] <= NHooks
    BY <1>0, <1>h, <1>r, <2>2, ConstantsAssumption DEF StartHookCount, TypeOK
  <2> QED
    BY <1>0, <1>h, <2>1, <2>2, <2>3, <2>4 DEF StartHookCount, Launched
<1>5. StopProgress'
  <2>0. taken' = taken /\ UNCHANGED <<spc, graceful, ready>>
    BY DEF StartHook, stopVars, chanVars
  <2>p. pc[s] = "hooks"
    BY <1>h
  <2>r. \A t \in Starts : ran'[t]["drain"] = ran[t]["drain"] /\ ran'[t]["shutdown"] = ran[t]["shutdown"]
    BY <1>r DEF Phases
  <2>h. \A d \in Starts \cup Stops : d # s => hook'[d] = hook[d]
    BY <1>0, <1>r DEF TypeOK
  <2>s. srv' = srv
    BY DEF StartHook, serveVars
  <2>1. ASSUME NEW t \in Starts, \A d \in Closers : taken'[d] # t
        PROVE  Untouched(t)'
    BY <1>0, <2>0, <2>1, <2>r DEF StopProgress, Untouched
  <2>2. ASSUME NEW d \in Closers, NEW t \in Starts, taken'[d] = t
        PROVE  Progress(d, t)'
    <3>1. taken[d] = t /\ Progress(d, t) /\ spc[d] # "idle"
      BY <1>0, <2>0, <2>2, ConstantsAssumption DEF StopProgress, Ownership
    <3>2. d # s
      BY <1>0, <2>p, <3>1, ConstantsAssumption DEF HookIndex, Closers
    <3>3. hook'[d] = hook[d]
      BY <2>h, <3>2, ConstantsAssumption DEF Closers
    <3>4. srv[t] \in {"refused", "stopped", "broken"} => srv'[t] = srv[t]
      BY <1>0, <2>s DEF TypeOK
    <3> QED
      BY <2>0, <2>r, <3>1, <3>3, <3>4 DEF Progress
  <2> QED BY <2>1, <2>2 DEF StopProgress
<1>6. ServerState'
  BY <1>0, ServerStateFrame DEF StartHook, RunHook, serveVars, chanVars, stopVars
<1> QED
  BY <1>1, <1>2, <1>3, <1>4, <1>5, <1>6 DEF IInv

LEMMA AbortStartInv ==
  ASSUME IInv, NEW s \in Starts, AbortStart(s)
  PROVE  IInv'
<1>0. TypeOK /\ Ownership /\ HookIndex /\ StartHookCount /\ StopProgress /\ ServerState
  BY DEF IInv
<1>1. TypeOK'
  BY <1>0, ConstantsAssumption DEF AbortStart, Goto, HooksDone, serveVars, chanVars, stopVars, TypeOK, StartPC, StopPC, SrvStates, Ownership, Closers
<1>2. Ownership'
  BY <1>0, ConstantsAssumption DEF AbortStart, Goto, HooksDone, serveVars, chanVars, stopVars, TypeOK, Ownership, Closers
<1>3. HookIndex'
  BY <1>0, ConstantsAssumption DEF AbortStart, Goto, HooksDone, serveVars, chanVars, stopVars, TypeOK, HookIndex, Closers
<1>4. StartHookCount'
  BY <1>0, ConstantsAssumption DEF AbortStart, Goto, HooksDone, serveVars, chanVars, stopVars, TypeOK, HookIndex, StartHookCount, Launched, Phases, Closers
<1>5. StopProgress'
  <2>0. taken' = taken /\ UNCHANGED <<spc, graceful, ready>>
    BY DEF AbortStart, stopVars, chanVars
  <2>p. pc[s] = "hooks"
    BY DEF AbortStart, Goto
  <2>r. \A t \in Starts : ran'[t]["drain"] = ran[t]["drain"] /\ ran'[t]["shutdown"] = ran[t]["shutdown"]
    BY DEF AbortStart, HooksDone
  <2>h. \A d \in Starts \cup Stops : d # s => hook'[d] = hook[d]
    BY <1>0 DEF AbortStart, HooksDone, TypeOK
  <2>s. srv' = srv
    BY DEF AbortStart, serveVars
  <2>1. ASSUME NEW t \in Starts, \A d \in Closers : taken'[d] # t
        PROVE  Untouched(t)'
    BY <1>0, <2>0, <2>1, <2>r DEF StopProgress, Untouched
  <2>2. ASSUME NEW d \in Closers, NEW t \in Starts, taken'[d] = t
        PROVE  Progress(d, t)'
    <3>1. taken[d] = t /\ Progress(d, t) /\ spc[d] # "idle"
      BY <1>0, <2>0, <2>2, ConstantsAssumption DEF StopProgress, Ownership
    <3>2. d # s
      BY <1>0, <2>p, <3>1, ConstantsAssumption DEF HookIndex, Closers
    <3>3. hook'[d] = hook[d]
      BY <2>h, <3>2, ConstantsAssumption DEF Closers
    <3>4. srv[t] \in {"refused", "stopped", "broken"} => srv'[t] = srv[t]
      BY <1>0, <2>s DEF TypeOK
    <3> QED
      BY <2>0, <2>r, <3>1, <3>3, <3>4 DEF Progress
  <2> QED BY <2>1, <2>2 DEF StopProgress
<1>6. ServerState'
  BY <1>0, ConstantsAssumption DEF AbortStart, Goto, HooksDone, serveVars, chanVars, stopVars, TypeOK, Ownership, ServerState, Launched, Closers
<1> QED
  BY <1>1, <1>2, <1>3, <1>4, <1>5, <1>6 DEF IInv

LEMMA AbortCloseInv ==
  ASSUME IInv, NEW s \in Starts, AbortClose(s)
  PROVE  IInv'
<1>0. TypeOK /\ Ownership /\ HookIndex /\ StartHookCount /\ StopProgress /\ ServerState
  BY DEF IInv
<1>1. TypeOK'
  BY <1>0, ConstantsAssumption DEF AbortClose, Goto, hookVars, chanVars, stopVars, TypeOK, StartPC, StopPC, SrvStates, Ownership, Closers
<1>2. Ownership'
  BY <1>0, ConstantsAssumption DEF AbortClose, Goto, hookVars, chanVars, stopVars, TypeOK, Ownership, Closers
<1>3. HookIndex'
  BY <1>0, ConstantsAssumption DEF AbortClose, Goto, hookVars, chanVars, stopVars, TypeOK, HookIndex, Closers
<1>4. StartHookCount'
  BY <1>0, ConstantsAssumption DEF AbortClose, Goto, hookVars, chanVars, stopVars, TypeOK, HookIndex, StartHookCount, Launched, Phases, Closers
<1>5. StopProgress'
  BY <1>0, StopProgressFrame DEF AbortClose, Goto, hookVars, chanVars, stopVars
<1>6. ServerState'
  BY <1>0, ConstantsAssumption DEF AbortClose, Goto, hookVars, chanVars, stopVars, TypeOK, Ownership, ServerState, Launched, Closers
<1> QED
  BY <1>1, <1>2, <1>3, <1>4, <1>5, <1>6 DEF IInv

LEMMA LaunchInv ==
  ASSUME IInv, NEW s \in Starts, Launch(s)
  PROVE  IInv'
<1>0. TypeOK /\ Ownership /\ HookIndex /\ StartHookCount /\ StopProgress /\ ServerState
  BY DEF IInv
<1>1. TypeOK'
  BY <1>0, ConstantsAssumption DEF Launch, Goto, HooksDone, chanVars, stopVars, TypeOK, StartPC, StopPC, SrvStates, Ownership, Closers
<1>2. Ownership'
  BY <1>0, ConstantsAssumption DEF Launch, Goto, HooksDone, chanVars, stopVars, TypeOK, Ownership, Closers
<1>3. HookIndex'
  BY <1>0, ConstantsAssumption DEF Launch, Goto, HooksDone, chanVars, stopVars, TypeOK, HookIndex, Closers
<1>4. StartHookCount'
  <2>1. /\ pc[s] = "hooks" /\ hook[s] = NHooks /\ failed[s] = FALSE
        /\ pc' = [pc EXCEPT ![s] = "launch"]
        /\ hook' = [hook EXCEPT ![s] = 0]
        /\ UNCHANGED <<ran, failed>>
    BY <1>0 DEF Launch, Goto, HooksDone, TypeOK
  <2>2. ran[s]["start"] = NHooks
    BY <1>0, <2>1 DEF StartHookCount
  <2>3. \A t \in Starts : t # s => pc'[t] = pc[t] /\ hook'[t] = hook[t]
    BY <1>0, <2>1 DEF TypeOK
  <2>4. pc'[s] = "launch"
    BY <1>0, <2>1 DEF TypeOK
  <2> QED
    BY <1>0, <2>1, <2>2, <2>3, <2>4, ConstantsAssumption DEF StartHookCount, Launched
<1>5. StopProgress'
  <2>0. taken' = taken /\ UNCHANGED <<spc, graceful, ready>>
    BY DEF Launch, stopVars, chanVars
  <2>p. pc[s] = "hooks"
    BY DEF Launch, Goto
  <2>r. \A t \in Starts : ran'[t]["drain"] = ran[t]["drain"] /\ ran'[t]["shutdown"] = ran[t]["shutdown"]
    BY DEF Launch, HooksDone
  <2>h. \A d \in Starts \cup Stops : d # s => hook'[d] = hook[d]
    BY <1>0 DEF Launch, HooksDone, TypeOK
  <2>s. srv' = [srv EXCEPT ![s] = IF srv[s] = "built" THEN "launched" ELSE srv[s]]
    BY DEF Launch
  <2>1. ASSUME NEW t \in Starts, \A d \in Closers : taken'[d] # t
        PROVE  Untouched(t)'
    BY <1>0, <2>0, <2>1, <2>r DEF StopProgress, Untouched
  <2>2. ASSUME NEW d \in Closers, NEW t \in Starts, taken'[d] = t
        PROVE  Progress(d, t)'
    <3>1. taken[d] = t /\ Progress(d, t) /\ spc[d] # "idle"
      BY <1>0, <2>0, <2>2, ConstantsAssumption DEF StopProgress, Ownership
    <3>2. d # s
      BY <1>0, <2>p, <3>1, ConstantsAssumption DEF HookIndex, Closers
    <3>3. hook'[d] = hook[d]
      BY <2>h, <3>2, ConstantsAssumption DEF Closers
    <3>4. srv[t] \in {"refused", "stopped", "broken"} => srv'[t] = srv[t]
      BY <1>0, <2>s DEF TypeOK
    <3> QED
      BY <2>0, <2>r, <3>1, <3>3, <3>4 DEF Progress
  <2> QED BY <2>1, <2>2 DEF StopProgress
<1>6. ServerState'
  BY <1>0, ConstantsAssumption DEF Launch, Goto, HooksDone, chanVars, stopVars, TypeOK, Ownership, ServerState, Launched, Closers
<1> QED
  BY <1>1, <1>2, <1>3, <1>4, <1>5, <1>6 DEF IInv

LEMMA ReadGracefulInv ==
  ASSUME IInv, NEW s \in Starts, ReadGraceful(s)
  PROVE  IInv'
<1>0. TypeOK /\ Ownership /\ HookIndex /\ StartHookCount /\ StopProgress /\ ServerState
  BY DEF IInv
<1>1. TypeOK'
  <2>1. watch' \in [Starts -> Starts \cup {None}]
    BY <1>0 DEF ReadGraceful, TypeOK
  <2>2. pc' \in [Starts -> StartPC]
    <3>1. \E to \in {"panicked", "runwait", "started"} : pc' = [pc EXCEPT ![s] = to]
      BY DEF ReadGraceful, Goto
    <3> QED
      BY <1>0, <3>1 DEF TypeOK, StartPC
  <2>3. watcher' \in [Starts -> {"none", "peek", "select", "sent"}]
    BY <1>0 DEF ReadGraceful, TypeOK
  <2> QED
    BY <1>0, <2>1, <2>2, <2>3 DEF ReadGraceful, serveVars, hookVars, stopVars, TypeOK
<1>2. Ownership'
  BY <1>0, ConstantsAssumption DEF ReadGraceful, Goto, hookVars, serveVars, stopVars, TypeOK, Ownership, Closers
<1>3. HookIndex'
  BY <1>0, ConstantsAssumption DEF ReadGraceful, Goto, hookVars, serveVars, stopVars, TypeOK, HookIndex, Closers
<1>4. StartHookCount'
  <2>1. /\ pc[s] = "launch"
        /\ \E to \in {"panicked", "runwait", "started"} : pc' = [pc EXCEPT ![s] = to]
        /\ UNCHANGED <<ran, failed, hook>>
    BY DEF ReadGraceful, Goto, hookVars
  <2> QED
    BY <1>0, <2>1 DEF StartHookCount, Launched, TypeOK
<1>5. StopProgress'
  BY <1>0, StopProgressFrame DEF ReadGraceful, Goto, hookVars, serveVars, stopVars
<1>6. ServerState'
  BY <1>0, ConstantsAssumption DEF ReadGraceful, Goto, hookVars, serveVars, stopVars, TypeOK, Ownership, ServerState, Launched, Closers
<1> QED
  BY <1>1, <1>2, <1>3, <1>4, <1>5, <1>6 DEF IInv

LEMMA WatcherPeekInv ==
  ASSUME IInv, NEW s \in Starts, WatcherPeek(s)
  PROVE  IInv'
<1>0. TypeOK /\ Ownership /\ HookIndex /\ StartHookCount /\ StopProgress /\ ServerState
  BY DEF IInv
<1>1. TypeOK'
  <2>1. errCh \in [Starts -> Seq({"nil", "error"})]
    BY <1>0 DEF TypeOK
  <2>2. errCh' = errCh \/ \E v \in {"nil", "error"} : errCh' = [errCh EXCEPT ![s] = Append(errCh[s], v)]
    BY DEF WatcherPeek, Send
  <2>3. \A v \in {"nil", "error"} : Append(errCh[s], v) \in Seq({"nil", "error"})
    BY <2>1
  <2>4. errCh' \in [Starts -> Seq({"nil", "error"})]
    BY <2>1, <2>2, <2>3
  <2> QED
    BY <1>0, <2>4 DEF WatcherPeek, Send, startVars, hookVars, stopVars, TypeOK
<1>2. Ownership'
  BY <1>0, OwnershipFrame DEF WatcherPeek, Send, startVars, hookVars, stopVars
<1>3. HookIndex'
  BY <1>0, HookIndexFrame DEF WatcherPeek, Send, startVars, hookVars, stopVars
<1>4. StartHookCount'
  BY <1>0, StartHookCountFrame DEF WatcherPeek, Send, startVars, hookVars, stopVars
<1>5. StopProgress'
  BY <1>0, StopProgressFrame DEF WatcherPeek, Send, startVars, hookVars, stopVars
<1>6. ServerState'
  BY <1>0, ServerStateFrame DEF WatcherPeek, Send, startVars, hookVars, stopVars
<1> QED
  BY <1>1, <1>2, <1>3, <1>4, <1>5, <1>6 DEF IInv

LEMMA WatcherSelectInv ==
  ASSUME IInv, NEW s \in Starts, WatcherSelect(s)
  PROVE  IInv'
<1>0. TypeOK /\ Ownership /\ HookIndex /\ StartHookCount /\ StopProgress /\ ServerState
  BY DEF IInv
<1>1. TypeOK'
  <2>1. errCh \in [Starts -> Seq({"nil", "error"})]
    BY <1>0 DEF TypeOK
  <2>2. errCh' = errCh \/ \E v \in {"nil", "error"} : errCh' = [errCh EXCEPT ![s] = Append(errCh[s], v)]
    BY DEF WatcherSelect, Send
  <2>3. \A v \in {"nil", "error"} : Append(errCh[s], v) \in Seq({"nil", "error"})
    BY <2>1
  <2>4. errCh' \in [Starts -> Seq({"nil", "error"})]
    BY <2>1, <2>2, <2>3
  <2> QED
    BY <1>0, <2>4 DEF WatcherSelect, Send, startVars, hookVars, stopVars, TypeOK
<1>2. Ownership'
  BY <1>0, OwnershipFrame DEF WatcherSelect, Send, startVars, hookVars, stopVars
<1>3. HookIndex'
  BY <1>0, HookIndexFrame DEF WatcherSelect, Send, startVars, hookVars, stopVars
<1>4. StartHookCount'
  BY <1>0, StartHookCountFrame DEF WatcherSelect, Send, startVars, hookVars, stopVars
<1>5. StopProgress'
  BY <1>0, StopProgressFrame DEF WatcherSelect, Send, startVars, hookVars, stopVars
<1>6. ServerState'
  BY <1>0, ServerStateFrame DEF WatcherSelect, Send, startVars, hookVars, stopVars
<1> QED
  BY <1>1, <1>2, <1>3, <1>4, <1>5, <1>6 DEF IInv

LEMMA ServeBeginInv ==
  ASSUME IInv, NEW s \in Starts, ServeBegin(s)
  PROVE  IInv'
<1>0. TypeOK /\ Ownership /\ HookIndex /\ StartHookCount /\ StopProgress /\ ServerState
  BY DEF IInv
<1>1. TypeOK'
  BY <1>0, ConstantsAssumption DEF ServeBegin, startVars, hookVars, chanVars, stopVars, TypeOK, StartPC, StopPC, SrvStates, Ownership, Closers
<1>2. Ownership'
  BY <1>0, OwnershipFrame DEF ServeBegin, startVars, hookVars, chanVars, stopVars
<1>3. HookIndex'
  BY <1>0, HookIndexFrame DEF ServeBegin, startVars, hookVars, chanVars, stopVars
<1>4. StartHookCount'
  BY <1>0, StartHookCountFrame DEF ServeBegin, startVars, hookVars, chanVars, stopVars
<1>5. StopProgress'
  <2>0. taken' = taken
    BY DEF ServeBegin, stopVars
  <2>1. ASSUME NEW t \in Starts, \A d \in Closers : taken'[d] # t
        PROVE  Untouched(t)'
    <3>1. Untouched(t)
      BY <1>0, <2>0, <2>1 DEF StopProgress
    <3> QED
      BY <1>0, <2>0, <2>1, <3>1 DEF ServeBegin, startVars, hookVars, chanVars, stopVars, TypeOK, Phases, HookIndex, Ownership, ServerState, Closers, Untouched
  <2>2. ASSUME NEW d \in Closers, NEW t \in Starts, taken'[d] = t
        PROVE  Progress(d, t)'
    <3>1. taken[d] = t /\ Progress(d, t)
      BY <1>0, <2>0, <2>2 DEF StopProgress
    <3> QED
      BY <1>0, <2>0, <3>1, ConstantsAssumption DEF ServeBegin, startVars, hookVars, chanVars, stopVars, TypeOK, Phases, HookIndex, Ownership, ServerState, Closers, Progress
  <2> QED BY <2>1, <2>2 DEF StopProgress
<1>6. ServerState'
  BY <1>0, ConstantsAssumption DEF ServeBegin, startVars, hookVars, chanVars, stopVars, TypeOK, Ownership, ServerState, Launched, Closers
<1> QED
  BY <1>1, <1>2, <1>3, <1>4, <1>5, <1>6 DEF IInv

LEMMA ServeRefusedInv ==
  ASSUME IInv, NEW s \in Starts, ServeRefused(s)
  PROVE  IInv'
<1>0. TypeOK /\ Ownership /\ HookIndex /\ StartHookCount /\ StopProgress /\ ServerState
  BY DEF IInv
<1>1. TypeOK'
  BY <1>0, ConstantsAssumption DEF ServeRefused, startVars, hookVars, chanVars, stopVars, TypeOK, StartPC, StopPC, SrvStates, Ownership, Closers
<1>2. Ownership'
  BY <1>0, OwnershipFrame DEF ServeRefused, startVars, hookVars, chanVars, stopVars
<1>3. HookIndex'
  BY <1>0, HookIndexFrame DEF ServeRefused, startVars, hookVars, chanVars, stopVars
<1>4. StartHookCount'
  BY <1>0, StartHookCountFrame DEF ServeRefused, startVars, hookVars, chanVars, stopVars
<1>5. StopProgress'
  <2>0. taken' = taken
    BY DEF ServeRefused, stopVars
  <2>1. ASSUME NEW t \in Starts, \A d \in Closers : taken'[d] # t
        PROVE  Untouched(t)'
    <3>1. Untouched(t)
      BY <1>0, <2>0, <2>1 DEF StopProgress
    <3> QED
      BY <1>0, <2>0, <2>1, <3>1 DEF ServeRefused, startVars, hookVars, chanVars, stopVars, TypeOK, Phases, HookIndex, Ownership, ServerState, Closers, Untouched
  <2>2. ASSUME NEW d \in Closers, NEW t \in Starts, taken'[d] = t
        PROVE  Progress(d, t)'
    <3>1. taken[d] = t /\ Progress(d, t)
      BY <1>0, <2>0, <2>2 DEF StopProgress
    <3> QED
      BY <1>0, <2>0, <3>1, ConstantsAssumption DEF ServeRefused, startVars, hookVars, chanVars, stopVars, TypeOK, Phases, HookIndex, Ownership, ServerState, Closers, Progress
  <2> QED BY <2>1, <2>2 DEF StopProgress
<1>6. ServerState'
  <2>1. Launched(s)
    BY <1>0 DEF ServeRefused, ServerState, Launched, TypeOK, StartPC
  <2> QED
    BY <1>0, <2>1 DEF ServeRefused, startVars, stopVars, ServerState, Launched, TypeOK
<1> QED
  BY <1>1, <1>2, <1>3, <1>4, <1>5, <1>6 DEF IInv

LEMMA ServeFailInv ==
  ASSUME IInv, NEW s \in Starts, ServeFail(s)
  PROVE  IInv'
<1>0. TypeOK /\ Ownership /\ HookIndex /\ StartHookCount /\ StopProgress /\ ServerState
  BY DEF IInv
<1>1. TypeOK'
  BY <1>0, ConstantsAssumption DEF ServeFail, startVars, hookVars, chanVars, stopVars, TypeOK, StartPC, StopPC, SrvStates, Ownership, Closers
<1>2. Ownership'
  BY <1>0, OwnershipFrame DEF ServeFail, startVars, hookVars, chanVars, stopVars
<1>3. HookIndex'
  BY <1>0, HookIndexFrame DEF ServeFail, startVars, hookVars, chanVars, stopVars
<1>4. StartHookCount'
  BY <1>0, StartHookCountFrame DEF ServeFail, startVars, hookVars, chanVars, stopVars
<1>5. StopProgress'
  <2>0. taken' = taken
    BY DEF ServeFail, stopVars
  <2>1. ASSUME NEW t \in Starts, \A d \in Closers : taken'[d] # t
        PROVE  Untouched(t)'
    <3>1. Untouched(t)
      BY <1>0, <2>0, <2>1 DEF StopProgress
    <3> QED
      BY <1>0, <2>0, <2>1, <3>1 DEF ServeFail, startVars, hookVars, chanVars, stopVars, TypeOK, Phases, HookIndex, Ownership, ServerState, Closers, Untouched
  <2>2. ASSUME NEW d \in Closers, NEW t \in Starts, taken'[d] = t
        PROVE  Progress(d, t)'
    <3>1. taken[d] = t /\ Progress(d, t)
      BY <1>0, <2>0, <2>2 DEF StopProgress
    <3> QED
      BY <1>0, <2>0, <3>1, ConstantsAssumption DEF ServeFail, startVars, hookVars, chanVars, stopVars, TypeOK, Phases, HookIndex, Ownership, ServerState, Closers, Progress
  <2> QED BY <2>1, <2>2 DEF StopProgress
<1>6. ServerState'
  BY <1>0, ConstantsAssumption DEF ServeFail, startVars, hookVars, chanVars, stopVars, TypeOK, Ownership, ServerState, Launched, Closers
<1> QED
  BY <1>1, <1>2, <1>3, <1>4, <1>5, <1>6 DEF IInv

LEMMA RequestBeginInv ==
  ASSUME IInv, NEW s \in Starts, RequestBegin(s)
  PROVE  IInv'
<1>0. TypeOK /\ Ownership /\ HookIndex /\ StartHookCount /\ StopProgress /\ ServerState
  BY DEF IInv
<1>1. TypeOK'
  <2>1. inflight' \in [Starts -> Nat]
    BY <1>0 DEF RequestBegin, TypeOK
  <2> QED
    BY <1>0, <2>1 DEF RequestBegin, startVars, hookVars, chanVars, stopVars, TypeOK
<1>2. Ownership'
  BY <1>0, OwnershipFrame DEF RequestBegin, startVars, hookVars, chanVars, stopVars
<1>3. HookIndex'
  BY <1>0, HookIndexFrame DEF RequestBegin, startVars, hookVars, chanVars, stopVars
<1>4. StartHookCount'
  BY <1>0, StartHookCountFrame DEF RequestBegin, startVars, hookVars, chanVars, stopVars
<1>5. StopProgress'
  BY <1>0, StopProgressFrame DEF RequestBegin, startVars, hookVars, chanVars, stopVars
<1>6. ServerState'
  BY <1>0, ConstantsAssumption DEF RequestBegin, startVars, hookVars, chanVars, stopVars, TypeOK, Ownership, ServerState, Launched, Closers
<1> QED
  BY <1>1, <1>2, <1>3, <1>4, <1>5, <1>6 DEF IInv

LEMMA RequestEndInv ==
  ASSUME IInv, NEW s \in Starts, RequestEnd(s)
  PROVE  IInv'
<1>0. TypeOK /\ Ownership /\ HookIndex /\ StartHookCount /\ StopProgress /\ ServerState
  BY DEF IInv
<1>1. TypeOK'
  <2>1. inflight' \in [Starts -> Nat]
    BY <1>0 DEF RequestEnd, TypeOK
  <2> QED
    BY <1>0, <2>1 DEF RequestEnd, startVars, hookVars, chanVars, stopVars, TypeOK
<1>2. Ownership'
  BY <1>0, OwnershipFrame DEF RequestEnd, startVars, hookVars, chanVars, stopVars
<1>3. HookIndex'
  BY <1>0, HookIndexFrame DEF RequestEnd, startVars, hookVars, chanVars, stopVars
<1>4. StartHookCount'
  BY <1>0, StartHookCountFrame DEF RequestEnd, startVars, hookVars, chanVars, stopVars
<1>5. StopProgress'
  BY <1>0, StopProgressFrame DEF RequestEnd, startVars, hookVars, chanVars, stopVars
<1>6. ServerState'
  BY <1>0, ConstantsAssumption DEF RequestEnd, startVars, hookVars, chanVars, stopVars, TypeOK, Ownership, ServerState, Launched, Closers
<1> QED
  BY <1>1, <1>2, <1>3, <1>4, <1>5, <1>6 DEF IInv

LEMMA RunServeOutcomeInv ==
  ASSUME IInv, NEW s \in Runs, RunServeOutcome(s)
  PROVE  IInv'
<1>0. TypeOK /\ Ownership /\ HookIndex /\ StartHookCount /\ StopProgress /\ ServerState
  BY DEF IInv
<1>1. TypeOK'
  BY <1>0, ConstantsAssumption DEF RunServeOutcome, Goto, hookVars, serveVars, chanVars, stopVars, TypeOK, StartPC, StopPC, SrvStates, Ownership, Closers
<1>2. Ownership'
  BY <1>0, ConstantsAssumption DEF RunServeOutcome, Goto, hookVars, serveVars, chanVars, stopVars, TypeOK, Ownership, Closers
<1>3. HookIndex'
  BY <1>0, ConstantsAssumption DEF RunServeOutcome, Goto, hookVars, serveVars, chanVars, stopVars, TypeOK, HookIndex, Closers
<1>4. StartHookCount'
  BY <1>0, ConstantsAssumption DEF RunServeOutcome, Goto, hookVars, serveVars, chanVars, stopVars, TypeOK, HookIndex, StartHookCount, Launched, Phases, Closers
<1>5. StopProgress'
  BY <1>0, StopProgressFrame DEF RunServeOutcome, Goto, hookVars, serveVars, chanVars, stopVars
<1>6. ServerState'
  BY <1>0, ConstantsAssumption DEF RunServeOutcome, Goto, hookVars, serveVars, chanVars, stopVars, TypeOK, Ownership, ServerState, Launched, Closers
<1> QED
  BY <1>1, <1>2, <1>3, <1>4, <1>5, <1>6 DEF IInv

LEMMA RunSignalledInv ==
  ASSUME IInv, NEW s \in Runs, RunSignalled(s)
  PROVE  IInv'
<1>0. TypeOK /\ Ownership /\ HookIndex /\ StartHookCount /\ StopProgress /\ ServerState
  BY DEF IInv
<1>1. TypeOK'
  BY <1>0, ConstantsAssumption DEF RunSignalled, Goto, hookVars, serveVars, chanVars, stopVars, TypeOK, StartPC, StopPC, SrvStates, Ownership, Closers
<1>2. Ownership'
  BY <1>0, ConstantsAssumption DEF RunSignalled, Goto, hookVars, serveVars, chanVars, stopVars, TypeOK, Ownership, Closers
<1>3. HookIndex'
  BY <1>0, ConstantsAssumption DEF RunSignalled, Goto, hookVars, serveVars, chanVars, stopVars, TypeOK, HookIndex, Closers
<1>4. StartHookCount'
  BY <1>0, ConstantsAssumption DEF RunSignalled, Goto, hookVars, serveVars, chanVars, stopVars, TypeOK, HookIndex, StartHookCount, Launched, Phases, Closers
<1>5. StopProgress'
  BY <1>0, StopProgressFrame DEF RunSignalled, Goto, hookVars, serveVars, chanVars, stopVars
<1>6. ServerState'
  BY <1>0, ConstantsAssumption DEF RunSignalled, Goto, hookVars, serveVars, chanVars, stopVars, TypeOK, Ownership, ServerState, Launched, Closers
<1> QED
  BY <1>1, <1>2, <1>3, <1>4, <1>5, <1>6 DEF IInv

LEMMA RunReturnInv ==
  ASSUME IInv, NEW s \in Runs, RunReturn(s)
  PROVE  IInv'
<1>0. TypeOK /\ Ownership /\ HookIndex /\ StartHookCount /\ StopProgress /\ ServerState
  BY DEF IInv
<1>1. TypeOK'
  BY <1>0, ConstantsAssumption DEF RunReturn, Goto, hookVars, serveVars, chanVars, stopVars, TypeOK, StartPC, StopPC, SrvStates, Ownership, Closers
<1>2. Ownership'
  BY <1>0, ConstantsAssumption DEF RunReturn, Goto, hookVars, serveVars, chanVars, stopVars, TypeOK, Ownership, Closers
<1>3. HookIndex'
  BY <1>0, ConstantsAssumption DEF RunReturn, Goto, hookVars, serveVars, chanVars, stopVars, TypeOK, HookIndex, Closers
<1>4. StartHookCount'
  BY <1>0, ConstantsAssumption DEF RunReturn, Goto, hookVars, serveVars, chanVars, stopVars, TypeOK, HookIndex, StartHookCount, Launched, Phases, Closers
<1>5. StopProgress'
  BY <1>0, StopProgressFrame DEF RunReturn, Goto, hookVars, serveVars, chanVars, stopVars
<1>6. ServerState'
  BY <1>0, ConstantsAssumption DEF RunReturn, Goto, hookVars, serveVars, chanVars, stopVars, TypeOK, Ownership, ServerState, Launched, Closers
<1> QED
  BY <1>1, <1>2, <1>3, <1>4, <1>5, <1>6 DEF IInv

LEMMA TakeInv ==
  ASSUME IInv, NEW c \in Closers, Take(c)
  PROVE  IInv'
<1>0. TypeOK /\ Ownership /\ HookIndex /\ StartHookCount /\ StopProgress /\ ServerState
  BY DEF IInv
<1>1. TypeOK'
  BY <1>0, ConstantsAssumption DEF Take, StopGoto, startVars, hookVars, serveVars, chanVars, TypeOK, StartPC, StopPC, SrvStates, Ownership, Closers
<1>2. Ownership'
  BY <1>0, ConstantsAssumption DEF Take, StopGoto, startVars, hookVars, serveVars, chanVars, TypeOK, Ownership, Closers
<1>3. HookIndex'
  BY <1>0, ConstantsAssumption DEF Take, StopGoto, startVars, hookVars, serveVars, chanVars, TypeOK, HookIndex, Closers
<1>4. StartHookCount'
  BY <1>0, StartHookCountFrame DEF Take, StopGoto, startVars, hookVars, serveVars, chanVars
<1>5. StopProgress'
  <2>1. ASSUME NEW t \in Starts, \A d \in Closers : taken'[d] # t
        PROVE  Untouched(t)'
    <3>1. \A d \in Closers : taken[d] # t
      BY <1>0, <2>1, ConstantsAssumption DEF Take, StopGoto, TypeOK, Ownership
    <3> QED
      BY <1>0, <3>1 DEF Take, chanVars, hookVars, StopProgress, Untouched
  <2>2. ASSUME NEW d \in Closers, NEW t \in Starts, taken'[d] = t
        PROVE  Progress(d, t)'
    <3>1. CASE d = c
      <4>1. current = t /\ spc'[c] = "flip" /\ \A e \in Closers : taken[e] # t
        BY <1>0, <2>2, <3>1, ConstantsAssumption DEF Take, StopGoto, TypeOK, Ownership
      <4>2. Untouched(t)
        BY <1>0, <4>1 DEF StopProgress
      <4> QED
        BY <3>1, <4>1, <4>2 DEF Take, chanVars, hookVars, Progress, Untouched
    <3>2. CASE d # c
      <4>1. Progress(d, t)
        BY <1>0, <2>2, <3>2 DEF Take, TypeOK, StopProgress
      <4>2. spc'[d] = spc[d]
        BY <1>0, <3>2 DEF Take, StopGoto, TypeOK
      <4> QED
        BY <4>1, <4>2 DEF Take, serveVars, chanVars, hookVars, Progress
    <3> QED BY <3>1, <3>2
  <2> QED BY <2>1, <2>2 DEF StopProgress
<1>6. ServerState'
  BY <1>0, ConstantsAssumption DEF Take, StopGoto, startVars, hookVars, serveVars, chanVars, TypeOK, Ownership, ServerState, Launched, Closers
<1> QED
  BY <1>1, <1>2, <1>3, <1>4, <1>5, <1>6 DEF IInv

LEMMA ReadyFlipInv ==
  ASSUME IInv, NEW c \in Closers, ReadyFlip(c)
  PROVE  IInv'
<1>0. TypeOK /\ Ownership /\ HookIndex /\ StartHookCount /\ StopProgress /\ ServerState
  BY DEF IInv
<1>1. TypeOK'
  BY <1>0, ConstantsAssumption DEF ReadyFlip, StopGoto, startVars, hookVars, serveVars, chanVars, TypeOK, StartPC, StopPC, SrvStates, Ownership, Closers
<1>2. Ownership'
  BY <1>0, ConstantsAssumption DEF ReadyFlip, StopGoto, startVars, hookVars, serveVars, chanVars, TypeOK, Ownership, Closers
<1>3. HookIndex'
  BY <1>0, ConstantsAssumption DEF ReadyFlip, StopGoto, startVars, hookVars, serveVars, chanVars, TypeOK, HookIndex, Closers
<1>4. StartHookCount'
  BY <1>0, StartHookCountFrame DEF ReadyFlip, StopGoto, startVars, hookVars, serveVars, chanVars
<1>5. StopProgress'
  <2>0. taken' = taken
    BY DEF ReadyFlip
  <2>1. ASSUME NEW t \in Starts, \A d \in Closers : taken'[d] # t
        PROVE  Untouched(t)'
    <3>1. Untouched(t)
      BY <1>0, <2>0, <2>1 DEF StopProgress
    <3> QED
      BY <1>0, <2>0, <2>1, <3>1 DEF ReadyFlip, StopGoto, startVars, hookVars, serveVars, chanVars, TypeOK, Phases, HookIndex, Ownership, ServerState, Closers, Untouched
  <2>2. ASSUME NEW d \in Closers, NEW t \in Starts, taken'[d] = t
        PROVE  Progress(d, t)'
    <3>1. taken[d] = t /\ Progress(d, t)
      BY <1>0, <2>0, <2>2 DEF StopProgress
    <3>2. CASE d = c
      BY <1>0, <2>0, <3>1, <3>2, ConstantsAssumption DEF ReadyFlip, StopGoto, startVars, hookVars, serveVars, chanVars, TypeOK, Phases, HookIndex, Ownership, ServerState, Closers, Progress
    <3>3. CASE d # c
      <4>1. taken[c] # t
        BY <1>0, <3>1, <3>3, ConstantsAssumption DEF Ownership
      <4> QED
        BY <1>0, <2>0, <3>1, <3>3, <4>1 DEF ReadyFlip, StopGoto, startVars, hookVars, serveVars, chanVars, TypeOK, Phases, HookIndex, Ownership, ServerState, Closers, Progress
    <3> QED BY <3>2, <3>3
  <2> QED BY <2>1, <2>2 DEF StopProgress
<1>6. ServerState'
  BY <1>0, ServerStateFrame DEF ReadyFlip, StopGoto, startVars, hookVars, serveVars, chanVars
<1> QED
  BY <1>1, <1>2, <1>3, <1>4, <1>5, <1>6 DEF IInv

LEMMA DrainHookInv ==
  ASSUME IInv, NEW c \in Closers, DrainHook(c)
  PROVE  IInv'
<1>0. TypeOK /\ Ownership /\ HookIndex /\ StartHookCount /\ StopProgress /\ ServerState
  BY DEF IInv
<1>t. taken[c] \in Starts /\ c \in Starts \cup Stops
  <2>1. taken[c] # None /\ taken[c] \in Starts \cup {None}
    BY <1>0 DEF DrainHook, StopHook, TypeOK, Ownership
  <2> QED
    BY <2>1, ConstantsAssumption DEF Closers
<1>h. RunHook(c, taken[c], "drain") /\ spc[c] = "drain"
  BY DEF DrainHook, StopHook
<1>r. /\ hook' \in [Starts \cup Stops -> Nat]
      /\ ran' \in [Starts -> [Phases -> Nat]]
      /\ hook' = [hook EXCEPT ![c] = hook[c] + 1]
      /\ hook[c] < NHooks
      /\ ran'[taken[c]]["drain"] = ran[taken[c]]["drain"] + 1
      /\ \A q \in Phases : q # "drain" => ran'[taken[c]][q] = ran[taken[c]][q]
      /\ \A t \in Starts : t # taken[c] => ran'[t] = ran[t]
  BY <1>0, <1>h, <1>t, RunHookType DEF Phases
<1>1. TypeOK'
  BY <1>0, <1>h, <1>r, <1>t DEF DrainHook, StopHook, startVars, serveVars, chanVars, TypeOK
<1>2. Ownership'
  BY <1>0, OwnershipFrame DEF DrainHook, StopHook, RunHook, startVars, serveVars, chanVars
<1>3. HookIndex'
  <2>1. hook'[c] <= NHooks /\ \A d \in Starts \cup Stops : d # c => hook'[d] = hook[d]
    BY <1>0, <1>r, <1>t, ConstantsAssumption DEF TypeOK
  <2>2. UNCHANGED <<pc, spc>>
    BY DEF DrainHook, StopHook, startVars
  <2> QED
    BY <1>0, <1>h, <2>1, <2>2, ConstantsAssumption DEF HookIndex, Closers
<1>4. StartHookCount'
  <2>1. UNCHANGED <<pc, failed>>
    BY DEF DrainHook, StopHook, startVars
  <2>2. \A s \in Starts : ran'[s]["start"] = ran[s]["start"]
    BY <1>r, <1>t DEF Phases
  <2>3. \A s \in Starts : pc[s] = "hooks" => s # c
    BY <1>0, <1>h, ConstantsAssumption DEF HookIndex, Closers
  <2>4. \A s \in Starts : pc[s] = "hooks" => hook'[s] = hook[s]
    BY <1>0, <1>r, <2>3 DEF TypeOK
  <2> QED
    BY <1>0, <2>1, <2>2, <2>4 DEF StartHookCount, Launched
<1>5. StopProgress'
  <2>0. taken' = taken /\ UNCHANGED <<spc, graceful, srv, ready>>
    BY DEF DrainHook, StopHook, serveVars, chanVars
  <2>h. hook'[c] = hook[c] + 1 /\ \A d \in Closers : d # c => hook'[d] = hook[d]
    BY <1>0, <1>r, <1>t, ConstantsAssumption DEF TypeOK, Closers
  <2>r. /\ ran'[taken[c]]["drain"] = ran[taken[c]]["drain"] + 1
        /\ ran'[taken[c]]["shutdown"] = ran[taken[c]]["shutdown"]
        /\ \A t \in Starts : t # taken[c] => ran'[t] = ran[t]
    BY <1>r DEF Phases
  <2>1. ASSUME NEW t \in Starts, \A d \in Closers : taken'[d] # t
        PROVE  Untouched(t)'
    <3>1. Untouched(t) /\ t # taken[c]
      BY <1>0, <2>0, <2>1 DEF StopProgress
    <3> QED
      BY <2>0, <2>r, <3>1 DEF Untouched
  <2>2. ASSUME NEW d \in Closers, NEW t \in Starts, taken'[d] = t
        PROVE  Progress(d, t)'
    <3>1. taken[d] = t /\ Progress(d, t)
      BY <1>0, <2>0, <2>2 DEF StopProgress
    <3>2. CASE d = c
      BY <1>h, <2>0, <2>h, <2>r, <3>1, <3>2 DEF Progress
    <3>3. CASE d # c
      <4>1. taken[c] # t
        BY <1>0, <3>1, <3>3, ConstantsAssumption DEF Ownership
      <4>2. ran'[t] = ran[t] /\ hook'[d] = hook[d]
        BY <2>h, <2>r, <3>3, <4>1
      <4> QED
        BY <2>0, <3>1, <4>2 DEF Progress
    <3> QED BY <3>2, <3>3
  <2> QED BY <2>1, <2>2 DEF StopProgress
<1>6. ServerState'
  BY <1>0, ServerStateFrame DEF DrainHook, StopHook, RunHook, startVars, serveVars, chanVars
<1> QED
  BY <1>1, <1>2, <1>3, <1>4, <1>5, <1>6 DEF IInv

LEMMA DrainHooksDoneInv ==
  ASSUME IInv, NEW c \in Closers, DrainHooksDone(c)
  PROVE  IInv'
<1>0. TypeOK /\ Ownership /\ HookIndex /\ StartHookCount /\ StopProgress /\ ServerState
  BY DEF IInv
<1>1. TypeOK'
  BY <1>0, ConstantsAssumption DEF DrainHooksDone, StopGoto, HooksDone, startVars, serveVars, chanVars, TypeOK, StartPC, StopPC, SrvStates, Ownership, Closers
<1>2. Ownership'
  BY <1>0, ConstantsAssumption DEF DrainHooksDone, StopGoto, HooksDone, startVars, serveVars, chanVars, TypeOK, Ownership, Closers
<1>3. HookIndex'
  BY <1>0, ConstantsAssumption DEF DrainHooksDone, StopGoto, HooksDone, startVars, serveVars, chanVars, TypeOK, HookIndex, Closers
<1>4. StartHookCount'
  BY <1>0, ConstantsAssumption DEF DrainHooksDone, StopGoto, HooksDone, startVars, serveVars, chanVars, TypeOK, HookIndex, StartHookCount, Launched, Phases, Closers
<1>5. StopProgress'
  <2>0. taken' = taken
    BY DEF DrainHooksDone
  <2>1. ASSUME NEW t \in Starts, \A d \in Closers : taken'[d] # t
        PROVE  Untouched(t)'
    <3>1. Untouched(t)
      BY <1>0, <2>0, <2>1 DEF StopProgress
    <3> QED
      BY <1>0, <2>0, <2>1, <3>1 DEF DrainHooksDone, StopGoto, HooksDone, startVars, serveVars, chanVars, TypeOK, Phases, HookIndex, Ownership, ServerState, Closers, Untouched
  <2>2. ASSUME NEW d \in Closers, NEW t \in Starts, taken'[d] = t
        PROVE  Progress(d, t)'
    <3>1. taken[d] = t /\ Progress(d, t)
      BY <1>0, <2>0, <2>2 DEF StopProgress
    <3>2. CASE d = c
      BY <1>0, <2>0, <3>1, <3>2, ConstantsAssumption DEF DrainHooksDone, StopGoto, HooksDone, startVars, serveVars, chanVars, TypeOK, Phases, HookIndex, Ownership, ServerState, Closers, Progress
    <3>3. CASE d # c
      <4>1. taken[c] # t
        BY <1>0, <3>1, <3>3, ConstantsAssumption DEF Ownership
      <4> QED
        BY <1>0, <2>0, <3>1, <3>3, <4>1 DEF DrainHooksDone, StopGoto, HooksDone, startVars, serveVars, chanVars, TypeOK, Phases, HookIndex, Ownership, ServerState, Closers, Progress
    <3> QED BY <3>2, <3>3
  <2> QED BY <2>1, <2>2 DEF StopProgress
<1>6. ServerState'
  BY <1>0, ServerStateFrame DEF DrainHooksDone, StopGoto, HooksDone, startVars, serveVars, chanVars
<1> QED
  BY <1>1, <1>2, <1>3, <1>4, <1>5, <1>6 DEF IInv

LEMMA DrainWaitInv ==
  ASSUME IInv, NEW c \in Closers, DrainWait(c)
  PROVE  IInv'
<1>0. TypeOK /\ Ownership /\ HookIndex /\ StartHookCount /\ StopProgress /\ ServerState
  BY DEF IInv
<1>1. TypeOK'
  BY <1>0, ConstantsAssumption DEF DrainWait, StopGoto, startVars, hookVars, serveVars, chanVars, TypeOK, StartPC, StopPC, SrvStates, Ownership, Closers
<1>2. Ownership'
  BY <1>0, ConstantsAssumption DEF DrainWait, StopGoto, startVars, hookVars, serveVars, chanVars, TypeOK, Ownership, Closers
<1>3. HookIndex'
  BY <1>0, ConstantsAssumption DEF DrainWait, StopGoto, startVars, hookVars, serveVars, chanVars, TypeOK, HookIndex, Closers
<1>4. StartHookCount'
  BY <1>0, StartHookCountFrame DEF DrainWait, StopGoto, startVars, hookVars, serveVars, chanVars
<1>5. StopProgress'
  <2>0. taken' = taken
    BY DEF DrainWait
  <2>1. ASSUME NEW t \in Starts, \A d \in Closers : taken'[d] # t
        PROVE  Untouched(t)'
    <3>1. Untouched(t)
      BY <1>0, <2>0, <2>1 DEF StopProgress
    <3> QED
      BY <1>0, <2>0, <2>1, <3>1 DEF DrainWait, StopGoto, startVars, hookVars, serveVars, chanVars, TypeOK, Phases, HookIndex, Ownership, ServerState, Closers, Untouched
  <2>2. ASSUME NEW d \in Closers, NEW t \in Starts, taken'[d] = t
        PROVE  Progress(d, t)'
    <3>1. taken[d] = t /\ Progress(d, t)
      BY <1>0, <2>0, <2>2 DEF StopProgress
    <3>2. CASE d = c
      BY <1>0, <2>0, <3>1, <3>2, ConstantsAssumption DEF DrainWait, StopGoto, startVars, hookVars, serveVars, chanVars, TypeOK, Phases, HookIndex, Ownership, ServerState, Closers, Progress
    <3>3. CASE d # c
      <4>1. taken[c] # t
        BY <1>0, <3>1, <3>3, ConstantsAssumption DEF Ownership
      <4> QED
        BY <1>0, <2>0, <3>1, <3>3, <4>1 DEF DrainWait, StopGoto, startVars, hookVars, serveVars, chanVars, TypeOK, Phases, HookIndex, Ownership, ServerState, Closers, Progress
    <3> QED BY <3>2, <3>3
  <2> QED BY <2>1, <2>2 DEF StopProgress
<1>6. ServerState'
  BY <1>0, ServerStateFrame DEF DrainWait, StopGoto, startVars, hookVars, serveVars, chanVars
<1> QED
  BY <1>1, <1>2, <1>3, <1>4, <1>5, <1>6 DEF IInv

LEMMA SrvShutdownInv ==
  ASSUME IInv, NEW c \in Closers, SrvShutdown(c)
  PROVE  IInv'
<1>0. TypeOK /\ Ownership /\ HookIndex /\ StartHookCount /\ StopProgress /\ ServerState
  BY DEF IInv
<1>1. TypeOK'
  BY <1>0, ConstantsAssumption DEF SrvShutdown, StopGoto, startVars, hookVars, chanVars, TypeOK, StartPC, StopPC, SrvStates, Ownership, Closers
<1>2. Ownership'
  BY <1>0, ConstantsAssumption DEF SrvShutdown, StopGoto, startVars, hookVars, chanVars, TypeOK, Ownership, Closers
<1>3. HookIndex'
  BY <1>0, ConstantsAssumption DEF SrvShutdown, StopGoto, startVars, hookVars, chanVars, TypeOK, HookIndex, Closers
<1>4. StartHookCount'
  BY <1>0, StartHookCountFrame DEF SrvShutdown, StopGoto, startVars, hookVars, chanVars
<1>5. StopProgress'
  <2>0. taken' = taken
    BY DEF SrvShutdown
  <2>1. ASSUME NEW t \in Starts, \A d \in Closers : taken'[d] # t
        PROVE  Untouched(t)'
    <3>1. Untouched(t)
      BY <1>0, <2>0, <2>1 DEF StopProgress
    <3> QED
      BY <1>0, <2>0, <2>1, <3>1 DEF SrvShutdown, StopGoto, startVars, hookVars, chanVars, TypeOK, Phases, HookIndex, Ownership, ServerState, Closers, Untouched
  <2>2. ASSUME NEW d \in Closers, NEW t \in Starts, taken'[d] = t
        PROVE  Progress(d, t)'
    <3>1. taken[d] = t /\ Progress(d, t)
      BY <1>0, <2>0, <2>2 DEF StopProgress
    <3>2. CASE d = c
      <4>1. srv'[t] \in {"refused", "stopped", "broken"}
        <5>1. srv[t] \in {"built", "launched", "serving", "refused", "stopped", "broken"}
          BY <1>0, <3>1 DEF TypeOK, SrvStates, ServerState
        <5> QED
          BY <1>0, <3>1, <3>2, <5>1 DEF SrvShutdown, TypeOK
      <4>2. spc[c] = "close" /\ spc'[c] = "await" /\ UNCHANGED <<ran, graceful, hook, ready>>
        BY <1>0 DEF SrvShutdown, StopGoto, chanVars, hookVars, TypeOK
      <4> QED
        BY <3>1, <3>2, <4>1, <4>2 DEF Progress
    <3>3. CASE d # c
      <4>1. taken[c] # t
        BY <1>0, <3>1, <3>3, ConstantsAssumption DEF Ownership
      <4> QED
        BY <1>0, <2>0, <3>1, <3>3, <4>1 DEF SrvShutdown, StopGoto, startVars, hookVars, chanVars, TypeOK, Phases, HookIndex, Ownership, ServerState, Closers, Progress
    <3> QED BY <3>2, <3>3
  <2> QED BY <2>1, <2>2 DEF StopProgress
<1>6. ServerState'
  <2>0. taken[c] # None /\ taken[c] \in Starts \cup {None}
    BY <1>0 DEF SrvShutdown, StopGoto, TypeOK, Ownership
  <2>1. taken[c] \in Starts /\ srv[taken[c]] # "none" /\ taken[c] # None
    BY <1>0, <2>0 DEF ServerState
  <2>2. UNCHANGED <<pc, inflight, current, taken>>
    BY DEF SrvShutdown, startVars
  <2>3. \A t \in Starts : t # taken[c] => srv'[t] = srv[t]
    BY <1>0 DEF SrvShutdown, TypeOK
  <2>4. srv'[taken[c]] = CASE srv[taken[c]] \in {"built", "launched"} -> "refused"
                           [] srv[taken[c]] = "serving" -> "stopped"
                           [] OTHER -> srv[taken[c]]
    BY <1>0, <2>1 DEF SrvShutdown, TypeOK
  <2> QED
    BY <1>0, <2>1, <2>2, <2>3, <2>4 DEF ServerState, Launched
<1> QED
  BY <1>1, <1>2, <1>3, <1>4, <1>5, <1>6 DEF IInv

LEMMA SrvShutdownReturnInv ==
  ASSUME IInv, NEW c \in Closers, SrvShutdownReturn(c)
  PROVE  IInv'
<1>0. TypeOK /\ Ownership /\ HookIndex /\ StartHookCount /\ StopProgress /\ ServerState
  BY DEF IInv
<1>1. TypeOK'
  <2>1. spc \in [Closers -> StopPC] /\ result \in [Closers -> {"ok", "error"}]
    BY <1>0 DEF TypeOK
  <2>2. spc' \in [Closers -> StopPC] /\ result' \in [Closers -> {"ok", "error"}]
    BY <2>1 DEF SrvShutdownReturn, StopGoto, StopPC
  <2> QED
    BY <1>0, <2>2 DEF SrvShutdownReturn, startVars, hookVars, serveVars, chanVars, TypeOK
<1>2. Ownership'
  BY <1>0, ConstantsAssumption DEF SrvShutdownReturn, StopGoto, startVars, hookVars, serveVars, chanVars, TypeOK, Ownership, Closers
<1>3. HookIndex'
  BY <1>0, ConstantsAssumption DEF SrvShutdownReturn, StopGoto, startVars, hookVars, serveVars, chanVars, TypeOK, HookIndex, Closers
<1>4. StartHookCount'
  BY <1>0, StartHookCountFrame DEF SrvShutdownReturn, StopGoto, startVars, hookVars, serveVars, chanVars
<1>5. StopProgress'
  <2>0. taken' = taken
    BY DEF SrvShutdownReturn
  <2>1. ASSUME NEW t \in Starts, \A d \in Closers : taken'[d] # t
        PROVE  Untouched(t)'
    <3>1. Untouched(t)
      BY <1>0, <2>0, <2>1 DEF StopProgress
    <3> QED
      BY <1>0, <2>0, <2>1, <3>1 DEF SrvShutdownReturn, StopGoto, startVars, hookVars, serveVars, chanVars, TypeOK, Phases, HookIndex, Ownership, ServerState, Closers, Untouched
  <2>2. ASSUME NEW d \in Closers, NEW t \in Starts, taken'[d] = t
        PROVE  Progress(d, t)'
    <3>1. taken[d] = t /\ Progress(d, t)
      BY <1>0, <2>0, <2>2 DEF StopProgress
    <3>2. CASE d = c
      BY <1>0, <2>0, <3>1, <3>2, ConstantsAssumption DEF SrvShutdownReturn, StopGoto, startVars, hookVars, serveVars, chanVars, TypeOK, Phases, HookIndex, Ownership, ServerState, Closers, Progress
    <3>3. CASE d # c
      <4>1. taken[c] # t
        BY <1>0, <3>1, <3>3, ConstantsAssumption DEF Ownership
      <4> QED
        BY <1>0, <2>0, <3>1, <3>3, <4>1 DEF SrvShutdownReturn, StopGoto, startVars, hookVars, serveVars, chanVars, TypeOK, Phases, HookIndex, Ownership, ServerState, Closers, Progress
    <3> QED BY <3>2, <3>3
  <2> QED BY <2>1, <2>2 DEF StopProgress
<1>6. ServerState'
  BY <1>0, ServerStateFrame DEF SrvShutdownReturn, StopGoto, startVars, hookVars, serveVars, chanVars
<1> QED
  BY <1>1, <1>2, <1>3, <1>4, <1>5, <1>6 DEF IInv

LEMMA CloseGracefulInv ==
  ASSUME IInv, NEW c \in Closers, CloseGraceful(c)
  PROVE  IInv'
<1>0. TypeOK /\ Ownership /\ HookIndex /\ StartHookCount /\ StopProgress /\ ServerState
  BY DEF IInv
<1>1. TypeOK'
  <2>1. taken[c] \in Starts
    BY <1>0 DEF CloseGraceful, StopGoto, TypeOK, Ownership
  <2>2. graceful' \in [Starts -> Nat]
    BY <1>0, <2>1 DEF CloseGraceful, TypeOK
  <2>3. spc' \in [Closers -> StopPC]
    BY <1>0 DEF CloseGraceful, StopGoto, TypeOK, StopPC
  <2> QED
    BY <1>0, <2>2, <2>3 DEF CloseGraceful, startVars, serveVars, hookVars, TypeOK
<1>2. Ownership'
  BY <1>0, ConstantsAssumption DEF CloseGraceful, StopGoto, startVars, hookVars, serveVars, TypeOK, Ownership, Closers
<1>3. HookIndex'
  BY <1>0, ConstantsAssumption DEF CloseGraceful, StopGoto, startVars, hookVars, serveVars, TypeOK, HookIndex, Closers
<1>4. StartHookCount'
  BY <1>0, StartHookCountFrame DEF CloseGraceful, StopGoto, startVars, hookVars, serveVars
<1>5. StopProgress'
  <2>0. taken' = taken
    BY DEF CloseGraceful
  <2>1. ASSUME NEW t \in Starts, \A d \in Closers : taken'[d] # t
        PROVE  Untouched(t)'
    <3>1. Untouched(t)
      BY <1>0, <2>0, <2>1 DEF StopProgress
    <3> QED
      BY <1>0, <2>0, <2>1, <3>1 DEF CloseGraceful, StopGoto, startVars, hookVars, serveVars, TypeOK, Phases, HookIndex, Ownership, ServerState, Closers, Untouched
  <2>2. ASSUME NEW d \in Closers, NEW t \in Starts, taken'[d] = t
        PROVE  Progress(d, t)'
    <3>1. taken[d] = t /\ Progress(d, t)
      BY <1>0, <2>0, <2>2 DEF StopProgress
    <3>2. CASE d = c
      <4>1. /\ spc[c] = "release" /\ spc'[c] = "hooks"
            /\ UNCHANGED <<ran, srv, hook, ready>>
        BY <1>0 DEF CloseGraceful, StopGoto, serveVars, hookVars, TypeOK
      <4>2. hook[c] = 0 /\ graceful[t] = 0 /\ ran[t]["shutdown"] = 0
        BY <1>0, <3>1, <3>2, <4>1 DEF HookIndex, Progress
      <4>3. graceful'[t] = 1
        BY <1>0, <3>1, <3>2, <4>2 DEF CloseGraceful, TypeOK
      <4> QED
        BY <3>1, <3>2, <4>1, <4>2, <4>3 DEF Progress
    <3>3. CASE d # c
      <4>1. taken[c] # t
        BY <1>0, <3>1, <3>3, ConstantsAssumption DEF Ownership
      <4> QED
        BY <1>0, <2>0, <3>1, <3>3, <4>1 DEF CloseGraceful, StopGoto, startVars, hookVars, serveVars, TypeOK, Phases, HookIndex, Ownership, ServerState, Closers, Progress
    <3> QED BY <3>2, <3>3
  <2> QED BY <2>1, <2>2 DEF StopProgress
<1>6. ServerState'
  BY <1>0, ServerStateFrame DEF CloseGraceful, StopGoto, startVars, hookVars, serveVars
<1> QED
  BY <1>1, <1>2, <1>3, <1>4, <1>5, <1>6 DEF IInv

LEMMA ShutdownHookInv ==
  ASSUME IInv, NEW c \in Closers, ShutdownHook(c)
  PROVE  IInv'
<1>0. TypeOK /\ Ownership /\ HookIndex /\ StartHookCount /\ StopProgress /\ ServerState
  BY DEF IInv
<1>t. taken[c] \in Starts /\ c \in Starts \cup Stops
  <2>1. taken[c] # None /\ taken[c] \in Starts \cup {None}
    BY <1>0 DEF ShutdownHook, StopHook, TypeOK, Ownership
  <2> QED
    BY <2>1, ConstantsAssumption DEF Closers
<1>h. RunHook(c, taken[c], "shutdown") /\ spc[c] = "hooks"
  BY DEF ShutdownHook, StopHook
<1>r. /\ hook' \in [Starts \cup Stops -> Nat]
      /\ ran' \in [Starts -> [Phases -> Nat]]
      /\ hook' = [hook EXCEPT ![c] = hook[c] + 1]
      /\ hook[c] < NHooks
      /\ ran'[taken[c]]["shutdown"] = ran[taken[c]]["shutdown"] + 1
      /\ \A q \in Phases : q # "shutdown" => ran'[taken[c]][q] = ran[taken[c]][q]
      /\ \A t \in Starts : t # taken[c] => ran'[t] = ran[t]
  BY <1>0, <1>h, <1>t, RunHookType DEF Phases
<1>1. TypeOK'
  BY <1>0, <1>h, <1>r, <1>t DEF ShutdownHook, StopHook, startVars, serveVars, chanVars, TypeOK
<1>2. Ownership'
  BY <1>0, OwnershipFrame DEF ShutdownHook, StopHook, RunHook, startVars, serveVars, chanVars
<1>3. HookIndex'
  <2>1. hook'[c] <= NHooks /\ \A d \in Starts \cup Stops : d # c => hook'[d] = hook[d]
    BY <1>0, <1>r, <1>t, ConstantsAssumption DEF TypeOK
  <2>2. UNCHANGED <<pc, spc>>
    BY DEF ShutdownHook, StopHook, startVars
  <2> QED
    BY <1>0, <1>h, <2>1, <2>2, ConstantsAssumption DEF HookIndex, Closers
<1>4. StartHookCount'
  <2>1. UNCHANGED <<pc, failed>>
    BY DEF ShutdownHook, StopHook, startVars
  <2>2. \A s \in Starts : ran'[s]["start"] = ran[s]["start"]
    BY <1>r, <1>t DEF Phases
  <2>3. \A s \in Starts : pc[s] = "hooks" => s # c
    BY <1>0, <1>h, ConstantsAssumption DEF HookIndex, Closers
  <2>4. \A s \in Starts : pc[s] = "hooks" => hook'[s] = hook[s]
    BY <1>0, <1>r, <2>3 DEF TypeOK
  <2> QED
    BY <1>0, <2>1, <2>2, <2>4 DEF StartHookCount, Launched
<1>5. StopProgress'
  <2>0. taken' = taken /\ UNCHANGED <<spc, graceful, srv, ready>>
    BY DEF ShutdownHook, StopHook, serveVars, chanVars
  <2>h. hook'[c] = hook[c] + 1 /\ \A d \in Closers : d # c => hook'[d] = hook[d]
    BY <1>0, <1>r, <1>t, ConstantsAssumption DEF TypeOK, Closers
  <2>r. /\ ran'[taken[c]]["shutdown"] = ran[taken[c]]["shutdown"] + 1
        /\ ran'[taken[c]]["drain"] = ran[taken[c]]["drain"]
        /\ \A t \in Starts : t # taken[c] => ran'[t] = ran[t]
    BY <1>r DEF Phases
  <2>1. ASSUME NEW t \in Starts, \A d \in Closers : taken'[d] # t
        PROVE  Untouched(t)'
    <3>1. Untouched(t) /\ t # taken[c]
      BY <1>0, <2>0, <2>1 DEF StopProgress
    <3> QED
      BY <2>0, <2>r, <3>1 DEF Untouched
  <2>2. ASSUME NEW d \in Closers, NEW t \in Starts, taken'[d] = t
        PROVE  Progress(d, t)'
    <3>1. taken[d] = t /\ Progress(d, t)
      BY <1>0, <2>0, <2>2 DEF StopProgress
    <3>2. CASE d = c
      BY <1>h, <2>0, <2>h, <2>r, <3>1, <3>2 DEF Progress
    <3>3. CASE d # c
      <4>1. taken[c] # t
        BY <1>0, <3>1, <3>3, ConstantsAssumption DEF Ownership
      <4>2. ran'[t] = ran[t] /\ hook'[d] = hook[d]
        BY <2>h, <2>r, <3>3, <4>1
      <4> QED
        BY <2>0, <3>1, <4>2 DEF Progress
    <3> QED BY <3>2, <3>3
  <2> QED BY <2>1, <2>2 DEF StopProgress
<1>6. ServerState'
  BY <1>0, ServerStateFrame DEF ShutdownHook, StopHook, RunHook, startVars, serveVars, chanVars
<1> QED
  BY <1>1, <1>2, <1>3, <1>4, <1>5, <1>6 DEF IInv

LEMMA ShutdownReturnInv ==
  ASSUME IInv, NEW c \in Closers, ShutdownReturn(c)
  PROVE  IInv'
<1>0. TypeOK /\ Ownership /\ HookIndex /\ StartHookCount /\ StopProgress /\ ServerState
  BY DEF IInv
<1>1. TypeOK'
  BY <1>0, ConstantsAssumption DEF ShutdownReturn, StopGoto, HooksDone, startVars, serveVars, chanVars, TypeOK, StartPC, StopPC, SrvStates, Ownership, Closers
<1>2. Ownership'
  BY <1>0, ConstantsAssumption DEF ShutdownReturn, StopGoto, HooksDone, startVars, serveVars, chanVars, TypeOK, Ownership, Closers
<1>3. HookIndex'
  BY <1>0, ConstantsAssumption DEF ShutdownReturn, StopGoto, HooksDone, startVars, serveVars, chanVars, TypeOK, HookIndex, Closers
<1>4. StartHookCount'
  BY <1>0, ConstantsAssumption DEF ShutdownReturn, StopGoto, HooksDone, startVars, serveVars, chanVars, TypeOK, HookIndex, StartHookCount, Launched, Phases, Closers
<1>5. StopProgress'
  <2>0. taken' = taken
    BY DEF ShutdownReturn
  <2>1. ASSUME NEW t \in Starts, \A d \in Closers : taken'[d] # t
        PROVE  Untouched(t)'
    <3>1. Untouched(t)
      BY <1>0, <2>0, <2>1 DEF StopProgress
    <3> QED
      BY <1>0, <2>0, <2>1, <3>1 DEF ShutdownReturn, StopGoto, HooksDone, startVars, serveVars, chanVars, TypeOK, Phases, HookIndex, Ownership, ServerState, Closers, Untouched
  <2>2. ASSUME NEW d \in Closers, NEW t \in Starts, taken'[d] = t
        PROVE  Progress(d, t)'
    <3>1. taken[d] = t /\ Progress(d, t)
      BY <1>0, <2>0, <2>2 DEF StopProgress
    <3>2. CASE d = c
      BY <1>0, <2>0, <3>1, <3>2, ConstantsAssumption DEF ShutdownReturn, StopGoto, HooksDone, startVars, serveVars, chanVars, TypeOK, Phases, HookIndex, Ownership, ServerState, Closers, Progress
    <3>3. CASE d # c
      <4>1. taken[c] # t
        BY <1>0, <3>1, <3>3, ConstantsAssumption DEF Ownership
      <4> QED
        BY <1>0, <2>0, <3>1, <3>3, <4>1 DEF ShutdownReturn, StopGoto, HooksDone, startVars, serveVars, chanVars, TypeOK, Phases, HookIndex, Ownership, ServerState, Closers, Progress
    <3> QED BY <3>2, <3>3
  <2> QED BY <2>1, <2>2 DEF StopProgress
<1>6. ServerState'
  BY <1>0, ServerStateFrame DEF ShutdownReturn, StopGoto, HooksDone, startVars, serveVars, chanVars
<1> QED
  BY <1>1, <1>2, <1>3, <1>4, <1>5, <1>6 DEF IInv

LEMMA ExpireInv ==
  ASSUME IInv, NEW c \in Closers, Expire(c)
  PROVE  IInv'
<1>0. TypeOK /\ Ownership /\ HookIndex /\ StartHookCount /\ StopProgress /\ ServerState
  BY DEF IInv
<1>1. TypeOK'
  BY <1>0, ConstantsAssumption DEF Expire, startVars, hookVars, serveVars, chanVars, TypeOK, StartPC, StopPC, SrvStates, Ownership, Closers
<1>2. Ownership'
  BY <1>0, OwnershipFrame DEF Expire, startVars, hookVars, serveVars, chanVars
<1>3. HookIndex'
  BY <1>0, HookIndexFrame DEF Expire, startVars, hookVars, serveVars, chanVars
<1>4. StartHookCount'
  BY <1>0, StartHookCountFrame DEF Expire, startVars, hookVars, serveVars, chanVars
<1>5. StopProgress'
  BY <1>0, StopProgressFrame DEF Expire, startVars, hookVars, serveVars, chanVars
<1>6. ServerState'
  BY <1>0, ServerStateFrame DEF Expire, startVars, hookVars, serveVars, chanVars
<1> QED
  BY <1>1, <1>2, <1>3, <1>4, <1>5, <1>6 DEF IInv

LEMMA SignalInv ==
  ASSUME IInv, Signal
  PROVE  IInv'
<1>1. TypeOK'
  BY DEF IInv, TypeOK, Signal, startVars, serveVars, chanVars, hookVars, stopVars
<1>2. Ownership' /\ HookIndex' /\ StartHookCount' /\ StopProgress' /\ ServerState'
  BY OwnershipFrame, HookIndexFrame, StartHookCountFrame, StopProgressFrame, ServerStateFrame
     DEF IInv, Signal, startVars, serveVars, chanVars, hookVars, stopVars
<1> QED
  BY <1>1, <1>2 DEF IInv

LEMMA StutterInv ==
  ASSUME IInv, UNCHANGED vars
  PROVE  IInv'
<1>1. TypeOK'
  BY DEF IInv, TypeOK, vars, startVars, serveVars, chanVars, hookVars, stopVars
<1>2. Ownership' /\ HookIndex' /\ StartHookCount' /\ StopProgress' /\ ServerState'
  BY OwnershipFrame, HookIndexFrame, StartHookCountFrame, StopProgressFrame, ServerStateFrame
     DEF IInv, vars, startVars, serveVars, chanVars, hookVars, stopVars
<1> QED
  BY <1>1, <1>2 DEF IInv

\* Every step of every goroutine preserves the invariant.
LEMMA NextInv == IInv /\ [Next]_vars => IInv'
<1> SUFFICES ASSUME IInv, [Next]_vars PROVE IInv'
  OBVIOUS
<1>1. ASSUME NEW s \in Starts, StartStep(s) PROVE IInv'
  BY <1>1, ListenInv, PublishInv, RejectInv, StartHookInv, AbortStartInv, AbortCloseInv,
     LaunchInv, ReadGracefulInv DEF StartStep
<1>2. ASSUME NEW s \in Starts, WatcherStep(s) PROVE IInv'
  BY <1>2, WatcherPeekInv, WatcherSelectInv DEF WatcherStep
<1>3. ASSUME NEW s \in Starts, EnvStep(s) PROVE IInv'
  BY <1>3, ServeBeginInv, ServeRefusedInv, ServeFailInv, RequestBeginInv, RequestEndInv
     DEF EnvStep
<1>4. ASSUME NEW s \in Runs, RunStep(s) PROVE IInv'
  BY <1>4, RunServeOutcomeInv, RunSignalledInv, RunReturnInv DEF RunStep
<1>5. ASSUME NEW c \in Closers, StopStep(c) PROVE IInv'
  BY <1>5, ReadyFlipInv, DrainHookInv, DrainHooksDoneInv, DrainWaitInv, SrvShutdownInv,
     SrvShutdownReturnInv, CloseGracefulInv, ShutdownHookInv, ShutdownReturnInv DEF StopStep
<1>6. ASSUME NEW c \in Closers, Take(c) \/ Expire(c) PROVE IInv'
  BY <1>6, TakeInv, ExpireInv
<1>7. CASE Signal
  BY <1>7, SignalInv
<1>8. CASE UNCHANGED vars
  BY <1>8, StutterInv
<1> QED
  BY <1>1, <1>2, <1>3, <1>4, <1>5, <1>6, <1>7, <1>8 DEF Next

\* The invariant holds in every reachable state of Spec, for any number of
\* concurrent Start, Run and Shutdown calls.
THEOREM InvariantHolds == Spec => []IInv
BY InitInv, NextInv, PTL DEF Spec

-----------------------------------------------------------------------------
LEMMA InvGracefulClosedOnce == IInv => GracefulClosedOnce
<1> SUFFICES ASSUME IInv, NEW s \in Starts PROVE graceful[s] <= 1
  BY DEF GracefulClosedOnce
<1>1. CASE \A c \in Closers : taken[c] # s
  BY <1>1 DEF IInv, StopProgress, Untouched
<1>2. CASE \E c \in Closers : taken[c] = s
  <2>1. PICK c \in Closers : taken[c] = s /\ Progress(c, s)
    BY <1>2 DEF IInv, StopProgress
  <2> QED
    BY <2>1 DEF Progress
<1> QED
  BY <1>1, <1>2

LEMMA InvDrainSequence == IInv => DrainSequence
<1> SUFFICES ASSUME IInv, NEW s \in Starts
             PROVE  /\ \A p \in Phases : ran[s][p] <= NHooks
                    /\ ran[s]["drain"] > 0 => ~ready
                    /\ graceful[s] > 0 =>
                         /\ ran[s]["drain"] = NHooks
                         /\ srv[s] \in {"refused", "stopped", "broken"}
                    /\ ran[s]["shutdown"] > 0 => graceful[s] > 0
  BY DEF DrainSequence
<1>1. ran[s]["start"] <= NHooks
  BY DEF IInv, StartHookCount
<1>2. CASE \A c \in Closers : taken[c] # s
  BY <1>1, <1>2, ConstantsAssumption DEF IInv, StopProgress, Untouched, Phases
<1>3. CASE \E c \in Closers : taken[c] = s
  <2>1. PICK c \in Closers : taken[c] = s /\ Progress(c, s)
    BY <1>3 DEF IInv, StopProgress
  <2>2. spc[c] # "idle" /\ hook[c] <= NHooks /\ hook[c] \in Nat /\ spc[c] \in StopPC
    BY <2>1, ConstantsAssumption DEF IInv, TypeOK, Ownership, HookIndex, Closers
  <2>3. ran[s]["drain"] <= NHooks /\ ran[s]["shutdown"] <= NHooks
    BY <2>1, <2>2, ConstantsAssumption DEF Progress
  <2>4. ran[s]["drain"] > 0 => ready = FALSE
    BY <2>1 DEF Progress
  <2>5. graceful[s] > 0 =>
           ran[s]["drain"] = NHooks /\ srv[s] \in {"refused", "stopped", "broken"}
    BY <2>1 DEF Progress
  <2>6. ran[s]["shutdown"] > 0 => graceful[s] > 0
    BY <2>1 DEF Progress
  <2> QED
    BY <1>1, <2>3, <2>4, <2>5, <2>6 DEF Phases
<1> QED
  BY <1>2, <1>3

LEMMA InvHalfAnnounced == IInv => HalfAnnouncedNeverServes
BY DEF IInv, StartHookCount, ServerState, HalfAnnouncedNeverServes

\* Every variable keeps its type, whatever calls are made.
THEOREM TypeCorrect == Spec => []TypeOK
<1>1. IInv => TypeOK
  BY DEF IInv
<1> QED
  BY <1>1, InvariantHolds, PTL

\* serve.graceful is never closed twice: no two of the concurrent Shutdown,
\* Close and Run calls ever own the same generation.
THEOREM GracefulOnce == Spec => []GracefulClosedOnce
BY InvGracefulClosedOnce, InvariantHolds, PTL

\* Per generation: drain hooks, listener close, shutdown hooks, in this order
\* and at most once, behind a readiness probe that is already down.
THEOREM DrainInOrder == Spec => []DrainSequence
BY InvDrainSequence, InvariantHolds, PTL

\* A server whose start hooks did not all succeed never accepts a request.
THEOREM NeverServesHalfAnnounced == Spec => []HalfAnnouncedNeverServes
BY InvHalfAnnounced, InvariantHolds, PTL

-----------------------------------------------------------------------------
(* The watcher of a Start *)

\* A watcher that has not sent yet is at one of its two selects, and a failure of
\* its serve loop is still in the delegated channel.
Watching(s) ==
  /\ watch[s] # None => errCh[s] # <<>> \/ watcher[s] \in {"peek", "select"}
  /\ srv[s] = "broken" => errCh[s] # <<>> \/ raw[s]

WatchInv == \A s \in Starts : Watching(s)

LEMMA WatchingKept ==
  ASSUME NEW s \in Starts, Watching(s),
         watch'[s] = watch[s], watcher'[s] = watcher[s], errCh'[s] = errCh[s], raw'[s] = raw[s],
         srv'[s] = "broken" => srv[s] = "broken"
  PROVE  Watching(s)'
BY DEF Watching

LEMMA WatchInit == Init => WatchInv
<1> SUFFICES ASSUME Init, NEW s \in Starts PROVE Watching(s)
  BY DEF WatchInv
<1>1. watch[s] = None /\ srv[s] = "none"
  BY DEF Init
<1> QED
  BY <1>1 DEF Watching

\* Only a failing serve loop makes a server broken, and it leaves its error.
LEMMA WatchNext ==
  ASSUME IInv, WatchInv, [Next]_vars
  PROVE  WatchInv'
<1>0. IInv => TypeOK
  BY DEF IInv
<1>1. ASSUME NEW s \in Starts, StartStep(s), ~ReadGraceful(s) PROVE WatchInv'
  <2>1. UNCHANGED <<watch, watcher, errCh, raw>>
    BY <1>1 DEF StartStep, Listen, Publish, Reject, StartHook, AbortStart, AbortClose, Launch,
       serveVars, chanVars
  <2>2. \A t \in Starts : srv'[t] = "broken" => srv[t] = "broken"
    BY <1>0, <1>1 DEF StartStep, Listen, Publish, Reject, StartHook, AbortStart, AbortClose, Launch,
       serveVars, TypeOK
  <2> QED
    BY <2>1, <2>2, WatchingKept DEF WatchInv
<1>2. ASSUME NEW s \in Starts, ReadGraceful(s) PROVE WatchInv'
  <2>1. /\ UNCHANGED <<srv, raw, errCh>>
        /\ \A t \in Starts : t # s => watch'[t] = watch[t] /\ watcher'[t] = watcher[t]
        /\ \/ watch' = watch /\ watcher' = watcher
           \/ watcher'[s] = "peek"
    BY <1>0, <1>2 DEF ReadGraceful, serveVars, TypeOK
  <2>2. ASSUME NEW t \in Starts PROVE Watching(t)'
    BY <2>1 DEF WatchInv, Watching
  <2> QED
    BY <2>2 DEF WatchInv
<1>3. ASSUME NEW s \in Starts, WatcherStep(s) PROVE WatchInv'
  <2>1. /\ UNCHANGED <<srv, watch>>
        /\ \A t \in Starts : t # s => /\ watcher'[t] = watcher[t]
                                      /\ errCh'[t] = errCh[t] /\ raw'[t] = raw[t]
        /\ \/ watcher'[s] = "select" /\ errCh'[s] = errCh[s] /\ raw'[s] = raw[s]
           \/ errCh'[s] = Append(errCh[s], "error") \/ errCh'[s] = Append(errCh[s], "nil")
    BY <1>0, <1>3 DEF WatcherStep, WatcherPeek, WatcherSelect, Send, startVars, TypeOK
  <2>2. Append(errCh[s], "error") # <<>> /\ Append(errCh[s], "nil") # <<>>
    <3>1. errCh[s] \in Seq({"nil", "error"})
      BY <1>0 DEF TypeOK
    <3> QED
      BY <3>1
  <2>3. ASSUME NEW t \in Starts, t # s PROVE Watching(t)'
    BY <2>1, <2>3, WatchingKept DEF WatchInv
  <2>4. Watching(s)'
    BY <2>1, <2>2 DEF WatchInv, Watching
  <2> QED
    BY <2>3, <2>4 DEF WatchInv
<1>4. ASSUME NEW s \in Starts, EnvStep(s) PROVE WatchInv'
  <2>1. /\ UNCHANGED <<watch, watcher, errCh>>
        /\ \A t \in Starts : t # s => srv'[t] = srv[t] /\ raw'[t] = raw[t]
        /\ \/ raw'[s] = raw[s] /\ (srv'[s] = "broken" => srv[s] = "broken")
           \/ raw'[s] = TRUE
    BY <1>0, <1>4 DEF EnvStep, ServeBegin, ServeRefused, ServeFail, RequestBegin, RequestEnd,
       startVars, chanVars, TypeOK
  <2>2. ASSUME NEW t \in Starts PROVE Watching(t)'
    BY <2>1 DEF WatchInv, Watching
  <2> QED
    BY <2>2 DEF WatchInv
<1>5. ASSUME NEW s \in Runs, RunStep(s) PROVE WatchInv'
  BY <1>5 DEF RunStep, RunServeOutcome, RunSignalled, RunReturn, serveVars, chanVars, WatchInv, Watching
<1>6. ASSUME NEW c \in Closers, Take(c) \/ StopStep(c) \/ Expire(c) PROVE WatchInv'
  <2>1. UNCHANGED <<watch, watcher, errCh, raw>>
    BY <1>6 DEF Take, StopStep, Expire, ReadyFlip, DrainHook, ShutdownHook, StopHook, DrainHooksDone,
       DrainWait, SrvShutdown, SrvShutdownReturn, CloseGraceful, ShutdownReturn, serveVars, chanVars
  <2>2. \A t \in Starts : srv'[t] = "broken" => srv[t] = "broken"
    <3>1. CASE SrvShutdown(c)
      BY <1>0, <3>1 DEF SrvShutdown, TypeOK
    <3>2. CASE ~SrvShutdown(c)
      BY <1>6, <3>2 DEF Take, StopStep, Expire, ReadyFlip, DrainHook, ShutdownHook, StopHook,
         DrainHooksDone, DrainWait, SrvShutdownReturn, CloseGraceful, ShutdownReturn, serveVars
    <3> QED
      BY <3>1, <3>2
  <2> QED
    BY <2>1, <2>2, WatchingKept DEF WatchInv
<1>7. CASE Signal \/ UNCHANGED vars
  BY <1>7 DEF Signal, vars, serveVars, chanVars, WatchInv, Watching
<1> QED
  BY <1>1, <1>2, <1>3, <1>4, <1>5, <1>6, <1>7 DEF Next

\* No watcher waits for nothing: once the generation a Start follows was shut
\* down, or its own serve loop broke, its channel is resolved or the watcher has a
\* message waiting; for any number of generations that replace each other.
THEOREM NoWatcherStranded == Spec => []OutcomeDelivered
<1>1. ASSUME IInv, WatchInv PROVE OutcomeDelivered
  <2> SUFFICES ASSUME NEW s \in Starts, watch[s] # None, errCh[s] = <<>>
               PROVE  /\ watcher[s] \in {"peek", "select"}
                      /\ \A c \in Closers :
                           taken[c] = watch[s] /\ spc[c] = "done" => graceful[watch[s]] > 0
                      /\ srv[s] = "broken" => raw[s]
    BY DEF OutcomeDelivered
  <2>1. watch[s] \in Starts
    BY <1>1 DEF IInv, TypeOK
  <2>2. ASSUME NEW c \in Closers, taken[c] = watch[s], spc[c] = "done"
        PROVE  graceful[watch[s]] > 0
    <3>1. Progress(c, watch[s])
      BY <1>1, <2>1, <2>2 DEF IInv, StopProgress
    <3> QED
      BY <2>2, <3>1 DEF Progress
  <2> QED
    BY <1>1, <2>2 DEF WatchInv, Watching
<1>2. Spec => []WatchInv
  <2>1. IInv /\ WatchInv /\ [Next]_vars => WatchInv'
    BY WatchNext
  <2> QED
    BY <2>1, WatchInit, InvariantHolds, PTL DEF Spec
<1> QED
  BY <1>1, <1>2, InvariantHolds, PTL

-----------------------------------------------------------------------------
(* The port and the listeners, on a fixed port *)

\* Where a Shutdown call stands before and after it stopped the server.
Before == {"flip", "drain", "wait", "close"}
After  == {"await", "release", "hooks", "done"}

\* Where a Start or Run call stands that has been answered.
Answered == {"started", "runwait", "stopping", "returned"}

\* No second listener is open beside another one.  The kernel sees to it on a
\* fixed port, on ":0" a program that starts the service again only once the
\* last run of it is over.
OneListener == \A s, t \in Starts : lnOpen[s] /\ lnOpen[t] => s = t

\* Nobody else's generation is published while a listener is open.
OnePort ==
  /\ OneListener
  /\ \A s \in Starts : lnOpen[s] /\ pc[s] # "bound" => current \in {s, None}

\* A listener is open exactly while the Start call or the server needs it; a
\* server is refused by a Shutdown that has taken it.
Socket(s) ==
  /\ pc[s] = "idle" => ~lnOpen[s]
  /\ pc[s] \in {"bound", "hooks", "abort"} => lnOpen[s]
  /\ pc[s] = "failed" => ~lnOpen[s]
  /\ srv[s] \in {"launched", "serving"} => lnOpen[s]
  /\ srv[s] \in {"stopped", "broken"} => ~lnOpen[s]
  /\ Launched(s) => srv[s] \notin {"none", "built"}
  /\ srv[s] = "refused" => \E c \in Closers : taken[c] = s /\ spc[c] \in After

\* Somebody is left to close the listener (ListenerNeverLeaks).
Closable(s) ==
  lnOpen[s] =>
    \/ pc[s] \in {"bound", "hooks", "abort", "launch", "panicked"}
    \/ s = current
    \/ srv[s] = "refused"
    \/ \E c \in Closers : taken[c] = s /\ spc[c] \in Before

PortInv == OnePort /\ \A s \in Starts : Socket(s) /\ Closable(s)

\* A step that leaves a generation alone keeps what is said of it; Shutdown
\* calls may go on, but not past the stop of the server.
LEMMA SocketKept ==
  ASSUME NEW s \in Starts, Socket(s),
         pc'[s] = pc[s], lnOpen'[s] = lnOpen[s], srv'[s] = srv[s],
         \A c \in Closers : taken[c] = s /\ spc[c] \in After => taken'[c] = s /\ spc'[c] \in After
  PROVE  Socket(s)'
BY DEF Socket, Launched

LEMMA ClosableKept ==
  ASSUME NEW s \in Starts, Closable(s),
         pc'[s] = pc[s], lnOpen'[s] = lnOpen[s], srv'[s] = srv[s],
         s = current => s = current' \/ \E c \in Closers : taken'[c] = s /\ spc'[c] \in Before,
         \A c \in Closers : taken[c] = s /\ spc[c] \in Before => taken'[c] = s /\ spc'[c] \in Before
  PROVE  Closable(s)'
BY DEF Closable

\* Steps inside a hook, a request, a watcher, or of a signal.
LEMMA PortFrame ==
  ASSUME PortInv, UNCHANGED <<current, pc, lnOpen, srv, taken, spc>>
  PROVE  PortInv'
<1>1. OnePort'
  BY DEF PortInv, OnePort, OneListener
<1>2. \A s \in Starts : Socket(s)' /\ Closable(s)'
  BY SocketKept, ClosableKept DEF PortInv
<1> QED
  BY <1>1, <1>2 DEF PortInv

\* A step of a Shutdown call that touches no server.
LEMMA PortAdvance ==
  ASSUME PortInv, IInv, NEW c \in Closers, NEW to,
         UNCHANGED <<current, pc, lnOpen, srv, taken>>,
         spc' = [spc EXCEPT ![c] = to],
         (spc[c] \in Before /\ to \in Before) \/ (spc[c] \in After /\ to \in After)
  PROVE  PortInv'
<1>1. spc \in [Closers -> StopPC]
  BY DEF IInv, TypeOK
<1>2. \A d \in Closers : /\ spc[d] \in Before => spc'[d] \in Before
                         /\ spc[d] \in After => spc'[d] \in After
  BY <1>1 DEF Before, After
<1>3. OnePort'
  BY DEF PortInv, OnePort, OneListener
<1>4. \A s \in Starts : Socket(s)' /\ Closable(s)'
  BY <1>2, SocketKept, ClosableKept DEF PortInv
<1> QED
  BY <1>3, <1>4 DEF PortInv

\* Run goes on from one answer to the next.
LEMMA PortAnswered ==
  ASSUME PortInv, IInv, NEW s \in Starts, NEW to \in Answered, pc[s] \in Answered,
         UNCHANGED <<current, lnOpen, srv, taken, spc>>,
         pc' = [pc EXCEPT ![s] = to]
  PROVE  PortInv'
<1>1. pc'[s] = to /\ \A t \in Starts : t # s => pc'[t] = pc[t]
  BY DEF IInv, TypeOK
<1>2. OnePort'
  BY <1>1 DEF PortInv, OnePort, OneListener, Answered
<1>3. ASSUME NEW t \in Starts, t # s PROVE Socket(t)' /\ Closable(t)'
  BY <1>1, <1>3, SocketKept, ClosableKept DEF PortInv
<1>4. Socket(s)' /\ Closable(s)'
  BY <1>1 DEF PortInv, Socket, Closable, Launched, Answered
<1> QED
  BY <1>2, <1>3, <1>4 DEF PortInv

\* Only a free port is bound.
LEMMA ListenPort ==
  ASSUME OneListener', PortInv, IInv, NEW s \in Starts, Listen(s)
  PROVE  PortInv'
<1>1. /\ pc[s] = "idle" /\ UNCHANGED <<current, srv, taken, spc>>
      /\ \A t \in Starts : t # s => pc'[t] = pc[t] /\ lnOpen'[t] = lnOpen[t]
  BY DEF Listen, Goto, stopVars, IInv, TypeOK
<1>2. \/ pc'[s] = "bound" /\ lnOpen'[s] /\ \A t \in Starts : ~lnOpen[t]
      \/ pc'[s] = "failed" /\ ~lnOpen'[s]
  <2>1. CASE lnOpen' = lnOpen
    BY <1>1, <2>1 DEF Listen, Goto, IInv, TypeOK, PortInv, Socket
  <2>2. CASE lnOpen' # lnOpen
    <3>1. pc'[s] = "bound" /\ lnOpen'[s]
      BY <1>1, <2>2 DEF Listen, Goto, IInv, TypeOK
    <3>2. ~lnOpen[s] /\ \A t \in Starts : t # s => ~lnOpen[t]
      BY <1>1, <3>1 DEF OneListener, PortInv, Socket
    <3> QED
      BY <3>1, <3>2
  <2> QED
    BY <2>1, <2>2
<1>3. srv[s] = "none"
  BY <1>1 DEF IInv, ServerState
<1>4. OnePort'
  BY <1>1, <1>2 DEF PortInv, OnePort, OneListener
<1>5. ASSUME NEW t \in Starts, t # s PROVE Socket(t)' /\ Closable(t)'
  BY <1>1, <1>5, SocketKept, ClosableKept DEF PortInv
<1>6. Socket(s)' /\ Closable(s)'
  BY <1>1, <1>2, <1>3 DEF Socket, Closable, Launched
<1> QED
  BY <1>4, <1>5, <1>6 DEF PortInv

\* The published generation replaces one that has no listener any more.
LEMMA PublishPort ==
  ASSUME PortInv, IInv, NEW s \in Starts, Publish(s)
  PROVE  PortInv'
<1>1. /\ pc[s] = "bound" /\ pc'[s] = "hooks" /\ srv'[s] = "built" /\ current' = s
      /\ UNCHANGED <<lnOpen, taken, spc>>
      /\ \A t \in Starts : t # s => pc'[t] = pc[t] /\ srv'[t] = srv[t]
  BY DEF Publish, Goto, stopVars, IInv, TypeOK
<1>2. lnOpen[s] /\ \A t \in Starts : lnOpen[t] => t = s
  BY <1>1 DEF PortInv, Socket, OnePort, OneListener
<1>3. OnePort'
  BY <1>1, <1>2 DEF OnePort, OneListener
<1>4. ASSUME NEW t \in Starts, t # s PROVE Socket(t)' /\ Closable(t)'
  <2>1. Socket(t)'
    BY <1>1, <1>4, SocketKept DEF PortInv
  <2>2. Closable(t)'
    BY <1>1, <1>2, <1>4 DEF Closable
  <2> QED
    BY <2>1, <2>2
<1>5. Socket(s)' /\ Closable(s)'
  BY <1>1, <1>2 DEF Socket, Closable, Launched
<1> QED
  BY <1>3, <1>4, <1>5 DEF PortInv

\* A start that ends before or in its hooks closes its own listener.
LEMMA GiveUpPort ==
  ASSUME PortInv, IInv, NEW s \in Starts, Reject(s) \/ AbortClose(s)
  PROVE  PortInv'
<1>1. /\ pc[s] \in {"bound", "abort"} /\ pc'[s] = "failed" /\ ~lnOpen'[s]
      /\ UNCHANGED <<current, srv, taken, spc>>
      /\ \A t \in Starts : t # s => pc'[t] = pc[t] /\ lnOpen'[t] = lnOpen[t]
  BY DEF Reject, AbortClose, Goto, stopVars, IInv, TypeOK
<1>2. srv[s] \notin {"launched", "serving"}
  BY <1>1 DEF IInv, ServerState, Launched
<1>3. OnePort'
  BY <1>1 DEF PortInv, OnePort, OneListener
<1>4. ASSUME NEW t \in Starts, t # s PROVE Socket(t)' /\ Closable(t)'
  BY <1>1, <1>4, SocketKept, ClosableKept DEF PortInv
<1>5. Socket(s)'
  BY <1>1, <1>2 DEF PortInv, Socket, Launched
<1>6. Closable(s)'
  BY <1>1 DEF Closable
<1> QED
  BY <1>3, <1>4, <1>5, <1>6 DEF PortInv

\* Dropping the published state loses no other generation: only the aborting
\* one holds the port.
LEMMA AbortStartPort ==
  ASSUME PortInv, IInv, NEW s \in Starts, AbortStart(s)
  PROVE  PortInv'
<1>1. /\ pc[s] = "hooks" /\ pc'[s] = "abort" /\ current' = None
      /\ UNCHANGED <<lnOpen, srv, taken, spc>>
      /\ \A t \in Starts : t # s => pc'[t] = pc[t]
  BY DEF AbortStart, Goto, serveVars, stopVars, IInv, TypeOK
<1>2. lnOpen[s] /\ \A t \in Starts : lnOpen[t] => t = s
  BY <1>1 DEF PortInv, Socket, OnePort, OneListener
<1>3. OnePort'
  BY <1>1, <1>2 DEF OnePort, OneListener
<1>4. ASSUME NEW t \in Starts, t # s PROVE Socket(t)' /\ Closable(t)'
  <2>1. Socket(t)'
    BY <1>1, <1>4, SocketKept DEF PortInv
  <2>2. Closable(t)'
    BY <1>1, <1>2, <1>4 DEF Closable
  <2> QED
    BY <2>1, <2>2
<1>5. Socket(s)' /\ Closable(s)'
  BY <1>1, <1>2 DEF PortInv, Socket, Closable, Launched
<1> QED
  BY <1>3, <1>4, <1>5 DEF PortInv

LEMMA LaunchPort ==
  ASSUME PortInv, IInv, NEW s \in Starts, Launch(s)
  PROVE  PortInv'
<1>1. /\ pc[s] = "hooks" /\ pc'[s] = "launch"
      /\ UNCHANGED <<current, lnOpen, taken, spc>>
      /\ srv'[s] = (IF srv[s] = "built" THEN "launched" ELSE srv[s])
      /\ \A t \in Starts : t # s => pc'[t] = pc[t] /\ srv'[t] = srv[t]
  BY DEF Launch, Goto, stopVars, IInv, TypeOK
<1>2. srv[s] \in {"built", "refused"}
  BY <1>1 DEF IInv, TypeOK, SrvStates, ServerState, Launched
<1>3. OnePort'
  BY <1>1 DEF PortInv, OnePort, OneListener
<1>4. ASSUME NEW t \in Starts, t # s PROVE Socket(t)' /\ Closable(t)'
  BY <1>1, <1>4, SocketKept, ClosableKept DEF PortInv
<1>5. Socket(s)' /\ Closable(s)'
  BY <1>1, <1>2 DEF PortInv, Socket, Closable, Launched
<1> QED
  BY <1>3, <1>4, <1>5 DEF PortInv

\* A Start that reads a published generation while its listener is open reads
\* its own.
LEMMA ReadGracefulPort ==
  ASSUME PortInv, IInv, NEW s \in Starts, ReadGraceful(s)
  PROVE  PortInv'
<1>1. /\ pc[s] = "launch" /\ pc'[s] \in Answered \cup {"panicked"}
      /\ current = None => pc'[s] = "panicked"
      /\ UNCHANGED <<current, lnOpen, srv, taken, spc>>
      /\ \A t \in Starts : t # s => pc'[t] = pc[t]
  BY DEF ReadGraceful, Goto, serveVars, stopVars, IInv, TypeOK, Answered
<1>2. OnePort'
  BY <1>1 DEF PortInv, OnePort, OneListener, Answered
<1>3. ASSUME NEW t \in Starts, t # s PROVE Socket(t)' /\ Closable(t)'
  BY <1>1, <1>3, SocketKept, ClosableKept DEF PortInv
<1>4. Socket(s)'
  BY <1>1 DEF PortInv, Socket, Launched, Answered
<1>5. Closable(s)'
  BY <1>1 DEF PortInv, OnePort, OneListener, Closable
<1> QED
  BY <1>2, <1>3, <1>4, <1>5 DEF PortInv

\* The serve loop begins, refuses to begin, or breaks; in the last two cases
\* it closes the listener itself.
LEMMA ServePort ==
  ASSUME PortInv, IInv, NEW s \in Starts, ServeBegin(s) \/ ServeRefused(s) \/ ServeFail(s)
  PROVE  PortInv'
<1>1. /\ UNCHANGED <<current, pc, taken, spc>>
      /\ \A t \in Starts : t # s => srv'[t] = srv[t] /\ lnOpen'[t] = lnOpen[t]
      /\ \/ srv[s] = "launched" /\ srv'[s] = "serving" /\ lnOpen'[s] = lnOpen[s]
         \/ /\ srv[s] = "refused" /\ srv'[s] = "stopped" /\ ~lnOpen'[s]
            /\ pc[s] \notin {"hooks", "abort", "failed"}
         \/ srv[s] = "serving" /\ srv'[s] = "broken" /\ ~lnOpen'[s]
  BY DEF ServeBegin, ServeRefused, ServeFail, startVars, stopVars, IInv, TypeOK
<1>2. pc[s] \notin {"idle", "bound"} /\ (srv[s] \in {"launched", "serving"} => Launched(s))
  BY <1>1 DEF IInv, ServerState
<1>3. OnePort'
  BY <1>1 DEF PortInv, OnePort, OneListener
<1>4. ASSUME NEW t \in Starts, t # s PROVE Socket(t)' /\ Closable(t)'
  BY <1>1, <1>4, SocketKept, ClosableKept DEF PortInv
<1>5. Socket(s)'
  BY <1>1, <1>2 DEF PortInv, Socket, Launched
<1>6. Closable(s)'
  BY <1>1 DEF PortInv, Closable
<1> QED
  BY <1>3, <1>4, <1>5, <1>6 DEF PortInv

\* Shutdown takes the published generation over, its listener included.
LEMMA TakePort ==
  ASSUME PortInv, IInv, NEW c \in Closers, Take(c)
  PROVE  PortInv'
<1>1. /\ spc[c] = "idle" /\ taken'[c] = current /\ current' = None
      /\ spc'[c] = (IF current = None THEN "done" ELSE "flip")
      /\ UNCHANGED <<pc, lnOpen, srv>>
      /\ \A d \in Closers : d # c => taken'[d] = taken[d] /\ spc'[d] = spc[d]
  BY DEF Take, StopGoto, startVars, serveVars, IInv, TypeOK
<1>2. \A d \in Closers : spc[d] \in Before \cup After => d # c
  BY <1>1 DEF Before, After
<1>3. OnePort'
  BY <1>1 DEF PortInv, OnePort, OneListener
<1>4. ASSUME NEW s \in Starts PROVE Socket(s)' /\ Closable(s)'
  <2>1. s = current => taken'[c] = s /\ spc'[c] \in Before
    BY <1>1, ConstantsAssumption DEF Before
  <2> QED
    BY <1>1, <1>2, <2>1, SocketKept, ClosableKept DEF PortInv
<1> QED
  BY <1>3, <1>4 DEF PortInv

\* srv.Shutdown closes the listener of a serving server and leaves that of one
\* that has not begun to its serve loop.
LEMMA SrvShutdownPort ==
  ASSUME PortInv, IInv, NEW c \in Closers, SrvShutdown(c)
  PROVE  PortInv'
<1>1. taken[c] # None /\ taken[c] \in Starts \cup {None}
  BY DEF IInv, TypeOK, Ownership, SrvShutdown, StopGoto
<1>2. PICK s \in Starts : s = taken[c]
  BY <1>1
<1>3. /\ spc[c] = "close" /\ spc'[c] = "await"
      /\ UNCHANGED <<current, pc, taken>>
      /\ \A t \in Starts : t # s => srv'[t] = srv[t] /\ lnOpen'[t] = lnOpen[t]
      /\ \A d \in Closers : d # c => spc'[d] = spc[d]
      /\ srv'[s] = (CASE srv[s] \in {"built", "launched"} -> "refused"
                      [] srv[s] = "serving" -> "stopped"
                      [] OTHER -> srv[s])
      /\ lnOpen'[s] = (lnOpen[s] /\ srv[s] # "serving")
  BY <1>2 DEF SrvShutdown, StopGoto, startVars, IInv, TypeOK
<1>4. srv[s] \in SrvStates /\ srv[s] # "none" /\ pc[s] \notin {"idle", "bound"}
  BY <1>2 DEF IInv, TypeOK, ServerState, Ownership
<1>5. \A d \in Closers : taken[d] = s => d = c
  BY <1>1, <1>2 DEF IInv, Ownership
<1>6. OnePort'
  BY <1>3 DEF PortInv, OnePort, OneListener
<1>7. ASSUME NEW t \in Starts, t # s PROVE Socket(t)' /\ Closable(t)'
  BY <1>2, <1>3, <1>7, SocketKept, ClosableKept DEF PortInv
<1>8. srv[s] = "serving" => Launched(s)
  BY DEF IInv, ServerState
<1>9. Socket(s)'
  <2>1. taken'[c] = s /\ spc'[c] \in After
    BY <1>2, <1>3 DEF After
  <2>2. CASE srv[s] \in {"built", "launched"}
    BY <1>3, <2>1, <2>2 DEF PortInv, Socket, Launched
  <2>3. CASE srv[s] = "serving"
    BY <1>3, <1>8, <2>3 DEF PortInv, Socket, Launched
  <2>4. CASE srv[s] \in {"refused", "stopped", "broken"}
    BY <1>3, <2>1, <2>4 DEF PortInv, Socket, Launched
  <2> QED
    BY <1>4, <2>2, <2>3, <2>4 DEF SrvStates
<1>10. Closable(s)'
  BY <1>3, <1>4 DEF PortInv, Socket, Closable, SrvStates
<1> QED
  BY <1>6, <1>7, <1>9, <1>10 DEF PortInv

LEMMA PortInit == Init => PortInv
BY DEF Init, PortInv, OnePort, OneListener, Socket, Closable, Launched

LEMMA PortNext ==
  ASSUME OneListener', IInv, PortInv, [Next]_vars
  PROVE  PortInv'
<1>1. ASSUME NEW s \in Starts, StartStep(s) PROVE PortInv'
  <2>1. StartHook(s) => UNCHANGED <<current, pc, lnOpen, srv, taken, spc>>
    BY DEF StartHook, serveVars, stopVars
  <2> QED
    BY <1>1, <2>1, PortFrame, ListenPort, PublishPort, GiveUpPort, AbortStartPort, LaunchPort,
       ReadGracefulPort DEF StartStep
<1>2. ASSUME NEW s \in Starts, WatcherStep(s) \/ RequestBegin(s) \/ RequestEnd(s) PROVE PortInv'
  BY <1>2, PortFrame DEF WatcherStep, WatcherPeek, WatcherSelect, RequestBegin, RequestEnd, startVars, stopVars
<1>3. ASSUME NEW s \in Starts, ServeBegin(s) \/ ServeRefused(s) \/ ServeFail(s) PROVE PortInv'
  BY <1>3, ServePort
<1>4. ASSUME NEW s \in Runs, RunStep(s) PROVE PortInv'
  <2>1. s \in Starts
    BY ConstantsAssumption
  <2>2. /\ pc[s] \in Answered /\ UNCHANGED <<current, lnOpen, srv, taken, spc>>
        /\ \E to \in Answered : pc' = [pc EXCEPT ![s] = to]
    BY <1>4 DEF RunStep, RunServeOutcome, RunSignalled, RunReturn, Goto, serveVars, stopVars, Answered
  <2> QED
    BY <2>1, <2>2, PortAnswered
<1>5. ASSUME NEW c \in Closers, StopStep(c) PROVE PortInv'
  <2>1. CASE DrainHook(c) \/ ShutdownHook(c)
    BY <2>1, PortFrame DEF DrainHook, ShutdownHook, StopHook, startVars, serveVars
  <2>2. CASE SrvShutdown(c)
    BY <2>2, SrvShutdownPort
  <2>3. CASE \/ ReadyFlip(c) \/ DrainHooksDone(c) \/ DrainWait(c)
             \/ SrvShutdownReturn(c) \/ CloseGraceful(c) \/ ShutdownReturn(c)
    <3>1. /\ UNCHANGED <<current, pc, lnOpen, srv, taken>>
          /\ \E to : /\ spc' = [spc EXCEPT ![c] = to]
                     /\ \/ spc[c] \in Before /\ to \in Before
                        \/ spc[c] \in After /\ to \in After
      BY <2>3 DEF ReadyFlip, DrainHooksDone, DrainWait, SrvShutdownReturn, CloseGraceful, ShutdownReturn,
                  StopGoto, startVars, serveVars, Before, After
    <3> QED
      BY <3>1, PortAdvance
  <2> QED
    BY <1>5, <2>1, <2>2, <2>3 DEF StopStep
<1>6. ASSUME NEW c \in Closers, Take(c) PROVE PortInv'
  BY <1>6, TakePort
<1>7. ASSUME NEW c \in Closers, Expire(c) PROVE PortInv'
  BY <1>7, PortFrame DEF Expire, startVars, serveVars
<1>8. CASE Signal \/ UNCHANGED vars
  BY <1>8, PortFrame DEF Signal, vars, startVars, serveVars, stopVars
<1> QED
  BY <1>1, <1>2, <1>3, <1>4, <1>5, <1>6, <1>7, <1>8 DEF Next, EnvStep

-----------------------------------------------------------------------------
(* The outcome of a Start and of a Shutdown, on a fixed port *)

\* The channel Start returned is resolved once, by the one send of the watcher,
\* and a watcher that waits for another generation belongs to a server that is
\* already down.
Outcome(s) ==
  /\ raw[s] => srv[s] = "broken"
  /\ watcher[s] # "none" => pc[s] \in Answered /\ watch[s] \in Starts
  /\ watcher[s] # "sent" => errCh[s] = <<>>
  /\ errCh[s] \in {<<>>, <<"nil">>, <<"error">>}
  /\ errCh[s] = <<"nil">> => srv[s] \in {"stopped", "refused", "broken"}
  /\ errCh[s] = <<"error">> => srv[s] = "broken"
  /\ watch[s] \notin {s, None} => srv[s] \in {"stopped", "refused", "broken"}

\* A Shutdown that reports success has waited for the requests.
Drained(c) ==
  spc[c] \in {"release", "hooks", "done"} /\ taken[c] # None /\ result[c] = "ok" =>
    inflight[taken[c]] = 0

OutcomeInv == (\A s \in Starts : Outcome(s)) /\ (\A c \in Closers : Drained(c))

\* A step that sends nothing and brings no server up again.
LEMMA OutcomeKept ==
  ASSUME NEW s \in Starts, Outcome(s),
         raw'[s] = raw[s], watcher'[s] = watcher[s], errCh'[s] = errCh[s], watch'[s] = watch[s],
         pc[s] \in Answered => pc'[s] \in Answered,
         srv[s] = "broken" => srv'[s] = "broken",
         srv[s] \in {"stopped", "refused", "broken"} => srv'[s] \in {"stopped", "refused", "broken"}
  PROVE  Outcome(s)'
BY DEF Outcome

LEMMA DrainedKept ==
  ASSUME NEW c \in Closers, Drained(c),
         spc'[c] = spc[c], taken'[c] = taken[c],
         result'[c] = "ok" => result[c] = "ok",
         taken[c] # None /\ inflight[taken[c]] = 0 => inflight'[taken[c]] = 0
  PROVE  Drained(c)'
BY DEF Drained

\* Closing graceful is the work of a Shutdown that has stopped the server.
LEMMA ClosedIsDown ==
  ASSUME IInv, NEW s \in Starts, graceful[s] > 0
  PROVE  srv[s] \in {"stopped", "refused", "broken"}
BY InvDrainSequence DEF DrainSequence

\* The watcher that a Start call spawns waits for its own generation, unless
\* its server is already down.
LEMMA WatchOwn ==
  ASSUME PortInv, NEW s \in Starts, pc[s] = "launch", current # s, current # None,
         srv[s] \in SrvStates
  PROVE  srv[s] \in {"stopped", "refused", "broken"}
<1>1. ~lnOpen[s]
  BY DEF PortInv, OnePort, OneListener
<1>2. srv[s] \notin {"launched", "serving", "none", "built"}
  BY <1>1 DEF PortInv, Socket, Launched
<1> QED
  BY <1>2 DEF SrvStates

LEMMA OutcomeInit == Init => OutcomeInv
<1> SUFFICES ASSUME Init PROVE OutcomeInv
  OBVIOUS
<1>1. \A s \in Starts : /\ raw[s] = FALSE /\ watcher[s] = "none" /\ errCh[s] = <<>>
                        /\ watch[s] = None
  BY DEF Init
<1>2. \A c \in Closers : spc[c] = "idle"
  BY DEF Init
<1> QED
  BY <1>1, <1>2 DEF OutcomeInv, Outcome, Drained

\* Steps of Start up to the launch, and of Run.
LEMMA StartOutcome ==
  ASSUME IInv, OutcomeInv, NEW s \in Starts,
         \/ Listen(s) \/ Publish(s) \/ Reject(s) \/ StartHook(s)
         \/ AbortStart(s) \/ AbortClose(s) \/ Launch(s)
         \/ s \in Runs /\ RunStep(s)
  PROVE  OutcomeInv'
<1>1. UNCHANGED <<raw, inflight, chanVars, stopVars>>
  BY DEF Listen, Publish, Reject, StartHook, AbortStart, AbortClose, Launch,
     RunStep, RunServeOutcome, RunSignalled, RunReturn, serveVars
<1>2. /\ pc[s] \in Answered => pc'[s] \in Answered
      /\ \A t \in Starts : t # s => pc'[t] = pc[t] /\ srv'[t] = srv[t]
      /\ srv[s] \in {"stopped", "refused", "broken"} => srv'[s] = srv[s] \/ pc[s] = "bound"
  BY DEF Listen, Publish, Reject, StartHook, AbortStart, AbortClose, Launch,
     RunStep, RunServeOutcome, RunSignalled, RunReturn, serveVars, Goto, IInv, TypeOK, Answered
<1>3. pc[s] = "bound" => srv[s] = "none"
  BY DEF IInv, ServerState
<1>4. \A t \in Starts : Outcome(t)'
  BY <1>1, <1>2, <1>3, OutcomeKept DEF OutcomeInv, chanVars
<1>5. \A c \in Closers : Drained(c)'
  BY <1>1, DrainedKept DEF OutcomeInv, stopVars
<1> QED
  BY <1>4, <1>5 DEF OutcomeInv

LEMMA ReadGracefulOutcome ==
  ASSUME PortInv, IInv, OutcomeInv, NEW s \in Starts, ReadGraceful(s)
  PROVE  OutcomeInv'
<1>1. /\ pc[s] = "launch" /\ UNCHANGED <<srv, raw, inflight, errCh, stopVars>>
      /\ \A t \in Starts : t # s => pc'[t] = pc[t] /\ watch'[t] = watch[t] /\ watcher'[t] = watcher[t]
      /\ \/ watch' = watch /\ watcher' = watcher
         \/ /\ current # None /\ watch'[s] = current /\ watcher'[s] = "peek"
            /\ pc'[s] \in Answered
  BY DEF ReadGraceful, Goto, serveVars, IInv, TypeOK, Answered
<1>2. ASSUME NEW t \in Starts, t # s PROVE Outcome(t)'
  BY <1>1, <1>2, OutcomeKept DEF OutcomeInv
<1>3. watcher[s] = "none" /\ errCh[s] = <<>>
  BY <1>1 DEF OutcomeInv, Outcome, Answered
<1>4. srv[s] \in SrvStates /\ current \in Starts \cup {None}
  BY DEF IInv, TypeOK
<1>5. ASSUME watch' = watch, watcher' = watcher PROVE Outcome(s)'
  <2>1. watcher'[s] = "none" /\ watch'[s] = watch[s]
    BY <1>3, <1>5
  <2>2. Outcome(s)
    BY DEF OutcomeInv
  <2> QED
    BY <1>1, <1>3, <2>1, <2>2 DEF Outcome
<1>6. ASSUME current # None, watch'[s] = current, watcher'[s] = "peek", pc'[s] \in Answered
      PROVE  Outcome(s)'
  <2>1. watch'[s] # s => srv[s] \in {"stopped", "refused", "broken"}
    BY <1>1, <1>4, <1>6, WatchOwn
  <2>2. Outcome(s)
    BY DEF OutcomeInv
  <2> QED
    BY <1>1, <1>3, <1>4, <1>6, <2>1, <2>2 DEF Outcome
<1>7. \A c \in Closers : Drained(c)'
  BY <1>1, DrainedKept DEF OutcomeInv, stopVars
<1>8. Outcome(s)'
  BY <1>1, <1>5, <1>6
<1> QED
  BY <1>2, <1>7, <1>8 DEF OutcomeInv

\* The watcher sends the error of a broken serve loop, or nil once graceful of
\* the generation it waits for is closed.
LEMMA WatcherOutcome ==
  ASSUME IInv, OutcomeInv, NEW s \in Starts, WatcherStep(s)
  PROVE  OutcomeInv'
<1>1. /\ watcher[s] \in {"peek", "select"} /\ UNCHANGED <<pc, srv, inflight, watch, stopVars>>
      /\ \A t \in Starts : t # s => watcher'[t] = watcher[t] /\ errCh'[t] = errCh[t] /\ raw'[t] = raw[t]
      /\ \/ watcher'[s] = "select" /\ errCh'[s] = errCh[s] /\ raw'[s] = raw[s]
         \/ watcher'[s] = "sent" /\ errCh'[s] = Append(errCh[s], "error") /\ raw[s] /\ ~raw'[s]
         \/ /\ watcher'[s] = "sent" /\ errCh'[s] = Append(errCh[s], "nil") /\ raw'[s] = raw[s]
            /\ graceful[watch[s]] > 0
  BY DEF WatcherStep, WatcherPeek, WatcherSelect, Send, startVars, IInv, TypeOK
<1>2. errCh[s] = <<>> /\ watch[s] \in Starts /\ pc[s] \in Answered
  BY <1>1 DEF OutcomeInv, Outcome
<1>3. graceful[watch[s]] > 0 => srv[s] \in {"stopped", "refused", "broken"}
  <2>1. CASE watch[s] = s
    BY <2>1, ClosedIsDown
  <2>2. CASE watch[s] # s
    BY <1>2, <2>2, ConstantsAssumption DEF OutcomeInv, Outcome
  <2> QED
    BY <2>1, <2>2
<1>4. ASSUME NEW t \in Starts, t # s PROVE Outcome(t)'
  BY <1>1, <1>4, OutcomeKept DEF OutcomeInv
<1>5. Append(<<>>, "error") = <<"error">> /\ Append(<<>>, "nil") = <<"nil">>
  OBVIOUS
<1>6. <<"error">> # <<"nil">> /\ <<"error">> # <<>> /\ <<"nil">> # <<>>
  OBVIOUS
<1>7. Outcome(s)'
  BY <1>1, <1>2, <1>3, <1>5, <1>6 DEF OutcomeInv, Outcome
<1>8. \A c \in Closers : Drained(c)'
  BY <1>1, DrainedKept DEF OutcomeInv, stopVars
<1> QED
  BY <1>4, <1>7, <1>8 DEF OutcomeInv

\* Requests begin on a serving server only, and none is served behind a
\* Shutdown that waited for them.
LEMMA EnvOutcome ==
  ASSUME IInv, OutcomeInv, NEW s \in Starts, EnvStep(s)
  PROVE  OutcomeInv'
<1>1. /\ UNCHANGED <<pc, watcher, errCh, watch, stopVars>>
      /\ \A t \in Starts : t # s => srv'[t] = srv[t] /\ raw'[t] = raw[t] /\ inflight'[t] = inflight[t]
      /\ \/ srv'[s] = srv[s] /\ raw'[s] = raw[s]
         \/ srv[s] = "launched" /\ srv'[s] = "serving" /\ raw'[s] = raw[s]
         \/ srv[s] = "refused" /\ srv'[s] = "stopped" /\ raw'[s] = raw[s]
         \/ srv[s] = "serving" /\ srv'[s] = "broken"
      /\ inflight[s] = 0 /\ srv[s] # "serving" => inflight'[s] = 0
  BY DEF EnvStep, ServeBegin, ServeRefused, ServeFail, RequestBegin, RequestEnd, startVars, chanVars,
     IInv, TypeOK
<1>2. ASSUME NEW t \in Starts, t # s PROVE Outcome(t)'
  BY <1>1, <1>2, OutcomeKept DEF OutcomeInv
<1>3. Outcome(s)'
  BY <1>1 DEF OutcomeInv, Outcome
<1>4. ASSUME NEW c \in Closers PROVE Drained(c)'
  <2>1. CASE taken[c] = s /\ spc[c] \in {"release", "hooks", "done"}
    <3>1. srv[s] # "serving"
      BY <2>1 DEF IInv, StopProgress, Progress
    <3> QED
      BY <1>1, <2>1, <3>1 DEF OutcomeInv, Drained, stopVars
  <2>2. CASE taken[c] # s \/ spc[c] \notin {"release", "hooks", "done"}
    <3>1. taken[c] \in Starts \cup {None}
      BY DEF IInv, TypeOK
    <3> QED
      BY <1>1, <2>2, <3>1 DEF OutcomeInv, Drained, stopVars
  <2> QED
    BY <2>1, <2>2
<1> QED
  BY <1>2, <1>3, <1>4 DEF OutcomeInv

\* Shutdown calls send nothing, and bring servers down only; only the return of
\* srv.Shutdown lets one pass with its result untouched.
LEMMA StopOutcome ==
  ASSUME IInv, OutcomeInv, NEW c \in Closers, Take(c) \/ StopStep(c) \/ Expire(c)
  PROVE  OutcomeInv'
<1>1. UNCHANGED <<pc, raw, watcher, errCh, watch, inflight>>
  BY DEF Take, StopStep, Expire, ReadyFlip, DrainHook, ShutdownHook, StopHook, DrainHooksDone, DrainWait,
     SrvShutdown, SrvShutdownReturn, CloseGraceful, ShutdownReturn, startVars, serveVars, chanVars
<1>2. \A t \in Starts : /\ srv[t] = "broken" => srv'[t] = "broken"
                        /\ srv[t] \in {"stopped", "refused", "broken"} =>
                             srv'[t] \in {"stopped", "refused", "broken"}
  <2>1. CASE SrvShutdown(c)
    BY <2>1 DEF SrvShutdown, IInv, TypeOK
  <2>2. CASE ~SrvShutdown(c)
    BY <2>2 DEF Take, StopStep, Expire, ReadyFlip, DrainHook, ShutdownHook, StopHook, DrainHooksDone,
       DrainWait, SrvShutdownReturn, CloseGraceful, ShutdownReturn, serveVars
  <2> QED
    BY <2>1, <2>2
<1>3. \A t \in Starts : Outcome(t)'
  BY <1>1, <1>2, OutcomeKept DEF OutcomeInv
<1>4. /\ \A d \in Closers : d # c => spc'[d] = spc[d] /\ taken'[d] = taken[d] /\ result'[d] = result[d]
      /\ result'[c] = "ok" => result[c] = "ok"
  <2>1. CASE Take(c) \/ Expire(c)
    BY <2>1 DEF Take, Expire, StopGoto, IInv, TypeOK
  <2>2. CASE DrainHook(c) \/ ShutdownHook(c)
    BY <2>2 DEF DrainHook, ShutdownHook, StopHook, IInv, TypeOK
  <2>3. CASE SrvShutdownReturn(c)
    BY <2>3 DEF SrvShutdownReturn, StopGoto, IInv, TypeOK
  <2>4. CASE \/ ReadyFlip(c) \/ DrainHooksDone(c) \/ DrainWait(c) \/ SrvShutdown(c)
             \/ CloseGraceful(c) \/ ShutdownReturn(c)
    BY <2>4 DEF ReadyFlip, DrainHooksDone, DrainWait, SrvShutdown, CloseGraceful, ShutdownReturn,
       StopGoto, IInv, TypeOK
  <2> QED
    BY <2>1, <2>2, <2>3, <2>4 DEF StopStep
<1>5. \/ spc'[c] \notin {"release", "hooks", "done"}
      \/ taken'[c] = None
      \/ spc[c] \in {"release", "hooks", "done"} /\ taken'[c] = taken[c]
      \/ taken'[c] = taken[c] /\ (inflight[taken[c]] = 0 \/ result'[c] = "error")
  <2>1. CASE Take(c)
    BY <2>1 DEF Take, StopGoto, IInv, TypeOK
  <2>2. CASE Expire(c) \/ DrainHook(c) \/ ShutdownHook(c)
    BY <2>2 DEF Expire, DrainHook, ShutdownHook, StopHook
  <2>3. CASE SrvShutdownReturn(c)
    BY <2>3 DEF SrvShutdownReturn, StopGoto, IInv, TypeOK
  <2>4. CASE \/ ReadyFlip(c) \/ DrainHooksDone(c) \/ DrainWait(c) \/ SrvShutdown(c)
             \/ CloseGraceful(c) \/ ShutdownReturn(c)
    BY <2>4 DEF ReadyFlip, DrainHooksDone, DrainWait, SrvShutdown, CloseGraceful, ShutdownReturn,
       StopGoto, IInv, TypeOK
  <2> QED
    BY <2>1, <2>2, <2>3, <2>4 DEF StopStep
<1>6. ASSUME NEW d \in Closers, d # c PROVE Drained(d)'
  BY <1>1, <1>4, <1>6, DrainedKept DEF OutcomeInv
<1>7. Drained(c)'
  BY <1>1, <1>4, <1>5 DEF OutcomeInv, Drained
<1> QED
  BY <1>3, <1>6, <1>7 DEF OutcomeInv

LEMMA OutcomeNext ==
  ASSUME IInv, PortInv, OutcomeInv, [Next]_vars
  PROVE  OutcomeInv'
<1>1. CASE Signal \/ UNCHANGED vars
  <2>1. UNCHANGED <<pc, srv, raw, watcher, errCh, watch, inflight, spc, taken, result>>
    BY <1>1 DEF Signal, vars, startVars, serveVars, chanVars, stopVars
  <2>2. \A s \in Starts : Outcome(s)'
    BY <2>1, OutcomeKept DEF OutcomeInv
  <2>3. \A c \in Closers : Drained(c)'
    BY <2>1, DrainedKept DEF OutcomeInv
  <2> QED
    BY <2>2, <2>3 DEF OutcomeInv
<1>2. ASSUME NEW s \in Starts, StartStep(s) \/ WatcherStep(s) \/ EnvStep(s) PROVE OutcomeInv'
  BY <1>2, StartOutcome, ReadGracefulOutcome, WatcherOutcome, EnvOutcome DEF StartStep
<1>3. ASSUME NEW s \in Runs, RunStep(s) PROVE OutcomeInv'
  BY <1>3, StartOutcome, ConstantsAssumption
<1>4. ASSUME NEW c \in Closers, Take(c) \/ StopStep(c) \/ Expire(c) PROVE OutcomeInv'
  BY <1>4, StopOutcome
<1> QED
  BY <1>1, <1>2, <1>3, <1>4 DEF Next

-----------------------------------------------------------------------------
\* As long as no two listeners are open the three invariants hold together, for
\* any number of calls.
LEMMA OnePortHolds == Spec /\ []OneListener => [](IInv /\ PortInv /\ OutcomeInv)
<1>1. Init => IInv /\ PortInv /\ OutcomeInv
  BY InitInv, PortInit, OutcomeInit
<1>2. IInv /\ PortInv /\ OutcomeInv /\ OneListener' /\ [Next]_vars => IInv' /\ PortInv' /\ OutcomeInv'
  BY NextInv, PortNext, OutcomeNext
<1> QED
  BY <1>1, <1>2, PTL DEF Spec

\* net.Listen: a second listener on a fixed port is refused.
LEMMA FixedPort ==
  ASSUME FixedAddr
  PROVE  Spec => []OneListener
<1>1. Init => OneListener
  BY DEF Init, OneListener
<1>2. ASSUME TypeOK, OneListener, [Next]_vars PROVE OneListener'
  <2>1. ASSUME NEW s \in Starts, Listen(s) PROVE OneListener'
    <3>1. lnOpen \in [Starts -> BOOLEAN]
      BY <1>2 DEF TypeOK
    <3>2. \A t \in Starts \ {s} : lnOpen'[t] = lnOpen[t]
      BY <2>1, <3>1 DEF Listen
    <3>3. lnOpen'[s] => lnOpen[s] \/ \A t \in Starts : ~lnOpen[t]
      BY <2>1, <3>1 DEF Listen
    <3> QED
      BY <1>2, <3>2, <3>3 DEF OneListener
  <2>2. CASE \A s \in Starts : lnOpen'[s] => lnOpen[s]
    BY <1>2, <2>2 DEF OneListener
  <2>3. ASSUME NEW s \in Starts, StartStep(s), ~Listen(s) PROVE \A t \in Starts : lnOpen'[t] => lnOpen[t]
    BY <1>2, <2>3 DEF StartStep, Publish, Reject, StartHook, AbortStart, AbortClose, Launch, ReadGraceful,
       serveVars, TypeOK
  <2>4. ASSUME NEW s \in Starts, WatcherStep(s) \/ EnvStep(s) PROVE \A t \in Starts : lnOpen'[t] => lnOpen[t]
    BY <1>2, <2>4 DEF WatcherStep, WatcherPeek, WatcherSelect, EnvStep, ServeBegin, ServeRefused, ServeFail,
       RequestBegin, RequestEnd, serveVars, TypeOK
  <2>5. ASSUME NEW s \in Runs, RunStep(s) PROVE \A t \in Starts : lnOpen'[t] => lnOpen[t]
    BY <1>2, <2>5 DEF RunStep, RunServeOutcome, RunSignalled, RunReturn, serveVars
  <2>6. ASSUME NEW c \in Closers, Take(c) \/ StopStep(c) \/ Expire(c)
        PROVE  \A t \in Starts : lnOpen'[t] => lnOpen[t]
    <3>1. CASE SrvShutdown(c)
      BY <1>2, <3>1 DEF SrvShutdown, TypeOK
    <3>2. CASE ~SrvShutdown(c)
      BY <2>6, <3>2 DEF Take, StopStep, Expire, ReadyFlip, DrainHook, DrainHooksDone, DrainWait, SrvShutdownReturn,
         CloseGraceful, ShutdownHook, ShutdownReturn, StopHook, serveVars
    <3> QED
      BY <3>1, <3>2
  <2>7. CASE Signal \/ UNCHANGED vars
    BY <1>2, <2>7 DEF Signal, vars, serveVars, OneListener
  <2> QED
    BY <1>2, <2>1, <2>2, <2>3, <2>4, <2>5, <2>6, <2>7 DEF Next
<1> QED
  BY <1>1, <1>2, TypeCorrect, PTL DEF Spec

\* A listener that is open has an owner that is bound to close it, however
\* Start, Run and Shutdown calls overtake each other, unless a Start on ":0"
\* opened a second one.
THEOREM NoLoneListenerLeaks == Spec /\ []OneListener => []ListenerNeverLeaks
<1>1. PortInv => ListenerNeverLeaks
  BY DEF PortInv, Closable, ListenerNeverLeaks, Before
<1> QED
  BY <1>1, OnePortHolds, PTL

\* On a fixed port no listener leaks, whatever calls of Start there are.
THEOREM NoListenerLeaks ==
  ASSUME FixedAddr
  PROVE  Spec => []ListenerNeverLeaks
BY FixedPort, NoLoneListenerLeaks, PTL

\* The channel Start returned gets one value, which tells what happened to the
\* server, and a Shutdown that returned nil left no request, unless a second
\* listener was open.
THEOREM LoneOutcomeTold == Spec /\ []OneListener => []OutcomeFaithful
<1>1. OutcomeInv => OutcomeFaithful
  <2> SUFFICES ASSUME OutcomeInv PROVE OutcomeFaithful
    OBVIOUS
  <2>1. Len(<<>>) = 0 /\ Len(<<"nil">>) = 1 /\ Len(<<"error">>) = 1
    OBVIOUS
  <2>2. ASSUME NEW s \in Starts
        PROVE  /\ Len(errCh[s]) <= 1
               /\ errCh[s] = <<"nil">> => srv[s] \in {"stopped", "refused", "broken"}
               /\ errCh[s] = <<"error">> => srv[s] = "broken"
    <3>1. Outcome(s)
      BY DEF OutcomeInv
    <3>2. errCh[s] \in {<<>>, <<"nil">>, <<"error">>}
      BY <3>1 DEF Outcome
    <3>3. Len(errCh[s]) <= 1
      <4>1. CASE errCh[s] = <<>>
        BY <4>1
      <4>2. CASE errCh[s] = <<"nil">>
        BY <4>2
      <4>3. CASE errCh[s] = <<"error">>
        BY <4>3
      <4> QED
        BY <3>2, <4>1, <4>2, <4>3
    <3> QED
      BY <3>1, <3>3 DEF Outcome
  <2>3. ASSUME NEW c \in Closers PROVE Drained(c)
    BY DEF OutcomeInv
  <2> QED
    BY <2>2, <2>3 DEF Drained, OutcomeFaithful
<1> QED
  BY <1>1, OnePortHolds, PTL

\* On a fixed port outcomes are told faithfully, whatever calls there are.
THEOREM OutcomeTold ==
  ASSUME FixedAddr
  PROVE  Spec => []OutcomeFaithful
BY FixedPort, LoneOutcomeTold, PTL

-----------------------------------------------------------------------------
(* The refinement of ServiceContract, one listener at a time *)

\* The variables of the contract, per generation.
DrainingOf(s) == \E c \in Closers : taken[c] = s /\ spc[c] \notin {"idle", "flip"}
OutcomeOf(s)  == IF errCh[s] = <<>> THEN "none" ELSE Head(errCh[s])

\* The phase of a generation, read off its server, its listener and its call.
Phased(s) ==
  /\ srv[s] = "serving" => PhaseOf(s) = "serving"
  /\ srv[s] = "broken" /\ ~lnOpen[s] => PhaseOf(s) = "broken"
  /\ srv[s] \notin {"serving", "broken"} /\ lnOpen[s] => PhaseOf(s) = "bound"
  /\ srv[s] \notin {"serving", "broken"} /\ ~lnOpen[s] /\ pc[s] # "idle" => PhaseOf(s) = "stopped"
  /\ srv[s] \notin {"serving", "broken"} /\ ~lnOpen[s] /\ pc[s] = "idle" => PhaseOf(s) = "idle"

LEMMA PhaseNow == ASSUME NEW s \in Starts PROVE Phased(s)
BY DEF Phased, PhaseOf

LEMMA PhaseNext == ASSUME NEW s \in Starts PROVE Phased(s)'
BY DEF Phased, PhaseOf

LEMMA PhaseKept ==
  ASSUME NEW s \in Starts, srv'[s] = srv[s], lnOpen'[s] = lnOpen[s], pc'[s] = "idle" <=> pc[s] = "idle"
  PROVE  PhaseOf(s)' = PhaseOf(s)
BY DEF PhaseOf

\* A step of one generation, in the variables of the contract.
LEMMA ContractStutter ==
  ASSUME ready' = ready,
         \A s \in Starts : PhaseOf(s)' = PhaseOf(s) /\ DrainingOf(s)' = DrainingOf(s)
                           /\ OutcomeOf(s)' = OutcomeOf(s)
  PROVE  UNCHANGED Contract!vars
BY DEF Contract!vars, DrainingOf, OutcomeOf

LEMMA ContractMove ==
  ASSUME NEW s \in Starts, NEW from, NEW to, PhaseOf(s) \in from, PhaseOf(s)' = to,
         \A t \in Starts : t # s => PhaseOf(t)' = PhaseOf(t)
  PROVE  Contract!Move(s, from, to)
BY DEF Contract!Move

\* What a step does to a phase that is all of the contract it changes.
LEMMA ContractPhase ==
  ASSUME UNCHANGED <<ready, errCh, spc, taken>>,
         NEW s \in Starts,
         \A t \in Starts : t # s => PhaseOf(t)' = PhaseOf(t),
         \/ PhaseOf(s)' = PhaseOf(s)
         \/ PhaseOf(s) = "idle" /\ PhaseOf(s)' = "bound" /\ \A t \in Starts : ~lnOpen[t] /\ srv[t] # "serving"
         \/ PhaseOf(s) \in {"idle", "bound"} /\ PhaseOf(s)' = "stopped"
         \/ PhaseOf(s) = "bound" /\ PhaseOf(s)' = "serving"
         \/ PhaseOf(s) = "serving" /\ PhaseOf(s)' = "broken"
  PROVE  [Contract!Next]_Contract!vars
<1>1. \A t \in Starts : DrainingOf(t)' = DrainingOf(t) /\ OutcomeOf(t)' = OutcomeOf(t)
  BY DEF DrainingOf, OutcomeOf
<1>2. /\ [t \in Starts |-> \E c \in Closers : taken[c] = t /\ spc[c] \notin {"idle", "flip"}]'
           = [t \in Starts |-> \E c \in Closers : taken[c] = t /\ spc[c] \notin {"idle", "flip"}]
      /\ [t \in Starts |-> IF errCh[t] = <<>> THEN "none" ELSE Head(errCh[t])]'
           = [t \in Starts |-> IF errCh[t] = <<>> THEN "none" ELSE Head(errCh[t])]
  BY <1>1 DEF DrainingOf, OutcomeOf
<1>3. CASE PhaseOf(s)' = PhaseOf(s)
  <2>1. UNCHANGED Contract!vars
    BY <1>1, <1>3, ContractStutter
  <2> QED
    BY <2>1
<1>4. CASE PhaseOf(s) = "idle" /\ PhaseOf(s)' = "bound" /\ \A t \in Starts : ~lnOpen[t] /\ srv[t] # "serving"
  <2>1. Contract!Move(s, {"idle"}, "bound")
    BY <1>4, ContractMove
  <2>2. ASSUME NEW t \in Starts PROVE PhaseOf(t) \notin {"bound", "serving"}
    BY <1>4, PhaseNow DEF Phased, PhaseOf
  <2>3. Contract!Bind(s)
    BY <1>2, <2>1, <2>2 DEF Contract!Bind, Contract!HoldsPort
  <2> QED
    BY <2>3 DEF Contract!Next
<1>5. CASE PhaseOf(s) \in {"idle", "bound"} /\ PhaseOf(s)' = "stopped"
  <2>1. Contract!Move(s, {"idle", "bound"}, "stopped")
    BY <1>5, ContractMove
  <2>2. Contract!GiveUp(s)
    BY <1>2, <2>1 DEF Contract!GiveUp
  <2> QED
    BY <2>2 DEF Contract!Next
<1>6. CASE PhaseOf(s) = "bound" /\ PhaseOf(s)' = "serving"
  <2>1. Contract!Move(s, {"bound"}, "serving")
    BY <1>6, ContractMove
  <2>2. Contract!Accept(s)
    BY <1>2, <2>1 DEF Contract!Accept
  <2> QED
    BY <2>2 DEF Contract!Next
<1>7. CASE PhaseOf(s) = "serving" /\ PhaseOf(s)' = "broken"
  <2>1. Contract!Move(s, {"serving"}, "broken")
    BY <1>7, ContractMove
  <2>2. Contract!Break(s)
    BY <1>2, <2>1 DEF Contract!Break
  <2> QED
    BY <2>2 DEF Contract!Next
<1> QED
  BY <1>3, <1>4, <1>5, <1>6, <1>7

\* Steps of Start.
LEMMA StartContract ==
  ASSUME OneListener', IInv, PortInv, NEW s \in Starts, StartStep(s)
  PROVE  [Contract!Next]_Contract!vars
<1>1. /\ UNCHANGED <<ready, errCh, spc, taken>>
      /\ \A t \in Starts : t # s => pc'[t] = pc[t] /\ srv'[t] = srv[t] /\ lnOpen'[t] = lnOpen[t]
  BY DEF StartStep, Listen, Publish, Reject, StartHook, AbortStart, AbortClose, Launch, ReadGraceful,
     Goto, chanVars, stopVars, serveVars, IInv, TypeOK
<1>2. \A t \in Starts : t # s => PhaseOf(t)' = PhaseOf(t)
  BY <1>1, PhaseKept
<1>3. Phased(s) /\ Phased(s)'
  BY PhaseNow, PhaseNext
<1>4. \A t \in Starts : srv[t] = "serving" => lnOpen[t]
  BY DEF PortInv, Socket
<1>5. CASE Listen(s)
  <2>1. pc[s] = "idle" /\ srv[s] = "none" /\ srv'[s] = "none" /\ ~lnOpen[s] /\ pc'[s] # "idle"
    BY <1>5 DEF Listen, Goto, PortInv, Socket, IInv, ServerState, TypeOK
  <2>2. \/ lnOpen'[s] /\ \A t \in Starts : ~lnOpen[t]
        \/ ~lnOpen'[s]
    BY <1>1, <2>1 DEF OneListener
  <2>3. \/ PhaseOf(s) = "idle" /\ PhaseOf(s)' = "bound" /\ \A t \in Starts : ~lnOpen[t] /\ srv[t] # "serving"
        \/ PhaseOf(s) = "idle" /\ PhaseOf(s)' = "stopped"
    BY <1>3, <1>4, <2>1, <2>2 DEF Phased
  <2> QED
    BY <1>1, <1>2, <2>3, ContractPhase
<1>6. CASE Reject(s) \/ AbortClose(s)
  <2>1. pc[s] \in {"bound", "abort"} /\ pc'[s] = "failed" /\ srv'[s] = srv[s] /\ ~lnOpen'[s]
    BY <1>6 DEF Reject, AbortClose, Goto, IInv, TypeOK
  <2>2. srv[s] \notin {"serving", "broken"} /\ lnOpen[s]
    BY <2>1 DEF PortInv, Socket, IInv, ServerState, Launched
  <2>3. PhaseOf(s) = "bound" /\ PhaseOf(s)' = "stopped"
    BY <1>3, <2>1, <2>2 DEF Phased
  <2> QED
    BY <1>1, <1>2, <2>3, ContractPhase
<1>7. CASE Publish(s) \/ StartHook(s) \/ AbortStart(s) \/ Launch(s) \/ ReadGraceful(s)
  <2>1. /\ pc[s] # "idle" /\ pc'[s] # "idle" /\ lnOpen'[s] = lnOpen[s]
        /\ \/ srv'[s] = srv[s]
           \/ (pc[s] = "bound" \/ srv[s] = "built") /\ srv'[s] \in {"built", "launched"}
    <3>1. CASE Publish(s) \/ Launch(s)
      BY <1>7, <3>1 DEF Publish, Launch, Goto, IInv, TypeOK
    <3>2. CASE StartHook(s) \/ AbortStart(s)
      BY <3>2 DEF StartHook, AbortStart, Goto, serveVars, IInv, TypeOK
    <3>3. CASE ReadGraceful(s)
      BY <3>3 DEF ReadGraceful, Goto, serveVars, IInv, TypeOK
    <3> QED
      BY <1>7, <3>1, <3>2, <3>3
  <2>2. pc[s] = "bound" => srv[s] = "none"
    BY DEF IInv, ServerState
  <2>3. PhaseOf(s)' = PhaseOf(s)
    BY <1>3, <2>1, <2>2 DEF PhaseOf
  <2> QED
    BY <1>1, <1>2, <2>3, ContractPhase
<1> QED
  BY <1>5, <1>6, <1>7 DEF StartStep

\* Steps of the delegated server and its requests.
LEMMA EnvContract ==
  ASSUME IInv, PortInv, NEW s \in Starts, EnvStep(s)
  PROVE  [Contract!Next]_Contract!vars
<1>1. /\ UNCHANGED <<ready, errCh, spc, taken, pc>>
      /\ \A t \in Starts : t # s => srv'[t] = srv[t] /\ lnOpen'[t] = lnOpen[t]
      /\ \/ srv'[s] = srv[s] /\ lnOpen'[s] = lnOpen[s]
         \/ srv[s] = "launched" /\ srv'[s] = "serving" /\ lnOpen'[s] = lnOpen[s]
         \/ srv[s] = "refused" /\ srv'[s] = "stopped" /\ ~lnOpen'[s]
         \/ srv[s] = "serving" /\ srv'[s] = "broken" /\ ~lnOpen'[s]
  BY DEF EnvStep, ServeBegin, ServeRefused, ServeFail, RequestBegin, RequestEnd, startVars, chanVars,
     stopVars, IInv, TypeOK
<1>2. \A t \in Starts : t # s => PhaseOf(t)' = PhaseOf(t)
  BY <1>1, PhaseKept
<1>3. Phased(s) /\ Phased(s)'
  BY PhaseNow, PhaseNext
<1>4. (srv[s] = "launched" => lnOpen[s]) /\ (srv[s] # "none" => pc[s] # "idle")
  BY DEF PortInv, Socket, IInv, ServerState
<1>5. \/ PhaseOf(s)' = PhaseOf(s)
      \/ PhaseOf(s) = "bound" /\ PhaseOf(s)' = "stopped"
      \/ PhaseOf(s) = "bound" /\ PhaseOf(s)' = "serving"
      \/ PhaseOf(s) = "serving" /\ PhaseOf(s)' = "broken"
  <2>1. CASE srv'[s] = srv[s] /\ lnOpen'[s] = lnOpen[s]
    BY <1>1, <2>1, PhaseKept
  <2>2. CASE srv[s] = "launched" /\ srv'[s] = "serving" /\ lnOpen'[s] = lnOpen[s]
    BY <1>3, <1>4, <2>2 DEF Phased
  <2>3. CASE srv[s] = "refused" /\ srv'[s] = "stopped" /\ ~lnOpen'[s]
    <3>1. PhaseOf(s)' = "stopped" /\ PhaseOf(s) \in {"bound", "stopped"}
      BY <1>1, <1>3, <1>4, <2>3 DEF Phased
    <3> QED
      BY <3>1
  <2>4. CASE srv[s] = "serving" /\ srv'[s] = "broken" /\ ~lnOpen'[s]
    BY <1>3, <2>4 DEF Phased
  <2> QED
    BY <1>1, <2>1, <2>2, <2>3, <2>4
<1> QED
  BY <1>1, <1>2, <1>5, ContractPhase

\* A step that the contract does not see: it moves no phase, sends nothing and
\* takes no generation past the flip of the readiness.
LEMMA ContractUnseen ==
  ASSUME UNCHANGED <<ready, errCh, srv, lnOpen>>,
         \A s \in Starts : pc'[s] = "idle" <=> pc[s] = "idle",
         \A s \in Starts : DrainingOf(s)' = DrainingOf(s)
  PROVE  [Contract!Next]_Contract!vars
<1>1. \A s \in Starts : PhaseOf(s)' = PhaseOf(s)
  BY PhaseKept
<1>2. \A s \in Starts : OutcomeOf(s)' = OutcomeOf(s)
  BY DEF OutcomeOf
<1>3. UNCHANGED Contract!vars
  BY <1>1, <1>2, ContractStutter
<1> QED
  BY <1>3

\* Steps of Run, and the signal.
LEMMA RunContract ==
  ASSUME IInv, Signal \/ UNCHANGED vars \/ \E s \in Runs : RunStep(s)
  PROVE  [Contract!Next]_Contract!vars
<1>1. /\ UNCHANGED <<ready, errCh, srv, lnOpen, spc, taken>>
      /\ \A s \in Starts : pc'[s] = "idle" <=> pc[s] = "idle"
  <2>1. CASE Signal \/ UNCHANGED vars
    BY <2>1 DEF Signal, vars, startVars, serveVars, chanVars, stopVars
  <2>2. ASSUME NEW s \in Runs, RunStep(s)
        PROVE  /\ UNCHANGED <<ready, errCh, srv, lnOpen, spc, taken>>
               /\ pc[s] # "idle" /\ pc'[s] # "idle"
               /\ \A t \in Starts : t # s => pc'[t] = pc[t]
    BY <2>2, ConstantsAssumption DEF RunStep, RunServeOutcome, RunSignalled, RunReturn, Goto, serveVars, chanVars,
       stopVars, IInv, TypeOK
  <2> QED
    BY <2>1, <2>2
<1>2. \A s \in Starts : DrainingOf(s)' = DrainingOf(s)
  BY <1>1 DEF DrainingOf
<1> QED
  BY <1>1, <1>2, ContractUnseen

\* The watcher resolves the outcome of its Start, or nothing happens.
LEMMA WatcherContract ==
  ASSUME IInv, PortInv, OutcomeInv, NEW s \in Starts, WatcherStep(s)
  PROVE  [Contract!Next]_Contract!vars
<1>1. /\ watcher[s] \in {"peek", "select"} /\ UNCHANGED <<ready, pc, srv, lnOpen, spc, taken>>
      /\ \/ errCh' = errCh
         \/ raw[s] /\ errCh' = [errCh EXCEPT ![s] = Append(errCh[s], "error")]
         \/ graceful[watch[s]] > 0 /\ errCh' = [errCh EXCEPT ![s] = Append(errCh[s], "nil")]
  BY DEF WatcherStep, WatcherPeek, WatcherSelect, Send, startVars, stopVars, IInv, TypeOK
<1>2. errCh[s] = <<>> /\ watch[s] \in Starts
  BY <1>1 DEF OutcomeInv, Outcome
<1>3. errCh \in [Starts -> Seq({"nil", "error"})]
  BY DEF IInv, TypeOK
<1>4. \A t \in Starts : PhaseOf(t)' = PhaseOf(t) /\ DrainingOf(t)' = DrainingOf(t)
  BY <1>1, PhaseKept DEF DrainingOf
<1>5. Phased(s)
  BY PhaseNow
<1>6. CASE errCh' = errCh
  BY <1>1, <1>4, <1>6, ContractUnseen
<1>7. ASSUME NEW v \in {"nil", "error"}, errCh' = [errCh EXCEPT ![s] = Append(errCh[s], v)],
             v = "error" => PhaseOf(s) = "broken",
             v = "nil" => PhaseOf(s) # "serving" /\ (PhaseOf(s) = "bound" => DrainingOf(s))
      PROVE  [Contract!Next]_Contract!vars
  <2>1. Append(<<>>, v) = <<v>> /\ <<v>> # <<>> /\ Head(<<v>>) = v
    OBVIOUS
  <2>2. errCh'[s] = <<v>> /\ \A t \in Starts : t # s => errCh'[t] = errCh[t]
    BY <1>2, <1>3, <1>7, <2>1
  <2>3. OutcomeOf(s) = "none" /\ OutcomeOf(s)' = v
    BY <1>2, <2>1, <2>2 DEF OutcomeOf
  <2>4. \A t \in Starts : t # s => OutcomeOf(t)' = OutcomeOf(t)
    BY <2>2 DEF OutcomeOf
  <2>5. [t \in Starts |-> OutcomeOf(t)]' = [[t \in Starts |-> OutcomeOf(t)] EXCEPT ![s] = v]
    BY <2>3, <2>4
  <2>6. /\ [t \in Starts |-> PhaseOf(t)]' = [t \in Starts |-> PhaseOf(t)]
        /\ [t \in Starts |-> DrainingOf(t)]' = [t \in Starts |-> DrainingOf(t)]
    BY <1>4
  <2>7. CASE v = "error"
    <3>1. Contract!Resolve(s)
      BY <1>1, <1>7, <2>3, <2>5, <2>6, <2>7 DEF Contract!Resolve, OutcomeOf, DrainingOf
    <3> QED
      BY <3>1 DEF Contract!Next
  <2>8. CASE v = "nil"
    <3>1. Contract!Resolve(s)
      BY <1>1, <1>7, <2>3, <2>5, <2>6, <2>8 DEF Contract!Resolve, OutcomeOf, DrainingOf
    <3> QED
      BY <3>1 DEF Contract!Next
  <2> QED
    BY <2>7, <2>8
<1>8. CASE raw[s] /\ errCh' = [errCh EXCEPT ![s] = Append(errCh[s], "error")]
  <2>1. srv[s] = "broken" /\ ~lnOpen[s]
    BY <1>8 DEF OutcomeInv, Outcome, PortInv, Socket
  <2>2. PhaseOf(s) = "broken"
    BY <1>5, <2>1 DEF Phased
  <2> QED
    BY <1>7, <1>8, <2>2
<1>9. CASE graceful[watch[s]] > 0 /\ errCh' = [errCh EXCEPT ![s] = Append(errCh[s], "nil")]
  <2>1. srv[s] \in {"stopped", "refused", "broken"}
    <3>1. CASE watch[s] = s
      BY <1>9, <3>1, ClosedIsDown
    <3>2. CASE watch[s] # s
      BY <1>2, <3>2, ConstantsAssumption DEF OutcomeInv, Outcome
    <3> QED
      BY <3>1, <3>2
  <2>2. PhaseOf(s) # "serving"
    BY <2>1 DEF PhaseOf
  <2>3. PhaseOf(s) = "bound" => srv[s] = "refused"
    <3>1. srv[s] \in {"stopped", "broken"} => ~lnOpen[s]
      BY DEF PortInv, Socket
    <3> QED
      BY <1>5, <2>1, <3>1 DEF Phased
  <2>4. srv[s] = "refused" => DrainingOf(s)
    BY DEF PortInv, Socket, DrainingOf, After
  <2> QED
    BY <1>7, <1>9, <2>2, <2>3, <2>4
<1> QED
  BY <1>1, <1>6, <1>8, <1>9

\* The flip of the readiness is the Drain of the generation taken.
LEMMA ReadyFlipContract ==
  ASSUME IInv, PortInv, NEW c \in Closers, ReadyFlip(c)
  PROVE  [Contract!Next]_Contract!vars
<1>0. taken[c] \in Starts
  BY DEF ReadyFlip, StopGoto, IInv, TypeOK, Ownership
<1> PICK s \in Starts : s = taken[c]
  BY <1>0
<1>1. /\ UNCHANGED <<pc, srv, lnOpen, errCh, taken>> /\ ready' = FALSE
      /\ spc[c] = "flip" /\ spc'[c] = "drain" /\ \A d \in Closers : d # c => spc'[d] = spc[d]
  BY DEF ReadyFlip, StopGoto, startVars, serveVars, chanVars, IInv, TypeOK
<1>2. \A d \in Closers : taken[d] = s => d = c
  BY ConstantsAssumption DEF IInv, Ownership
<1>3. pc[s] # "idle"
  BY DEF IInv, Ownership
<1>4. ~DrainingOf(s) /\ DrainingOf(s)' = TRUE
  <2>1. ~DrainingOf(s)
    BY <1>1, <1>2 DEF DrainingOf
  <2>2. taken'[c] = s
    BY <1>1
  <2>3. DrainingOf(s)'
    BY <1>1, <1>2, <2>2 DEF DrainingOf
  <2>4. DrainingOf(s)' \in BOOLEAN
    BY DEF DrainingOf
  <2> QED
    BY <2>1, <2>3, <2>4
<1>5. \A t \in Starts : t # s => DrainingOf(t)' = DrainingOf(t)
  BY <1>1 DEF DrainingOf
<1>6. PhaseOf(s) # "idle"
  BY <1>2, <1>3 DEF PhaseOf
<1>7. \A t \in Starts : PhaseOf(t)' = PhaseOf(t) /\ OutcomeOf(t)' = OutcomeOf(t)
  BY <1>1, PhaseKept DEF OutcomeOf
<1>8. [t \in Starts |-> DrainingOf(t)]' = [[t \in Starts |-> DrainingOf(t)] EXCEPT ![s] = TRUE]
  BY <1>2, <1>4, <1>5
<1>9. /\ [t \in Starts |-> PhaseOf(t)]' = [t \in Starts |-> PhaseOf(t)]
      /\ [t \in Starts |-> OutcomeOf(t)]' = [t \in Starts |-> OutcomeOf(t)]
  BY <1>7
<1>10. Contract!Drain(s)
  BY <1>1, <1>2, <1>4, <1>6, <1>8, <1>9 DEF Contract!Drain, DrainingOf, OutcomeOf
<1> QED
  BY <1>2, <1>10 DEF Contract!Next

\* srv.Shutdown stops a serving generation whose readiness is down already.
LEMMA SrvShutdownContract ==
  ASSUME IInv, PortInv, NEW c \in Closers, SrvShutdown(c)
  PROVE  [Contract!Next]_Contract!vars
<1>1. taken[c] \in Starts
  BY DEF SrvShutdown, StopGoto, IInv, TypeOK, Ownership
<1> PICK s \in Starts : s = taken[c]
  BY <1>1
<1>2. /\ UNCHANGED <<ready, pc, errCh, taken>>
      /\ spc[c] = "close" /\ spc'[c] = "await" /\ \A d \in Closers : d # c => spc'[d] = spc[d]
  BY DEF SrvShutdown, StopGoto, startVars, chanVars, IInv, TypeOK
<1>3. /\ \A t \in Starts : t # s => srv'[t] = srv[t] /\ lnOpen'[t] = lnOpen[t]
      /\ srv[s] = "serving" => srv'[s] = "stopped" /\ ~lnOpen'[s]
      /\ srv[s] \in {"built", "launched"} => srv'[s] = "refused" /\ lnOpen'[s] = lnOpen[s]
      /\ srv[s] \notin {"serving", "built", "launched"} => srv'[s] = srv[s] /\ lnOpen'[s] = lnOpen[s]
  BY <1>1 DEF SrvShutdown, IInv, TypeOK
<1>4. pc[s] # "idle"
  BY <1>1, <1>2 DEF IInv, Ownership
<1>5. DrainingOf(s)
  BY <1>2 DEF DrainingOf
<1>6. \A t \in Starts : DrainingOf(t)' = DrainingOf(t)
  <2> SUFFICES ASSUME NEW t \in Starts PROVE DrainingOf(t)' = DrainingOf(t)
    OBVIOUS
  <2>1. \A d \in Closers : spc'[d] \in {"idle", "flip"} <=> spc[d] \in {"idle", "flip"}
    BY <1>2
  <2>2. DrainingOf(t)' <=> DrainingOf(t)
    BY <1>2, <2>1 DEF DrainingOf
  <2> QED
    BY <2>2 DEF DrainingOf
<1>7. \A t \in Starts : t # s => PhaseOf(t)' = PhaseOf(t)
  BY <1>2, <1>3, PhaseKept
<1>8. Phased(s) /\ Phased(s)'
  BY <1>1, PhaseNow, PhaseNext
<1>9. CASE srv[s] = "serving"
  <2>1. PhaseOf(s) \in {"serving"} /\ PhaseOf(s)' = "stopped"
    BY <1>2, <1>3, <1>4, <1>8, <1>9 DEF Phased
  <2>2. Contract!Move(s, {"serving"}, "stopped")
    BY <1>1, <1>7, <2>1, ContractMove
  <2>3. /\ [t \in Starts |-> DrainingOf(t)]' = [t \in Starts |-> DrainingOf(t)]
        /\ [t \in Starts |-> OutcomeOf(t)]' = [t \in Starts |-> OutcomeOf(t)]
    BY <1>2, <1>6 DEF OutcomeOf
  <2>4. Contract!Stop(s)
    BY <1>1, <1>2, <1>5, <2>2, <2>3 DEF Contract!Stop, DrainingOf, OutcomeOf
  <2> QED
    BY <1>1, <2>4 DEF Contract!Next
<1>10. CASE srv[s] # "serving"
  <2>1. lnOpen'[s] = lnOpen[s] /\ (srv'[s] = srv[s] \/ (srv[s] \in {"built", "launched"} /\ srv'[s] = "refused"))
    BY <1>3, <1>10
  <2>2. PhaseOf(s)' = PhaseOf(s)
    BY <1>2, <2>1 DEF PhaseOf
  <2>3. \A t \in Starts : PhaseOf(t)' = PhaseOf(t) /\ OutcomeOf(t)' = OutcomeOf(t)
    BY <1>2, <1>7, <2>2 DEF OutcomeOf
  <2>4. UNCHANGED Contract!vars
    BY <1>2, <1>6, <2>3, ContractStutter
  <2> QED
    BY <2>4
<1> QED
  BY <1>9, <1>10

\* The other steps of a Shutdown call do not show.
LEMMA StopContract ==
  ASSUME IInv, PortInv, NEW c \in Closers, Take(c) \/ StopStep(c) \/ Expire(c)
  PROVE  [Contract!Next]_Contract!vars
<1>1. CASE Take(c)
  <2>1. /\ UNCHANGED <<ready, errCh, srv, lnOpen, pc>>
        /\ spc[c] = "idle" /\ taken'[c] = current
        /\ IF current = None THEN spc'[c] = "done" ELSE spc'[c] = "flip"
        /\ \A d \in Closers : d # c => spc'[d] = spc[d] /\ taken'[d] = taken[d]
    BY <1>1 DEF Take, StopGoto, startVars, serveVars, chanVars, IInv, TypeOK
  <2>2. ASSUME NEW t \in Starts PROVE DrainingOf(t)' = DrainingOf(t)
    <3>1. t # None
      BY ConstantsAssumption
    <3>2. ~(taken'[c] = t /\ spc'[c] \notin {"idle", "flip"})
      BY <2>1, <3>1
    <3>3. DrainingOf(t)' <=> DrainingOf(t)
      BY <2>1, <3>2 DEF DrainingOf
    <3> QED
      BY <3>3 DEF DrainingOf
  <2> QED
    BY <2>1, <2>2, ContractUnseen
<1>2. CASE ReadyFlip(c)
  BY <1>2, ReadyFlipContract
<1>3. CASE SrvShutdown(c)
  BY <1>3, SrvShutdownContract
<1>4. CASE \/ DrainHook(c) \/ ShutdownHook(c) \/ Expire(c) \/ DrainHooksDone(c) \/ DrainWait(c)
           \/ SrvShutdownReturn(c) \/ CloseGraceful(c) \/ ShutdownReturn(c)
  <2>1. UNCHANGED <<ready, errCh, srv, lnOpen, pc, taken>>
    BY <1>4 DEF DrainHook, ShutdownHook, StopHook, Expire, DrainHooksDone, DrainWait, SrvShutdownReturn,
       CloseGraceful, ShutdownReturn, startVars, serveVars, chanVars
  <2>2. \A d \in Closers : spc'[d] \in {"idle", "flip"} <=> spc[d] \in {"idle", "flip"}
    <3>1. CASE DrainHook(c) \/ ShutdownHook(c) \/ Expire(c)
      BY <3>1 DEF DrainHook, ShutdownHook, StopHook, Expire
    <3>2. CASE \/ DrainHooksDone(c) \/ DrainWait(c) \/ SrvShutdownReturn(c)
               \/ CloseGraceful(c) \/ ShutdownReturn(c)
      <4>1. PICK from \in StopPC \ {"idle", "flip"}, to \in StopPC \ {"idle", "flip"} : StopGoto(c, from, to)
        BY <3>2 DEF DrainHooksDone, DrainWait, SrvShutdownReturn, CloseGraceful, ShutdownReturn, StopPC
      <4> QED
        BY <4>1 DEF StopGoto, IInv, TypeOK
    <3> QED
      BY <1>4, <3>1, <3>2
  <2>3. ASSUME NEW t \in Starts PROVE DrainingOf(t)' = DrainingOf(t)
    <3>1. DrainingOf(t)' <=> DrainingOf(t)
      BY <2>1, <2>2 DEF DrainingOf
    <3> QED
      BY <3>1 DEF DrainingOf
  <2> QED
    BY <2>1, <2>3, ContractUnseen
<1> QED
  BY <1>1, <1>2, <1>3, <1>4 DEF StopStep

LEMMA ContractInit == Init => Contract!Init
<1> SUFFICES ASSUME Init PROVE Contract!Init
  OBVIOUS
<1>1. ready = TRUE /\ \A s \in Starts : srv[s] = "none" /\ ~lnOpen[s] /\ pc[s] = "idle" /\ errCh[s] = <<>>
  BY DEF Init
<1>2. \A c \in Closers : taken[c] = None
  BY DEF Init
<1>3. \A s \in Starts : PhaseOf(s) = "idle"
  BY <1>1, PhaseNow DEF Phased
<1>4. \A s \in Starts : DrainingOf(s) = FALSE
  BY <1>2, ConstantsAssumption DEF DrainingOf
<1>5. \A s \in Starts : OutcomeOf(s) = "none"
  BY <1>1 DEF OutcomeOf
<1> QED
  BY <1>1, <1>3, <1>4, <1>5 DEF Contract!Init, DrainingOf, OutcomeOf

LEMMA ContractNext ==
  ASSUME OneListener', IInv, PortInv, OutcomeInv, [Next]_vars
  PROVE  [Contract!Next]_Contract!vars
<1>1. ASSUME NEW s \in Starts, StartStep(s) \/ WatcherStep(s) \/ EnvStep(s)
      PROVE  [Contract!Next]_Contract!vars
  BY <1>1, StartContract, WatcherContract, EnvContract
<1>2. ASSUME NEW c \in Closers, Take(c) \/ StopStep(c) \/ Expire(c)
      PROVE  [Contract!Next]_Contract!vars
  BY <1>2, StopContract
<1>3. CASE Signal \/ UNCHANGED vars \/ \E s \in Runs : RunStep(s)
  BY <1>3, RunContract
<1> QED
  BY <1>1, <1>2, <1>3 DEF Next

\* The lifecycle, with all its locks, goroutines and hooks, implements the
\* contract as long as no second listener is open: one generation on the port
\* at a time, no stop before the readiness went down, one outcome, told after
\* the stop.
THEOREM LoneContractKept == Spec /\ []OneListener => ImplementsContract
<1>1. Init => Contract!Init
  BY ContractInit
<1>2. IInv /\ PortInv /\ OutcomeInv /\ OneListener' /\ [Next]_vars => [Contract!Next]_Contract!vars
  BY ContractNext
<1> QED
  BY <1>1, <1>2, OnePortHolds, PTL DEF Spec, ImplementsContract, Contract!Spec

\* On a fixed port the lifecycle implements the contract, whatever calls of
\* Start, Run and Shutdown there are.
THEOREM ContractKept ==
  ASSUME FixedAddr
  PROVE  Spec => ImplementsContract
BY FixedPort, LoneContractKept, PTL

=============================================================================
