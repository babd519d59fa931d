----------------------- MODULE TakeoverRetirementProofs -----------------------
(***************************************************************************)
(* Proofs about TakeoverRetirement, for any set of plugins, connections and *)
(* runtimes, with shared or unique runtime instance ids.                    *)
(***************************************************************************)
EXTENDS TakeoverRetirement, FiniteSetTheorems, TLAPS

USE DEF dbVars, mgrVars, rtVars, opVars, closeVars, stopVars, frameVars, sessVars, drainVars

-----------------------------------------------------------------------------
(* Typing.                                                                  *)

\* The initial state of the manager and of every connection slot is well typed.
LEMMA InitTypeOK == Init => TypeOK
<1> SUFFICES ASSUME Init PROVE TypeOK
  OBVIOUS
<1>1. NoHandlers \in [Plugins -> MaybeRuntime] /\ NoRuntime \in MaybeRuntime
  BY DEF NoHandlers, MaybeRuntime
<1>2. 0 \in Gens
  BY BoundsAssumption DEF Gens
<1>3. /\ "idle" \in Stages /\ "none" \in Flows
      /\ "free" \in RuntimeStates /\ "idle" \in Phases
  BY DEF Stages, Flows, RuntimeStates, Phases
<1>4. /\ desiredGen \in [Plugins -> Gens] /\ desiredOn \in [Plugins -> BOOLEAN]
      /\ rtState \in [Runtimes -> RuntimeStates]
      /\ recGen \in [Runtimes -> Gens] /\ keyGen \in [Runtimes -> Gens]
      /\ refs \in [Runtimes -> Nat]
  BY <1>2, <1>3 DEF Init
<1>5. owner \in [Runtimes -> Plugins \cup {NoPlugin}]
  BY DEF Init
<1>6. /\ pc \in [Conns -> {"idle", "loaded", "run", "handler", "core", "finish", "finishing"}]
      /\ snap \in [Conns -> [Plugins -> MaybeRuntime]]
      /\ at \in [Conns -> Plugins \cup {NoPlugin}]
  BY <1>1 DEF Init
<1>7. /\ stage \in [Conns -> [Plugins -> Stages]]
      /\ flow \in [Conns -> [Plugins -> Flows]]
      /\ entered \in [Conns -> [Plugins -> RuntimeStates]]
  BY <1>3 DEF Init
<1>8. /\ displaced \in [Plugins -> SUBSET Runtimes]
      /\ parts \in [Conns -> SUBSET Plugins] /\ sdrain \in [Conns -> SUBSET Plugins]
  BY DEF Init
<1> QED
  BY <1>1, <1>3, <1>4, <1>5, <1>6, <1>7, <1>8 DEF Init, TypeOK

\* A step of a connection in HandleConnection keeps the types; the release of a
\* reservation needs the count to be positive.
LEMMA ConnTypeOK ==
  ASSUME TypeOK, NEW c \in Conns, Accept(c) \/ ConnStep(c),
         \A p \in Plugins : stage[c][p] = "returned" =>
             snap[c][p] \in Runtimes /\ refs[snap[c][p]] > 0
  PROVE  TypeOK'
<1>1. CASE Accept(c)
  BY <1>1 DEF TypeOK, Accept
<1>2. CASE StartSession(c)
  BY <1>2 DEF TypeOK, StartSession
<1>3. CASE EnterCore(c)
  BY <1>3 DEF TypeOK, EnterCore
<1>4. CASE CoreReturns(c)
  BY <1>4 DEF TypeOK, CoreReturns, ReturnToCaller, Flows
<1>5. CASE FinishSession(c)
  BY <1>5 DEF TypeOK, FinishSession
<1>6. CASE ConnectionEnds(c)
  BY <1>6 DEF TypeOK, ConnectionEnds, NoHandlers, MaybeRuntime, NoPlugin, Flows, RuntimeStates
<1>7. ASSUME NEW p \in Plugins, SkipHandler(c, p)
      PROVE  TypeOK'
  BY <1>7 DEF TypeOK, SkipHandler
<1>8. ASSUME NEW p \in Plugins, ReserveHandler(c, p)
      PROVE  TypeOK'
  <2>1. snap[c][p] \in Runtimes
    BY <1>8 DEF ReserveHandler, IsNext, TypeOK, MaybeRuntime
  <2> QED
    BY <1>8, <2>1 DEF TypeOK, ReserveHandler, Stages
<1>9. ASSUME NEW p \in Plugins, InvokeHandler(c, p)
      PROVE  TypeOK'
  <2>1. JoinDraining(c, p) \subseteq Plugins
    BY DEF JoinDraining
  <2>2. /\ parts' \in [Conns -> SUBSET Plugins]
        /\ sdrain' \in [Conns -> SUBSET Plugins]
    BY <1>9, <2>1 DEF TypeOK, InvokeHandler
  <2>3. /\ stage' \in [Conns -> [Plugins -> Stages]]
        /\ flow' \in [Conns -> [Plugins -> Flows]]
    BY <1>9 DEF TypeOK, InvokeHandler, Stages, Flows
  <2> QED
    BY <1>9, <2>2, <2>3 DEF TypeOK, InvokeHandler
<1>10. ASSUME NEW p \in Plugins, NEW to \in {"run", "core"}, ClaimContinuation(c, p, to)
       PROVE  TypeOK'
  BY <1>10 DEF TypeOK, ClaimContinuation, Flows
<1>11. ASSUME NEW p \in Plugins, ClaimWithoutStream(c, p)
       PROVE  TypeOK'
  BY <1>11 DEF TypeOK, ClaimWithoutStream, Flows
<1>12. ASSUME NEW p \in Plugins, HandlerReturns(c, p)
       PROVE  TypeOK'
  BY <1>12 DEF TypeOK, HandlerReturns, AfterHandlerReturn, Stages, Flows
<1>13. ASSUME NEW p \in Plugins, ReleaseHandler(c, p)
       PROVE  TypeOK'
  BY <1>13 DEF TypeOK, ReleaseHandler, Stages
<1>14. ASSUME NEW p \in Plugins, LeaveHandler(c, p)
       PROVE  TypeOK'
  BY <1>14 DEF TypeOK, LeaveHandler, ReturnToCaller, QueuePendingStop, Due, Stages, Flows, RuntimeStates
<1>15. ASSUME NEW p \in Plugins, FinishParticipant(c, p)
       PROVE  TypeOK'
  BY <1>15 DEF TypeOK, FinishParticipant, QueuePendingStop, Due, RuntimeStates
<1> QED
  BY <1>1, <1>2, <1>3, <1>4, <1>5, <1>6, <1>7, <1>8, <1>9, <1>10, <1>11, <1>12, <1>13, <1>14, <1>15
     DEF ConnStep

\* A manager call that begins under m.mu lets no request close the manager, and
\* supersedes and stops nothing yet; when it is an Enable, it names its plugin.
LEMMA AdminKeeps ==
  ASSUME AdminStep
  PROVE  /\ UNCHANGED <<closing, hdraining, pendingStops>>
         /\ UNCHANGED <<pc, snap, at, stage, flow, entered, refs>>
         /\ phase' \in {"enable", "reenable"} => target' \in Plugins \/ UNCHANGED <<phase, target>>
<1> DEFINE Goal == /\ UNCHANGED <<closing, hdraining, pendingStops>>
                   /\ UNCHANGED <<pc, snap, at, stage, flow, entered, refs>>
                   /\ phase' \in {"enable", "reenable"} => target' \in Plugins \/ UNCHANGED <<phase, target>>
<1>1. ASSUME NEW p \in Plugins, NEW on \in BOOLEAN, SetDesired(p, on) PROVE Goal
  BY <1>1 DEF SetDesired
<1>2. ASSUME NEW p \in Plugins, ReloadConfig(p) PROVE Goal
  BY <1>2 DEF ReloadConfig
<1>3. ASSUME NEW p \in Plugins, EnableReuses(p) PROVE Goal
  BY <1>3 DEF EnableReuses
<1>4. ASSUME NEW p \in Plugins, NEW r \in Runtimes, Load(p, r) PROVE Goal
  BY <1>4 DEF Load
<1>5. ASSUME NEW p \in Plugins, NEW r \in Runtimes, EnableStarts(p, r) PROVE Goal
  BY <1>5 DEF EnableStarts
<1>6. ASSUME NEW p \in Plugins, Withdraw(p) PROVE Goal
  BY <1>6 DEF Withdraw
<1>7. ASSUME NEW p \in Plugins, Quarantine(p) PROVE Goal
  BY <1>7 DEF Quarantine
<1>8. ASSUME ReconcileBegins PROVE Goal
  BY <1>8 DEF ReconcileBegins
<1>9. ASSUME NEW p \in Plugins, LoadForgets(p) \/ Isolate(p) PROVE Goal
  BY <1>9 DEF LoadForgets, Isolate
<1> HIDE DEF Goal
<1>10. Goal
  BY <1>1, <1>2, <1>3, <1>4, <1>5, <1>6, <1>7, <1>8, <1>9 DEF AdminStep
<1> QED
  BY <1>10 DEF Goal

\* The part of the state that the operations under m.mu, Close and the cleanup
\* goroutines share keeps its types: they never touch an invocation.
LEMMA OperationTypeOK ==
  ASSUME TypeOK, phase \in {"enable", "reenable"} => target \in Plugins, OperationStep
  PROVE  TypeOK'
<1> USE DEF MaybeRuntime, NoPlugin
<1>1. CASE EnableCommits
  <2>1. /\ target \in Plugins /\ cand \in MaybeRuntime
        /\ oldQ' = displaced[target] \cup Just(replaced)
        /\ displaced' = [displaced EXCEPT ![target] = {}]
        /\ next' = [snapshot EXCEPT ![target] = cand]
    BY <1>1 DEF TypeOK, EnableCommits
  <2>2. /\ oldQ' \subseteq Runtimes
        /\ displaced' \in [Plugins -> SUBSET Runtimes]
        /\ next' \in [Plugins -> MaybeRuntime]
    BY <2>1 DEF TypeOK, Just
  <2> QED
    BY <1>1, <2>2 DEF TypeOK, EnableCommits, Phases
<1>2. CASE EnableFails
  <2>1. Restored \in MaybeRuntime
    BY <1>2 DEF TypeOK, EnableFails, Restored
  <2> QED
    BY <1>2, <2>1, ZenonT(30) DEF TypeOK, EnableFails, RolledBack, Just, Phases
<1>3. ASSUME NEW p \in Plugins, NEW g \in Gens, ReconcileSkips(p, g)
      PROVE  TypeOK'
  BY <1>3 DEF TypeOK, ReconcileSkips
<1>4. ASSUME NEW p \in Plugins, NEW g \in Gens, ReconcileReuses(p, g)
      PROVE  TypeOK'
  BY <1>4 DEF TypeOK, ReconcileReuses
<1>5. ASSUME NEW p \in Plugins, NEW g \in Gens, NEW r \in Runtimes, NEW usable \in BOOLEAN,
             ReconcileStarts(p, g, r, usable)
      PROVE  TypeOK'
  <2>1. dropped' \subseteq Runtimes /\ oldQ' \subseteq Runtimes
    BY <1>5 DEF TypeOK, ReconcileStarts, StartCandidate, Just, Forgotten, Previous, Reusable
  <2> QED
    BY <1>5, <2>1 DEF TypeOK, ReconcileStarts, StartCandidate, RuntimeStates
<1>6. CASE ReconcileCollects
  BY <1>6 DEF TypeOK, ReconcileCollects, Phases
<1>7. ASSUME NEW r \in Runtimes, Supersede(r)
      PROVE  TypeOK'
  BY <1>7 DEF TypeOK, Supersede
<1>8. ASSUME NEW r \in Runtimes, RetireRuntime(r)
      PROVE  TypeOK'
  BY <1>8 DEF TypeOK, RetireRuntime, Displacing, RuntimeStates
<1>9. ASSUME NEW p \in Plugins, RemovePlugin(p)
      PROVE  TypeOK'
  BY <1>9 DEF TypeOK, RemovePlugin, MarkSessions, Just
<1>10. CASE Publish
  BY <1>10 DEF TypeOK, Publish, NoHandlers, Phases
<1>11. CASE RuntimeDestroyed
  BY <1>11 DEF TypeOK, RuntimeDestroyed, RuntimeStates
<1>12. CASE EndOperation
  BY <1>12 DEF TypeOK, EndOperation, Phases
<1>13. ASSUME NEW p \in Plugins, NEW g \in Gens, ReconcileForgets(p, g)
      PROVE  TypeOK'
  BY <1>13 DEF TypeOK, ReconcileForgets, Reusable
<1> QED
  BY <1>1, <1>2, <1>3, <1>4, <1>5, <1>6, <1>7, <1>8, <1>9, <1>10, <1>11, <1>12, <1>13
     DEF OperationStep

\* The requests that start an operation keep the types.
LEMMA AdminTypeOK ==
  ASSUME TypeOK, AdminStep
  PROVE  TypeOK'
<1> USE DEF MaybeRuntime, NoPlugin
<1>1. ASSUME NEW p \in Plugins, NEW on \in BOOLEAN, SetDesired(p, on)
      PROVE  TypeOK'
  BY <1>1, BoundsAssumption DEF TypeOK, SetDesired, Gens
<1>2. ASSUME NEW p \in Plugins, ReloadConfig(p)
      PROVE  TypeOK'
  BY <1>2 DEF TypeOK, ReloadConfig
<1>3. ASSUME NEW p \in Plugins, EnableReuses(p)
      PROVE  TypeOK'
  BY <1>3 DEF TypeOK, EnableReuses, Phases
<1>4. ASSUME NEW p \in Plugins, NEW r \in Runtimes, Load(p, r)
      PROVE  TypeOK'
  <2>1. /\ dropped' \subseteq Runtimes /\ retiring' \subseteq Runtimes
        /\ displaced' \in [Plugins -> SUBSET Runtimes]
    BY <1>4 DEF TypeOK, Load, StartCandidate, Just, Forgotten, Previous, Reusable
  <2> QED
    BY <1>4, <2>1 DEF TypeOK, Load, StartCandidate, RuntimeStates, Phases
<1>5. ASSUME NEW p \in Plugins, NEW r \in Runtimes, EnableStarts(p, r)
      PROVE  TypeOK'
  <2>1. dropped' \subseteq Runtimes /\ replaced' \in MaybeRuntime
    BY <1>5 DEF TypeOK, EnableStarts, StartCandidate, Forgotten, Previous, Reusable
  <2> QED
    BY <1>5, <2>1 DEF TypeOK, EnableStarts, StartCandidate, RuntimeStates, Phases
<1>6. ASSUME NEW p \in Plugins, Withdraw(p)
      PROVE  TypeOK'
  <2>1. desiredGen' \in [Plugins -> Gens]
    BY <1>6, BoundsAssumption DEF TypeOK, Withdraw, Gens
  <2> QED
    BY <1>6, <2>1 DEF TypeOK, Withdraw, MarkSessions, Just, Phases
<1>7. ASSUME NEW p \in Plugins, Quarantine(p)
      PROVE  TypeOK'
  BY <1>7 DEF TypeOK, Quarantine, MarkSessions
<1>8. CASE ReconcileBegins
  BY <1>8 DEF TypeOK, ReconcileBegins, Phases
<1>9. ASSUME NEW p \in Plugins, LoadForgets(p)
      PROVE  TypeOK'
  BY <1>9 DEF TypeOK, LoadForgets, Reusable
<1>10. ASSUME NEW p \in Plugins, Isolate(p)
      PROVE  TypeOK'
  BY <1>10 DEF TypeOK, Isolate, MarkSessions
<1> QED
  BY <1>1, <1>2, <1>3, <1>4, <1>5, <1>6, <1>7, <1>8, <1>9, <1>10 DEF AdminStep

\* Close and the cleanup goroutines keep the types.
LEMMA StopTypeOK ==
  ASSUME TypeOK, CloseBegins \/ CloseStep \/ \E r \in Runtimes : CleanupStops(r)
  PROVE  TypeOK'
<1>1. CASE CloseBegins
  BY <1>1 DEF TypeOK, CloseBegins
<1>2. CASE CloseTakes
  BY <1>2 DEF TypeOK, CloseTakes, MarkSessions, NoHandlers, MaybeRuntime
<1>3. ASSUME NEW r \in Runtimes, CloseStops(r)
      PROVE  TypeOK'
  BY <1>3 DEF TypeOK, CloseStops, RuntimeStates
<1>4. CASE CloseTakesPending
  BY <1>4 DEF TypeOK, CloseTakesPending
<1>5. CASE CloseEnds
  BY <1>5 DEF TypeOK, CloseEnds
<1>6. ASSUME NEW r \in Runtimes, CleanupStops(r)
      PROVE  TypeOK'
  BY <1>6 DEF TypeOK, CleanupStops, RuntimeStates
<1> QED
  BY <1>1, <1>2, <1>3, <1>4, <1>5, <1>6 DEF CloseStep

-----------------------------------------------------------------------------
(* The chain walk.                                                          *)

\* Everything but the connections.
OtherStep ==
    \/ OperationStep
    \/ AdminStep
    \/ CloseBegins
    \/ CloseStep
    \/ \E r \in Runtimes : CleanupStops(r)

\* No operation, shutdown or cleanup goroutine moves an invocation, a snapshot
\* already read, or a reservation.
LEMMA OtherKeepsFrames ==
  ASSUME OtherStep
  PROVE  UNCHANGED <<pc, snap, at, stage, flow, entered, refs>>
<1>1. CASE OperationStep
  <2>1. CASE EnableCommits \/ EnableFails \/ ReconcileCollects \/ Publish
    BY <2>1 DEF EnableCommits, EnableFails, ReconcileCollects, Publish
  <2>2. CASE RuntimeDestroyed \/ EndOperation \/ \E p \in Plugins : RemovePlugin(p)
    BY <2>2 DEF RuntimeDestroyed, EndOperation, RemovePlugin
  <2>3. CASE \E r \in Runtimes : Supersede(r) \/ RetireRuntime(r)
    BY <2>3 DEF Supersede, RetireRuntime
  <2>4. ASSUME NEW p \in Plugins, NEW g \in Gens,
               ReconcileSkips(p, g) \/ ReconcileForgets(p, g) \/ ReconcileReuses(p, g)
        PROVE  UNCHANGED <<pc, snap, at, stage, flow, entered, refs>>
    BY <2>4 DEF ReconcileSkips, ReconcileForgets, ReconcileReuses
  <2>5. ASSUME NEW p \in Plugins, NEW g \in Gens, NEW r \in Runtimes, NEW usable \in BOOLEAN,
               ReconcileStarts(p, g, r, usable)
        PROVE  UNCHANGED <<pc, snap, at, stage, flow, entered, refs>>
    BY <2>5 DEF ReconcileStarts
  <2> QED
    BY <1>1, <2>1, <2>2, <2>3, <2>4, <2>5 DEF OperationStep
<1>2. CASE AdminStep
  BY <1>2, AdminKeeps
<1>3. CASE CloseBegins \/ CloseStep \/ \E r \in Runtimes : CleanupStops(r)
  BY <1>3 DEF CloseBegins, CloseStep, CloseTakes, CloseStops, CloseTakesPending, CloseEnds,
       CleanupStops
<1> QED
  BY <1>1, <1>2, <1>3 DEF OtherStep

\* Between loadLocked and markEnabled an Enable has a plugin.
LEMMA OtherKeepsTarget ==
  ASSUME OtherStep, phase \in {"enable", "reenable"} => target \in Plugins
  PROVE  phase' \in {"enable", "reenable"} => target' \in Plugins
<1>1. CASE OperationStep
  <2>1. CASE EnableCommits \/ EnableFails \/ ReconcileCollects \/ Publish
    BY <2>1 DEF EnableCommits, EnableFails, ReconcileCollects, Publish
  <2>2. CASE RuntimeDestroyed \/ EndOperation \/ \E p \in Plugins : RemovePlugin(p)
    BY <2>2 DEF RuntimeDestroyed, EndOperation, RemovePlugin
  <2>3. CASE \E r \in Runtimes : Supersede(r) \/ RetireRuntime(r)
    BY <2>3 DEF Supersede, RetireRuntime
  <2>4. ASSUME NEW p \in Plugins, NEW g \in Gens,
               ReconcileSkips(p, g) \/ ReconcileForgets(p, g) \/ ReconcileReuses(p, g)
        PROVE  phase' \in {"enable", "reenable"} => target' \in Plugins
    BY <2>4 DEF ReconcileSkips, ReconcileForgets, ReconcileReuses
  <2>5. ASSUME NEW p \in Plugins, NEW g \in Gens, NEW r \in Runtimes, NEW usable \in BOOLEAN,
               ReconcileStarts(p, g, r, usable)
        PROVE  phase' \in {"enable", "reenable"} => target' \in Plugins
    BY <2>5 DEF ReconcileStarts
  <2> QED
    BY <1>1, <2>1, <2>2, <2>3, <2>4, <2>5 DEF OperationStep
<1>2. CASE AdminStep
  BY <1>2, AdminKeeps
<1>3. CASE CloseBegins \/ CloseStep \/ \E r \in Runtimes : CleanupStops(r)
  BY <1>3 DEF CloseBegins, CloseStep, CloseTakes, CloseStops, CloseTakesPending, CloseEnds,
       CleanupStops
<1> QED
  BY <1>1, <1>2, <1>3 DEF OtherStep

\* A connection that returns from a run keeps the shape of its chain: it reaches
\* the end of HandleConnection only when no invocation is left.
LEMMA ReturnKeepsShape ==
  ASSUME TypeOK, NEW c \in Conns, NEW outer \in [Plugins -> Stages],
         ReturnToCaller(c, outer)
  PROVE  /\ \A d \in Conns \ {c} : pc'[d] = pc[d]
         /\ pc'[c] \notin {"run", "handler", "core"} => \A p \in Plugins : outer[p] = "idle"
         /\ \A d \in Conns, p \in Plugins : flow'[d][p] = "available" => flow[d][p] = "available"
<1> DEFINE live == {q \in Plugins : outer[q] # "idle"}
           caller(q) == q \in live /\ \A s \in live : s <= q
<1>1. /\ pc' = [pc EXCEPT ![c] = IF live = {} THEN "finish" ELSE "handler"]
      /\ flow' = [flow EXCEPT ![c] = [q \in Plugins |->
                     IF caller(q) /\ flow[c][q] \in ContinuationRunning
                     THEN "used" ELSE flow[c][q]]]
  BY DEF ReturnToCaller
<1>2. \A d \in Conns \ {c} : pc'[d] = pc[d]
  BY <1>1 DEF TypeOK
<1>3. ASSUME pc'[c] \notin {"run", "handler", "core"}, NEW p \in Plugins
      PROVE  outer[p] = "idle"
  <2>1. live = {}
    BY <1>1, <1>3 DEF TypeOK
  <2> QED
    BY <2>1
<1>4. ASSUME NEW d \in Conns, NEW p \in Plugins, flow'[d][p] = "available"
      PROVE  flow[d][p] = "available"
  <2> HIDE DEF caller
  <2>1. CASE d = c
    BY <1>1, <1>4, <2>1 DEF TypeOK
  <2>2. CASE d # c
    BY <1>1, <1>4, <2>2 DEF TypeOK
  <2> QED
    BY <2>1, <2>2
<1> QED
  BY <1>2, <1>3, <1>4

\* The steps of a connection keep the shape of every chain.
LEMMA ConnKeepsShape ==
  ASSUME TypeOK, ChainShape, NEW c \in Conns, Accept(c) \/ ConnStep(c)
  PROVE  ChainShape'
<1> USE DEF ChainShape
<1>0. \A d \in Conns : at[d] \in Nat /\ \A q \in Plugins : q \in Nat
  <2>1. Plugins \cup {NoPlugin} \subseteq Nat
    BY PluginsAssumption DEF NoPlugin
  <2>2. at \in [Conns -> Plugins \cup {NoPlugin}]
    BY DEF TypeOK
  <2> QED
    BY <2>1, <2>2
<1>1. CASE Accept(c)
  BY <1>1 DEF TypeOK, Accept
<1>2. CASE StartSession(c)
  BY <1>2 DEF TypeOK, StartSession
<1>3. CASE EnterCore(c)
  BY <1>3 DEF TypeOK, EnterCore
<1>4. CASE CoreReturns(c)
  <2>1. stage[c] \in [Plugins -> Stages]
    BY DEF TypeOK
  <2>2. ReturnToCaller(c, stage[c]) /\ UNCHANGED <<stage, snap, at, phase, target>>
    BY <1>4 DEF CoreReturns
  <2>3. /\ \A d \in Conns \ {c} : pc'[d] = pc[d]
        /\ pc'[c] \notin {"run", "handler", "core"} => \A p \in Plugins : stage[c][p] = "idle"
        /\ \A d \in Conns, p \in Plugins : flow'[d][p] = "available" => flow[d][p] = "available"
    BY <2>1, <2>2, ReturnKeepsShape
  <2> QED
    BY <2>2, <2>3
<1>5. CASE FinishSession(c)
  BY <1>5 DEF TypeOK, FinishSession
<1>6. CASE ConnectionEnds(c)
  BY <1>6 DEF TypeOK, ConnectionEnds
<1>7. ASSUME NEW p \in Plugins, SkipHandler(c, p)
      PROVE  ChainShape'
  <2>1. at' = [at EXCEPT ![c] = p] /\ at[c] < p
    BY <1>7 DEF SkipHandler, IsNext
  <2>2. \A d \in Conns, q \in Plugins : q <= at[d] => q <= at'[d]
    BY <1>0, <2>1 DEF TypeOK
  <2> QED
    BY <1>7, <2>2 DEF SkipHandler
<1>8. ASSUME NEW p \in Plugins, ReserveHandler(c, p)
      PROVE  ChainShape'
  <2>1. snap[c][p] \in Runtimes
    BY <1>8 DEF ReserveHandler, IsNext, TypeOK, MaybeRuntime
  <2>2. at' = [at EXCEPT ![c] = p] /\ at[c] < p
    BY <1>8 DEF ReserveHandler, IsNext
  <2>3. \A d \in Conns, q \in Plugins : q <= at[d] => q <= at'[d]
    BY <1>0, <2>2 DEF TypeOK
  <2>4. p <= at'[c]
    BY <1>0, <2>2 DEF TypeOK
  <2>5. stage[c][p] = "idle"
    BY <1>0, <2>2
  <2> QED
    BY <1>8, <2>1, <2>3, <2>4, <2>5 DEF TypeOK, ReserveHandler
<1>9. ASSUME NEW p \in Plugins, InvokeHandler(c, p)
      PROVE  ChainShape'
  BY <1>9 DEF TypeOK, InvokeHandler
<1>10. ASSUME NEW p \in Plugins, NEW to \in {"run", "core"}, ClaimContinuation(c, p, to)
       PROVE  ChainShape'
  BY <1>10 DEF TypeOK, ClaimContinuation
<1>11. ASSUME NEW p \in Plugins, ClaimWithoutStream(c, p)
       PROVE  ChainShape'
  BY <1>11 DEF TypeOK, ClaimWithoutStream
<1>12. ASSUME NEW p \in Plugins, HandlerReturns(c, p)
       PROVE  ChainShape'
  BY <1>12 DEF TypeOK, HandlerReturns, AfterHandlerReturn
<1>13. ASSUME NEW p \in Plugins, ReleaseHandler(c, p)
       PROVE  ChainShape'
  BY <1>13 DEF TypeOK, ReleaseHandler
<1>14. ASSUME NEW p \in Plugins, LeaveHandler(c, p)
       PROVE  ChainShape'
  <2> DEFINE outer == [stage[c] EXCEPT ![p] = "idle"]
  <2>1. outer \in [Plugins -> Stages]
    BY DEF TypeOK, Stages
  <2>2. stage' = [stage EXCEPT ![c] = outer]
    BY <1>14 DEF LeaveHandler, TypeOK
  <2>3. ReturnToCaller(c, outer)
    BY <1>14 DEF LeaveHandler
  <2> HIDE DEF outer
  <2>4. /\ \A d \in Conns \ {c} : pc'[d] = pc[d]
        /\ pc'[c] \notin {"run", "handler", "core"} => \A q \in Plugins : outer[q] = "idle"
        /\ \A d \in Conns, q \in Plugins : flow'[d][q] = "available" => flow[d][q] = "available"
    BY <2>1, <2>3, ReturnKeepsShape
  <2>5. \A q \in Plugins : q # p => outer[q] = stage[c][q]
    BY DEF outer, TypeOK
  <2>6. outer[p] = "idle" /\ stage[c][p] = "released"
    BY <1>14 DEF outer, TypeOK, LeaveHandler
  <2> QED
    BY <1>14, <2>1, <2>2, <2>4, <2>5, <2>6 DEF TypeOK, LeaveHandler
<1>15. ASSUME NEW p \in Plugins, FinishParticipant(c, p)
       PROVE  ChainShape'
  BY <1>15 DEF TypeOK, FinishParticipant
<1> QED
  BY <1>1, <1>2, <1>3, <1>4, <1>5, <1>6, <1>7, <1>8, <1>9, <1>10, <1>11, <1>12, <1>13, <1>14, <1>15
     DEF ConnStep

-----------------------------------------------------------------------------
(* Reservations.                                                            *)

\* At any time finitely many invocations hold a reservation of a runtime.
LEMMA HoldersFinite ==
  ASSUME NEW r
  PROVE  IsFiniteSet(Holders(r))
<1>1. IsFiniteSet(Conns \X Plugins)
  BY FS_Product, PluginsAssumption, ConnsAssumption
<1>2. Holders(r) \in SUBSET (Conns \X Plugins)
  BY DEF Holders
<1> QED
  BY <1>1, <1>2, FS_Subset

\* An invocation that holds a reservation keeps the count of its runtime positive.
LEMMA HolderCounts ==
  ASSUME TypeOK, ChainShape, ReferencesCounted, NEW c \in Conns, NEW p \in Plugins,
         stage[c][p] \in Holding
  PROVE  snap[c][p] \in Runtimes /\ refs[snap[c][p]] > 0
<1>1. snap[c][p] \in Runtimes
  BY DEF ChainShape, Holding
<1>2. <<c, p>> \in Holders(snap[c][p])
  BY DEF Holders
<1>3. Cardinality(Holders(snap[c][p])) # 0
  BY <1>2, HoldersFinite, FS_EmptySet
<1> QED
  BY <1>1, <1>3 DEF ReferencesCounted, TypeOK

\* A step that moves no reservation keeps the counts exact.
LEMMA SameHolders ==
  ASSUME ReferencesCounted, refs' = refs,
         \A c \in Conns, p \in Plugins :
             /\ stage'[c][p] \in Holding <=> stage[c][p] \in Holding
             /\ stage[c][p] \in Holding => snap'[c][p] = snap[c][p]
  PROVE  ReferencesCounted'
<1>1. ASSUME NEW r \in Runtimes PROVE Holders(r)' = Holders(r)
  BY DEF Holders
<1> QED
  BY <1>1 DEF ReferencesCounted

\* Every step of a connection keeps the counts exact.
LEMMA ConnCounts ==
  ASSUME TypeOK, ChainShape, ReferencesCounted, NEW c \in Conns, Accept(c) \/ ConnStep(c)
  PROVE  ReferencesCounted'
<1> USE DEF Holding
<1>1. CASE Accept(c)
  <2>1. \A p \in Plugins : stage[c][p] = "idle"
    BY <1>1 DEF Accept, ChainShape
  <2> QED
    BY <1>1, <2>1, SameHolders DEF Accept, TypeOK
<1>2. CASE StartSession(c) \/ EnterCore(c) \/ FinishSession(c)
  BY <1>2, SameHolders DEF StartSession, EnterCore, FinishSession
<1>3. CASE CoreReturns(c)
  BY <1>3, SameHolders DEF CoreReturns
<1>4. CASE ConnectionEnds(c)
  <2>1. \A p \in Plugins : stage[c][p] = "idle"
    BY <1>4 DEF ConnectionEnds, ChainShape
  <2> QED
    BY <1>4, <2>1, SameHolders DEF ConnectionEnds, TypeOK
<1>5. ASSUME NEW p \in Plugins,
             SkipHandler(c, p) \/ ClaimContinuation(c, p, "run")
               \/ ClaimContinuation(c, p, "core") \/ ClaimWithoutStream(c, p)
               \/ FinishParticipant(c, p)
      PROVE  ReferencesCounted'
  BY <1>5, SameHolders DEF SkipHandler, ClaimContinuation, ClaimWithoutStream, FinishParticipant
<1>6. ASSUME NEW p \in Plugins, ReserveHandler(c, p)
      PROVE  ReferencesCounted'
  <2>0. PICK s \in Runtimes : s = snap[c][p]
    BY <1>6 DEF ReserveHandler, IsNext, TypeOK, MaybeRuntime
  <2>1. at[c] < p
    BY <1>6 DEF ReserveHandler, IsNext
  <2>2. stage[c][p] = "idle"
    <3>1. Plugins \cup {NoPlugin} \subseteq Nat
      BY PluginsAssumption DEF NoPlugin
    <3>2. at[c] \in Nat /\ p \in Nat
      BY <3>1 DEF TypeOK
    <3> QED
      BY <2>1, <3>2 DEF ChainShape
  <2>3. snap' = snap /\ stage' = [stage EXCEPT ![c][p] = "reserved"]
    BY <1>6 DEF ReserveHandler
  <2>4. Holders(s)' = Holders(s) \cup {<<c, p>>} /\ <<c, p>> \notin Holders(s)
    BY <2>0, <2>2, <2>3 DEF Holders, TypeOK
  <2>5. ASSUME NEW r \in Runtimes, r # s PROVE Holders(r)' = Holders(r)
    BY <2>0, <2>2, <2>3, <2>5 DEF Holders, TypeOK
  <2>6. refs' = [refs EXCEPT ![s] = @ + 1]
    BY <1>6, <2>0 DEF ReserveHandler
  <2>7. Cardinality(Holders(s)') = Cardinality(Holders(s)) + 1
    BY <2>4, HoldersFinite, FS_AddElement
  <2>8. refs \in [Runtimes -> Nat]
    BY DEF TypeOK
  <2> QED
    BY <2>5, <2>6, <2>7, <2>8 DEF ReferencesCounted
<1>7. ASSUME NEW p \in Plugins, InvokeHandler(c, p)
      PROVE  ReferencesCounted'
  BY <1>7, SameHolders DEF InvokeHandler, TypeOK
<1>8. ASSUME NEW p \in Plugins, HandlerReturns(c, p)
      PROVE  ReferencesCounted'
  BY <1>8, SameHolders DEF HandlerReturns, TypeOK
<1>9. ASSUME NEW p \in Plugins, ReleaseHandler(c, p)
      PROVE  ReferencesCounted'
  <2>1. stage[c][p] = "returned"
    BY <1>9 DEF ReleaseHandler
  <2>0. PICK s \in Runtimes : s = snap[c][p]
    BY <2>1, HolderCounts
  <2>2. <<c, p>> \in Holders(s)
    BY <2>0, <2>1 DEF Holders
  <2>3. snap' = snap /\ stage' = [stage EXCEPT ![c][p] = "released"]
    BY <1>9 DEF ReleaseHandler
  <2>4. Holders(s)' = Holders(s) \ {<<c, p>>}
    BY <2>0, <2>3 DEF Holders, TypeOK
  <2>5. ASSUME NEW r \in Runtimes, r # s PROVE Holders(r)' = Holders(r)
    BY <2>0, <2>3, <2>5 DEF Holders, TypeOK
  <2>6. refs' = [refs EXCEPT ![s] = @ - 1]
    BY <1>9, <2>0 DEF ReleaseHandler
  <2>7. Cardinality(Holders(s)') = Cardinality(Holders(s)) - 1
    BY <2>2, <2>4, HoldersFinite, FS_RemoveElement
  <2>8. refs \in [Runtimes -> Nat]
    BY DEF TypeOK
  <2> QED
    BY <2>5, <2>6, <2>7, <2>8 DEF ReferencesCounted
<1>10. ASSUME NEW p \in Plugins, LeaveHandler(c, p)
       PROVE  ReferencesCounted'
  BY <1>10, SameHolders DEF LeaveHandler, TypeOK
<1> QED
  BY <1>1, <1>2, <1>3, <1>4, <1>5, <1>6, <1>7, <1>8, <1>9, <1>10 DEF ConnStep

-----------------------------------------------------------------------------
(* A reservation pins its runtime.                                          *)

\* No invocation holds a runtime whose count is zero.
LEMMA UnreferencedUnheld ==
  ASSUME PinInvariant, NEW r \in Runtimes, ~(refs[r] > 0), NEW c \in Conns, NEW p \in Plugins,
         snap[c][p] = r
  PROVE  stage[c][p] \notin Holding
BY HolderCounts DEF PinInvariant

\* What releaseUpstreamHandler and finishConnectionSession stop is held by nobody.
LEMMA QueuedUnheld ==
  ASSUME PinInvariant, NEW key, QueuePendingStop(Due(key))
  PROVE  /\ StopShape' \/ ~(UNCHANGED <<destroying, closeAt, closing>>)
         /\ \A c \in Conns, p \in Plugins :
              (stage[c][p] \in Holding /\ rtState[snap[c][p]] = "started")
                => rtState'[snap[c][p]] = "started"
<1> USE DEF PinInvariant
<1>1. /\ cleanup' = cleanup \cup Due(key)
      /\ rtState' = [r \in Runtimes |-> IF r \in Due(key) THEN "stopping" ELSE rtState[r]]
  BY DEF QueuePendingStop
<1>2. \A r \in Due(key) : r \in Runtimes /\ ~(refs[r] > 0)
  BY DEF Due, Referenced, TypeOK
<1>3. ASSUME UNCHANGED <<destroying, closeAt, closing>> PROVE StopShape'
  BY <1>1, <1>2, <1>3 DEF StopShape, TypeOK, MaybeRuntime
<1>4. ASSUME NEW c \in Conns, NEW p \in Plugins, stage[c][p] \in Holding,
             rtState[snap[c][p]] = "started"
      PROVE  rtState'[snap[c][p]] = "started"
  <2>1. snap[c][p] \in Runtimes
    BY <1>4, HolderCounts
  <2>2. snap[c][p] \notin Due(key)
    BY <1>2, <1>4, UnreferencedUnheld
  <2> QED
    BY <1>1, <1>4, <2>1, <2>2
<1> QED
  BY <1>3, <1>4

\* A step of a connection takes no runtime away under an invocation.
LEMMA ConnPins ==
  ASSUME PinInvariant, NEW c \in Conns, Accept(c) \/ ConnStep(c)
  PROVE  StopShape' /\ InvocationPinsRuntime'
<1> USE DEF Holding
<1>1. CASE Accept(c)
  <2>1. \A p \in Plugins : stage[c][p] = "idle"
    BY <1>1 DEF Accept, ChainShape, PinInvariant
  <2> QED
    BY <1>1, <2>1 DEF Accept, TypeOK, PinInvariant, StopShape, InvocationPinsRuntime
<1>2. CASE StartSession(c) \/ EnterCore(c) \/ FinishSession(c) \/ CoreReturns(c)
  BY <1>2 DEF StartSession, EnterCore, FinishSession, CoreReturns, PinInvariant, StopShape,
       InvocationPinsRuntime
<1>3. CASE ConnectionEnds(c)
  <2>1. \A p \in Plugins : stage[c][p] = "idle"
    BY <1>3 DEF ConnectionEnds, ChainShape, PinInvariant
  <2> QED
    BY <1>3, <2>1 DEF ConnectionEnds, TypeOK, PinInvariant, StopShape, InvocationPinsRuntime
<1>4. ASSUME NEW p \in Plugins,
             SkipHandler(c, p) \/ ClaimContinuation(c, p, "run")
               \/ ClaimContinuation(c, p, "core") \/ ClaimWithoutStream(c, p)
      PROVE  StopShape' /\ InvocationPinsRuntime'
  BY <1>4 DEF SkipHandler, ClaimContinuation, ClaimWithoutStream, PinInvariant, StopShape,
       InvocationPinsRuntime
<1>5. ASSUME NEW p \in Plugins, ReserveHandler(c, p)
      PROVE  StopShape' /\ InvocationPinsRuntime'
  BY <1>5 DEF ReserveHandler, TypeOK, PinInvariant, StopShape, InvocationPinsRuntime
<1>6. ASSUME NEW p \in Plugins, InvokeHandler(c, p)
      PROVE  StopShape' /\ InvocationPinsRuntime'
  BY <1>6 DEF InvokeHandler, TypeOK, PinInvariant, StopShape, InvocationPinsRuntime
<1>7. ASSUME NEW p \in Plugins, HandlerReturns(c, p) \/ ReleaseHandler(c, p)
      PROVE  StopShape' /\ InvocationPinsRuntime'
  <2>1. \A d \in Conns, q \in Plugins : stage'[d][q] \in Holding => stage[d][q] \in Holding
    <3>1. CASE HandlerReturns(c, p)
      BY <3>1 DEF HandlerReturns, PinInvariant, TypeOK
    <3>2. CASE ReleaseHandler(c, p)
      BY <3>2 DEF ReleaseHandler, PinInvariant, TypeOK
    <3> QED
      BY <1>7, <3>1, <3>2
  <2>2. UNCHANGED <<snap, entered, rtState, cleanup, destroying, closeAt, closing>>
    BY <1>7 DEF HandlerReturns, ReleaseHandler
  <2> QED
    BY <2>1, <2>2 DEF PinInvariant, StopShape, InvocationPinsRuntime
<1>8. ASSUME NEW p \in Plugins, LeaveHandler(c, p)
      PROVE  StopShape' /\ InvocationPinsRuntime'
  <2>1. /\ QueuePendingStop(Due(HandlerKey(snap[c][p])))
        /\ stage' = [stage EXCEPT ![c][p] = "idle"]
        /\ UNCHANGED <<snap, entered, destroying, closeAt, closing>>
    BY <1>8 DEF LeaveHandler
  <2>2. /\ StopShape'
        /\ \A d \in Conns, q \in Plugins :
             (stage[d][q] \in Holding /\ rtState[snap[d][q]] = "started")
               => rtState'[snap[d][q]] = "started"
    BY <2>1, QueuedUnheld
  <2>3. \A d \in Conns, q \in Plugins : stage'[d][q] \in Holding => stage[d][q] \in Holding
    BY <2>1 DEF PinInvariant, TypeOK
  <2> QED
    BY <2>1, <2>2, <2>3 DEF PinInvariant, InvocationPinsRuntime
<1>9. ASSUME NEW p \in Plugins, FinishParticipant(c, p)
      PROVE  StopShape' /\ InvocationPinsRuntime'
  <2>1. /\ QueuePendingStop(Due(HandlerKey(snap[c][p])))
        /\ UNCHANGED <<stage, snap, entered, destroying, closeAt, closing>>
    BY <1>9 DEF FinishParticipant
  <2> QED
    BY <2>1, QueuedUnheld DEF PinInvariant, InvocationPinsRuntime
<1> QED
  BY <1>1, <1>2, <1>3, <1>4, <1>5, <1>6, <1>7, <1>8, <1>9 DEF ConnStep

\* A step that leaves frames alone and takes no held, started runtime out of
\* service keeps the pin.
LEMMA KeepsPin ==
  ASSUME PinInvariant, UNCHANGED <<snap, stage, entered>>,
         closing => closing',
         \A c \in Conns, p \in Plugins :
             (stage[c][p] \in Holding /\ rtState[snap[c][p]] = "started" /\ ~closing')
               => rtState'[snap[c][p]] = "started"
  PROVE  InvocationPinsRuntime'
BY DEF PinInvariant, InvocationPinsRuntime

\* No operation, shutdown or cleanup goroutine takes a runtime away under an
\* invocation before Close.
LEMMA OtherPins ==
  ASSUME PinInvariant, OtherStep
  PROVE  StopShape' /\ InvocationPinsRuntime'
<1> DEFINE Goal == StopShape' /\ InvocationPinsRuntime'
<1>0. UNCHANGED <<snap, stage, entered>>
  BY OtherKeepsFrames
<1>1. ASSUME UNCHANGED <<rtState, cleanup, destroying, closing, closeAt>> PROVE Goal
  BY <1>0, <1>1 DEF PinInvariant, StopShape, InvocationPinsRuntime
<1>2. ASSUME NEW p \in Plugins, NEW r \in Runtimes, StartCandidate(p, r),
             UNCHANGED <<cleanup, destroying, closing, closeAt>>
      PROVE  Goal
  <2>1. rtState[r] = "free" /\ rtState' = [rtState EXCEPT ![r] = "started"]
    BY <1>2 DEF StartCandidate
  <2>2. \A s \in Runtimes : rtState'[s] = IF s = r THEN "started" ELSE rtState[s]
    BY <2>1 DEF PinInvariant, TypeOK
  <2>3. InvocationPinsRuntime'
    <3>1. \A c \in Conns, q \in Plugins : stage[c][q] \in Holding => snap[c][q] \in Runtimes
      BY HolderCounts DEF PinInvariant
    <3> QED
      BY <1>0, <1>2, <2>2, <3>1, KeepsPin
  <2>4. StopShape'
    BY <1>2, <2>1, <2>2 DEF PinInvariant, TypeOK, StopShape, MaybeRuntime
  <2> QED
    BY <2>3, <2>4
<1>3. ASSUME NEW r \in Runtimes, rtState' = [rtState EXCEPT ![r] = "stopped"],
             rtState[r] \in {"stopping", "stopped"} \/ closing,
             cleanup' \subseteq cleanup, destroying' \in {destroying, NoRuntime},
             UNCHANGED <<closing, closeAt>>
      PROVE  Goal
  <2>1. \A s \in Runtimes : rtState'[s] = IF s = r THEN "stopped" ELSE rtState[s]
    BY <1>3 DEF PinInvariant, TypeOK
  <2>2. InvocationPinsRuntime'
    <3>1. \A c \in Conns, q \in Plugins : stage[c][q] \in Holding => snap[c][q] \in Runtimes
      BY HolderCounts DEF PinInvariant
    <3> QED
      BY <1>0, <1>3, <2>1, <3>1, KeepsPin
  <2>3. StopShape'
    BY <1>3, <2>1 DEF PinInvariant, TypeOK, StopShape, MaybeRuntime
  <2> QED
    BY <2>2, <2>3
<1>4. CASE OperationStep
  <2>1. CASE EnableCommits \/ EnableFails \/ ReconcileCollects \/ Publish
    BY <1>1, <2>1 DEF EnableCommits, EnableFails, ReconcileCollects, Publish
  <2>2. CASE EndOperation \/ \E p \in Plugins : RemovePlugin(p)
    BY <1>1, <2>2 DEF EndOperation, RemovePlugin
  <2>3. CASE \E r \in Runtimes : Supersede(r)
    BY <1>1, <2>3 DEF Supersede
  <2>4. ASSUME NEW p \in Plugins, NEW g \in Gens,
               ReconcileSkips(p, g) \/ ReconcileForgets(p, g) \/ ReconcileReuses(p, g)
        PROVE  Goal
    BY <1>1, <2>4 DEF ReconcileSkips, ReconcileForgets, ReconcileReuses
  <2>5. ASSUME NEW p \in Plugins, NEW g \in Gens, NEW r \in Runtimes, NEW usable \in BOOLEAN,
               ReconcileStarts(p, g, r, usable)
        PROVE  Goal
    BY <1>2, <2>5 DEF ReconcileStarts
  <2>6. ASSUME NEW r \in Runtimes, RetireRuntime(r)
        PROVE  Goal
    <3>1. CASE Referenced(r, Identity(r))
      BY <1>1, <2>6, <3>1 DEF RetireRuntime
    <3>2. CASE ~Referenced(r, Identity(r))
      <4>1. ~(refs[r] > 0)
        BY <3>2 DEF Referenced
      <4>2. /\ destroying' = r /\ UNCHANGED <<cleanup, closing, closeAt>>
            /\ rtState' = [rtState EXCEPT ![r] = "stopping"]
        BY <2>6, <3>2 DEF RetireRuntime
      <4>3. \A s \in Runtimes : rtState'[s] = IF s = r THEN "stopping" ELSE rtState[s]
        BY <4>2 DEF PinInvariant, TypeOK
      <4>4. StopShape'
        BY <4>2, <4>3 DEF PinInvariant, TypeOK, StopShape, MaybeRuntime
      <4>5. \A c \in Conns, q \in Plugins :
               stage[c][q] \in Holding => snap[c][q] \in Runtimes /\ snap[c][q] # r
        BY <4>1, HolderCounts DEF PinInvariant
      <4> QED
        BY <1>0, <4>2, <4>3, <4>4, <4>5, KeepsPin
    <3> QED
      BY <3>1, <3>2
  <2>7. CASE RuntimeDestroyed
    <3>1. /\ destroying \in Runtimes /\ rtState[destroying] \in {"stopping", "stopped"}
          /\ rtState' = [rtState EXCEPT ![destroying] = "stopped"]
          /\ destroying' = NoRuntime /\ UNCHANGED <<cleanup, closing, closeAt>>
      BY <2>7 DEF RuntimeDestroyed, PinInvariant, TypeOK, StopShape, MaybeRuntime
    <3> QED
      BY <1>3, <3>1
  <2> QED
    BY <1>4, <2>1, <2>2, <2>3, <2>4, <2>5, <2>6, <2>7 DEF OperationStep
<1>5. CASE AdminStep
  <2>1. ASSUME NEW p \in Plugins, NEW r \in Runtimes, Load(p, r) \/ EnableStarts(p, r)
        PROVE  Goal
    BY <1>2, <2>1 DEF Load, EnableStarts
  <2>2. ASSUME NEW p \in Plugins,
               (\E on \in BOOLEAN : SetDesired(p, on)) \/ ReloadConfig(p) \/ EnableReuses(p) \/ LoadForgets(p)
        PROVE  Goal
    BY <1>1, <2>2 DEF SetDesired, ReloadConfig, EnableReuses, LoadForgets
  <2>3. ASSUME NEW p \in Plugins, Withdraw(p) \/ Quarantine(p) \/ Isolate(p)
        PROVE  Goal
    BY <1>1, <2>3 DEF Withdraw, Quarantine, Isolate
  <2>4. CASE ReconcileBegins
    BY <1>1, <2>4 DEF ReconcileBegins
  <2> QED
    BY <1>5, <2>1, <2>2, <2>3, <2>4 DEF AdminStep
<1>6. CASE CloseBegins
  BY <1>0, <1>6 DEF CloseBegins, PinInvariant, StopShape, InvocationPinsRuntime
<1>7. CASE CloseStep
  <2>1. CASE CloseTakes
    <3>1. closing
      BY <2>1 DEF CloseTakes, PinInvariant, StopShape
    <3> QED
      BY <1>0, <2>1, <3>1 DEF CloseTakes, PinInvariant, StopShape, InvocationPinsRuntime
  <2>2. ASSUME NEW r \in Runtimes, CloseStops(r)
        PROVE  Goal
    <3>1. closing
      BY <2>2 DEF CloseStops, PinInvariant, StopShape
    <3> QED
      BY <1>3, <2>2, <3>1 DEF CloseStops
  <2>3. CASE CloseTakesPending \/ CloseEnds
    <3>1. closing
      BY <2>3 DEF CloseTakesPending, CloseEnds, PinInvariant, StopShape
    <3> QED
      BY <1>0, <2>3, <3>1 DEF CloseTakesPending, CloseEnds, PinInvariant, StopShape,
           InvocationPinsRuntime
  <2> QED
    BY <1>7, <2>1, <2>2, <2>3 DEF CloseStep
<1>8. ASSUME NEW r \in Runtimes, CleanupStops(r)
      PROVE  Goal
  <2>1. r \in cleanup /\ rtState[r] \in {"stopping", "stopped"}
    BY <1>8 DEF CleanupStops, PinInvariant, StopShape
  <2> QED
    BY <1>3, <1>8, <2>1 DEF CleanupStops
<1> QED
  BY <1>4, <1>5, <1>6, <1>7, <1>8 DEF OtherStep

-----------------------------------------------------------------------------
(* The theorems.                                                            *)

\* PinInvariant holds initially.
LEMMA InitPinInvariant == Init => PinInvariant
<1> SUFFICES ASSUME Init PROVE PinInvariant
  OBVIOUS
<1>1. TypeOK
  BY InitTypeOK
<1>2. \A c \in Conns, p \in Plugins : stage[c][p] = "idle" /\ flow[c][p] = "none"
  BY DEF Init
<1>3. ChainShape
  BY <1>2 DEF ChainShape, Init
<1>4. ASSUME NEW r \in Runtimes PROVE refs[r] = Cardinality(Holders(r))
  <2>1. Holders(r) = {}
    BY <1>2 DEF Holders, Holding
  <2> QED
    BY <2>1, FS_EmptySet DEF Init
<1>5. StopShape
  BY DEF Init, StopShape
<1>6. InvocationPinsRuntime
  BY <1>2 DEF InvocationPinsRuntime, Holding
<1> QED
  BY <1>1, <1>3, <1>4, <1>5, <1>6 DEF PinInvariant, ReferencesCounted

\* PinInvariant is inductive.
LEMMA NextPinInvariant == PinInvariant /\ [Next]_vars => PinInvariant'
<1> SUFFICES ASSUME PinInvariant, [Next]_vars PROVE PinInvariant'
  OBVIOUS
<1>1. ASSUME NEW c \in Conns, Accept(c) \/ ConnStep(c)
      PROVE  PinInvariant'
  <2>1. TypeOK'
    <3>1. \A p \in Plugins : stage[c][p] = "returned" =>
             snap[c][p] \in Runtimes /\ refs[snap[c][p]] > 0
      BY HolderCounts DEF PinInvariant, Holding
    <3> QED
      BY <1>1, <3>1, ConnTypeOK DEF PinInvariant
  <2>2. ChainShape'
    BY <1>1, ConnKeepsShape DEF PinInvariant
  <2>3. ReferencesCounted'
    BY <1>1, ConnCounts DEF PinInvariant
  <2>4. StopShape' /\ InvocationPinsRuntime'
    BY <1>1, ConnPins
  <2> QED
    BY <2>1, <2>2, <2>3, <2>4 DEF PinInvariant
<1>2. CASE OtherStep
  <2>1. TypeOK'
    BY <1>2, OperationTypeOK, AdminTypeOK, StopTypeOK DEF OtherStep, PinInvariant, ChainShape
  <2>2. UNCHANGED <<pc, snap, at, stage, flow, entered, refs>>
    BY <1>2, OtherKeepsFrames
  <2>3. ChainShape'
    <3>1. phase' \in {"enable", "reenable"} => target' \in Plugins
      BY <1>2, OtherKeepsTarget DEF PinInvariant, ChainShape
    <3> QED
      BY <2>2, <3>1 DEF PinInvariant, ChainShape
  <2>4. ReferencesCounted'
    BY <2>2, SameHolders DEF PinInvariant
  <2>5. StopShape' /\ InvocationPinsRuntime'
    BY <1>2, OtherPins
  <2> QED
    BY <2>1, <2>3, <2>4, <2>5 DEF PinInvariant
<1>3. CASE UNCHANGED vars
  <2>1. TypeOK'
    BY <1>3 DEF vars, PinInvariant, TypeOK
  <2>2. ChainShape' /\ StopShape' /\ InvocationPinsRuntime'
    BY <1>3 DEF vars, PinInvariant, ChainShape, StopShape, InvocationPinsRuntime
  <2>3. ReferencesCounted'
    BY <1>3, SameHolders DEF vars, PinInvariant
  <2> QED
    BY <2>1, <2>2, <2>3 DEF PinInvariant
<1> QED
  BY <1>1, <1>2, <1>3 DEF Next, OtherStep

\* For any plugins, connections and runtimes, every state of the manager is well
\* typed, its reference counts are exact, and no runtime is retired under an
\* invocation.
THEOREM PinInvariantHolds == Spec => []PinInvariant
<1>1. Init => PinInvariant
  BY InitPinInvariant
<1>2. PinInvariant /\ [Next]_vars => PinInvariant'
  BY NextPinInvariant
<1> QED
  BY <1>1, <1>2, PTL DEF Spec

\* Every variable of the manager and of the connections keeps its type.
THEOREM TypeCorrect == Spec => []TypeOK
<1>1. PinInvariant => TypeOK
  BY DEF PinInvariant
<1> QED
  BY <1>1, PinInvariantHolds, PTL

\* handler.runtimeRefs is the number of invocations of the handler in progress.
THEOREM ReferenceCountsExact == Spec => []ReferencesCounted
<1>1. PinInvariant => ReferencesCounted
  BY DEF PinInvariant
<1> QED
  BY <1>1, PinInvariantHolds, PTL

\* A handler invocation that found its runtime running keeps it until it returns,
\* unless Close runs: deferRuntimeRetirementIfActive and the pending stops are
\* enough, whatever the operations do.
THEOREM InvocationsPinRuntimes == Spec => []InvocationPinsRuntime
<1>1. PinInvariant => InvocationPinsRuntime
  BY DEF PinInvariant
<1> QED
  BY <1>1, PinInvariantHolds, PTL

-----------------------------------------------------------------------------
(* A runtime has one owner.                                                 *)

\* Where a runtime that has to be stopped one day is kept.
IsLoaded(r) == \E p \in Plugins : loaded[p] = r
IsDisplaced(r) == \E p \in Plugins : r \in displaced[p]
InHand(r) == r \in oldQ \/ r \in retiring \/ r = replaced
AwaitsStop(r) == r \in pendingStops \/ r \in closeQ
Kept(r) == IsLoaded(r) \/ IsDisplaced(r) \/ InHand(r) \/ AwaitsStop(r)

\* m.loaded and m.displaced file a runtime under its plugin.
FiledByOwner ==
    \A p \in Plugins :
        /\ loaded[p] # NoRuntime => owner[loaded[p]] = p
        /\ \A r \in displaced[p] : owner[r] = p

\* A runtime is kept in one place, as long as it runs.
KeptOnceAt(r) ==
    /\ IsLoaded(r) => ~IsDisplaced(r) /\ ~InHand(r) /\ ~AwaitsStop(r)
    /\ IsDisplaced(r) => ~InHand(r) /\ ~AwaitsStop(r)
    /\ InHand(r) => ~AwaitsStop(r)
    /\ r \in oldQ => r \notin retiring /\ r # replaced
    /\ r \in retiring => r # replaced
    /\ r \in pendingStops => r \notin closeQ
    /\ Kept(r) => rtState[r] = "started"
KeptOnce == \A r \in Runtimes : KeptOnceAt(r)

\* A stop in progress has one goroutine, which will report it done.
StoppedOnce ==
    \A r \in Runtimes :
        /\ rtState[r] = "stopping" <=> (r \in cleanup \/ r = destroying)
        /\ r \in cleanup => r # destroying

\* What the operation that holds m.mu has in hand, and when.
HandShape ==
    /\ phase \in {"enable", "reenable"} => target \in Plugins /\ cand \in Runtimes /\ cand = loaded[target]
    /\ phase = "enable" /\ replaced # NoRuntime => owner[replaced] = target
    /\ phase # "enable" => replaced = NoRuntime
    /\ phase \notin {"reconcile", "supersede"} => oldQ = {}
    /\ phase \notin {"supersede", "retire"} => retiring = {}
    /\ phase # "retire" => destroying = NoRuntime

\* How far Close has got.
CloseShape ==
    /\ closeAt # "open" => closing
    /\ closeAt \in {"open", "begun", "done"} => closeQ = {}
    /\ closeAt \in {"destroy", "pending", "done"} =>
        /\ \A p \in Plugins : loaded[p] = NoRuntime /\ displaced[p] = {}
        /\ phase \in {"idle", "retire"} /\ retiring = {} /\ destroying = NoRuntime
    /\ closeAt \in {"pending", "done"} => pendingStops = {}
    /\ closeAt = "done" => cleanup = {}

OwnerInvariant ==
    FiledByOwner /\ KeptOnce /\ StoppedOnce /\ HandShape /\ CloseShape

\* A runtime that runs and was not let go of is kept.
NoneForgotten ==
    \A r \in Runtimes : (rtState[r] = "started" /\ r \notin dropped) => Kept(r)

\* A runtime that was started and is in no place from which it could be published or
\* superseded again, and one that nobody will stop either.
Gone(r) == rtState[r] # "free" /\ ~IsLoaded(r) /\ ~IsDisplaced(r) /\ r # replaced
LetGo(r) ==
    /\ rtState[r] = "started"
    /\ r \notin oldQ /\ r \notin retiring /\ r \notin pendingStops /\ r \notin closeQ

\* What was let go of is never taken up again, and what was superseded is never
\* loaded, set aside or replaced again.
DroppedForGood == \A r \in dropped : Gone(r) /\ LetGo(r)
SupersededGone == \A r \in hdraining : Gone(r)

\* What the ownership of runtimes depends on.
ownVars == <<loaded, displaced, owner, oldQ, retiring, replaced, pendingStops, closeQ, rtState,
             cleanup, destroying, phase, target, cand, closeAt, closing, dropped>>

\* A step that touches nothing of it.
LEMMA OwnerSame ==
  ASSUME OwnerInvariant, UNCHANGED ownVars
  PROVE  OwnerInvariant'
BY DEF OwnerInvariant, ownVars, FiledByOwner, KeptOnce, KeptOnceAt, StoppedOnce, HandShape, CloseShape,
     IsLoaded, IsDisplaced, InHand, AwaitsStop, Kept

\* An isolation or the crash-loop branch empties m.loaded[p]; nobody else takes the
\* runtime over.
LEMMA OwnerForgets ==
  ASSUME TypeOK, OwnerInvariant, NEW p \in Plugins, phase \in {"idle", "reconcile"},
         loaded' = [loaded EXCEPT ![p] = NoRuntime],
         UNCHANGED <<displaced, owner, oldQ, retiring, replaced, pendingStops, closeQ, rtState,
                     cleanup, destroying, phase, target, cand, closeAt, closing>>
  PROVE  OwnerInvariant'
<1>1. \A q \in Plugins : loaded'[q] = IF q = p THEN NoRuntime ELSE loaded[q]
  BY DEF TypeOK
<1>2. \A r \in Runtimes : /\ IsLoaded(r)' => IsLoaded(r)
                          /\ IsDisplaced(r)' <=> IsDisplaced(r)
                          /\ InHand(r)' <=> InHand(r)
                          /\ AwaitsStop(r)' <=> AwaitsStop(r)
  BY <1>1, RuntimesAssumption DEF IsLoaded, IsDisplaced, InHand, AwaitsStop
<1>3. KeptOnce'
  BY <1>2 DEF OwnerInvariant, KeptOnce, KeptOnceAt, Kept
<1>4. FiledByOwner' /\ StoppedOnce'
  BY <1>1 DEF OwnerInvariant, FiledByOwner, StoppedOnce
<1>5. HandShape' /\ CloseShape'
  BY <1>1 DEF OwnerInvariant, HandShape, CloseShape
<1> QED
  BY <1>3, <1>4, <1>5 DEF OwnerInvariant

\* What a start replaces is the runtime loaded before, or nothing.
LEMMA PreviousIs ==
  ASSUME NEW p, NEW g
  PROVE  Previous(p, g) \in {NoRuntime, loaded[p]}
BY DEF Previous

\* A pending stop that is due moves to its cleanup goroutine.
LEMMA OwnerQueue ==
  ASSUME TypeOK, OwnerInvariant, NEW key, QueuePendingStop(Due(key)),
         UNCHANGED <<loaded, displaced, owner, oldQ, retiring, replaced, closeQ, destroying, phase,
                     target, cand, closeAt, closing>>
  PROVE  OwnerInvariant'
<1> DEFINE due == Due(key)
<1>1. /\ due \subseteq pendingStops /\ pendingStops' = pendingStops \ due /\ cleanup' = cleanup \cup due
      /\ \A r \in Runtimes : rtState'[r] = IF r \in due THEN "stopping" ELSE rtState[r]
  BY DEF QueuePendingStop, Due
<1> HIDE DEF due
<1>2. \A r \in Runtimes : r \in due => rtState[r] = "started" /\ ~IsLoaded(r) /\ ~IsDisplaced(r) /\ ~InHand(r)
                                       /\ r \notin closeQ
  BY <1>1 DEF OwnerInvariant, KeptOnce, KeptOnceAt, AwaitsStop, Kept
<1>3. \A r : /\ IsLoaded(r)' <=> IsLoaded(r)
             /\ IsDisplaced(r)' <=> IsDisplaced(r)
             /\ InHand(r)' <=> InHand(r)
             /\ AwaitsStop(r)' <=> (AwaitsStop(r) /\ r \notin due) \/ r \in closeQ
  BY <1>1 DEF IsLoaded, IsDisplaced, InHand, AwaitsStop
<1>4. ASSUME NEW r \in Runtimes PROVE KeptOnceAt(r)'
  <2>1. KeptOnceAt(r)
    BY DEF OwnerInvariant, KeptOnce
  <2>2. CASE r \in due
    BY <1>1, <1>2, <1>3, <2>1, <2>2 DEF KeptOnceAt, Kept
  <2>3. CASE r \notin due
    BY <1>1, <1>3, <2>1, <2>3 DEF KeptOnceAt, Kept, AwaitsStop
  <2> QED
    BY <2>2, <2>3
<1>5. StoppedOnce'
  BY <1>1, <1>2 DEF OwnerInvariant, StoppedOnce
<1>6. FiledByOwner' /\ HandShape'
  BY DEF OwnerInvariant, FiledByOwner, HandShape
<1>7. CloseShape'
  BY <1>1 DEF OwnerInvariant, CloseShape
<1> QED
  BY <1>4, <1>5, <1>6, <1>7 DEF OwnerInvariant, KeptOnce

\* No step of a connection loses or doubles a runtime.
LEMMA ConnOwner ==
  ASSUME PinInvariant, OwnerInvariant, NEW c \in Conns, Accept(c) \/ ConnStep(c)
  PROVE  OwnerInvariant'
<1> USE DEF PinInvariant
<1>1. CASE Accept(c) \/ StartSession(c) \/ EnterCore(c) \/ FinishSession(c) \/ CoreReturns(c)
           \/ ConnectionEnds(c)
  BY <1>1, OwnerSame DEF ownVars, Accept, StartSession, EnterCore, FinishSession, CoreReturns,
       ConnectionEnds
<1>2. ASSUME NEW p \in Plugins,
             SkipHandler(c, p) \/ ReserveHandler(c, p) \/ InvokeHandler(c, p)
               \/ ClaimContinuation(c, p, "run") \/ ClaimContinuation(c, p, "core")
               \/ ClaimWithoutStream(c, p) \/ HandlerReturns(c, p) \/ ReleaseHandler(c, p)
      PROVE  OwnerInvariant'
  BY <1>2, OwnerSame DEF ownVars, SkipHandler, ReserveHandler, InvokeHandler, ClaimContinuation,
       ClaimWithoutStream, HandlerReturns, ReleaseHandler
<1>3. ASSUME NEW p \in Plugins, LeaveHandler(c, p) \/ FinishParticipant(c, p)
      PROVE  OwnerInvariant'
  BY <1>3, OwnerQueue DEF LeaveHandler, FinishParticipant
<1> QED
  BY <1>1, <1>2, <1>3 DEF ConnStep

\* Nor does the operation that holds m.mu, whichever way it ends.
LEMMA OperationOwner ==
  ASSUME PinInvariant, PinInvariant', OwnerInvariant, OperationStep
  PROVE  OwnerInvariant'
<1> USE RuntimesAssumption DEF PinInvariant, OwnerInvariant, NoPlugin
<1>1. ASSUME EnableCommits
      PROVE  OwnerInvariant'
  <2>1. FiledByOwner'
    BY <1>1 DEF EnableCommits, Just, TypeOK, MaybeRuntime, FiledByOwner, KeptOnce, KeptOnceAt, Kept,
       IsLoaded,
         IsDisplaced, HandShape
  <2>2. ASSUME NEW r \in Runtimes PROVE KeptOnceAt(r)'
    <3>1. KeptOnceAt(r)
      BY DEF KeptOnce
    <3>2. /\ target \in Plugins
          /\ retiring = {}
          /\ oldQ' = displaced[target] \cup Just(replaced)
          /\ displaced' = [displaced EXCEPT ![target] = {}]
          /\ replaced' = NoRuntime
          /\ UNCHANGED <<loaded, retiring, pendingStops, closeQ, rtState>>
      BY <1>1 DEF EnableCommits, HandShape
    <3>3. \A p \in Plugins : displaced'[p] = IF p = target THEN {} ELSE displaced[p]
      BY <3>2 DEF TypeOK
    <3>4. r # NoRuntime
      OBVIOUS
    <3>5. IsLoaded(r)' <=> IsLoaded(r)
      BY <3>2 DEF IsLoaded
    <3>6. AwaitsStop(r)' <=> AwaitsStop(r)
      BY <3>2 DEF AwaitsStop
    <3>7. r \in oldQ' <=> r \in displaced[target] \/ r = replaced
      BY <3>2, <3>4 DEF Just
    <3>8. IsDisplaced(r)' => IsDisplaced(r) /\ r \notin displaced[target]
      <4>1. ASSUME NEW p \in Plugins, r \in displaced'[p]
            PROVE  p # target /\ r \in displaced[p]
        BY <3>3, <4>1
      <4>2. ASSUME NEW p \in Plugins, p # target, r \in displaced[p]
            PROVE  r \notin displaced[target]
        BY <3>2, <4>2 DEF FiledByOwner
      <4> QED
        BY <4>1, <4>2 DEF IsDisplaced
    <3>9. InHand(r)' <=> r \in displaced[target] \/ r = replaced
      BY <3>2, <3>4, <3>7 DEF InHand
    <3>10. r \in displaced[target] => IsDisplaced(r)
      BY <3>2 DEF IsDisplaced
    <3>11. r = replaced => InHand(r)
      BY DEF InHand
    <3>12. (Kept(r) => rtState[r] = "started") /\ (Kept(r)' => Kept(r))
      BY <3>1, <3>5, <3>6, <3>8, <3>9, <3>10, <3>11 DEF KeptOnceAt, Kept
    <3> QED
      BY <3>1, <3>2, <3>4, <3>5, <3>6, <3>8, <3>9, <3>10, <3>11, <3>12 DEF KeptOnceAt
  <2>3. StoppedOnce'
    BY <1>1 DEF EnableCommits, Just, TypeOK, MaybeRuntime, StoppedOnce, KeptOnce, KeptOnceAt, Kept,
       AwaitsStop,
         InHand, HandShape
  <2>4. HandShape'
    BY <1>1 DEF EnableCommits, Just, TypeOK, MaybeRuntime, HandShape, CloseShape, FiledByOwner
  <2>5. CloseShape'
    BY <1>1 DEF EnableCommits, Just, TypeOK, MaybeRuntime, CloseShape, HandShape
  <2> QED
    BY <2>1, <2>2, <2>3, <2>4, <2>5 DEF KeptOnce
<1>2. ASSUME EnableFails
      PROVE  OwnerInvariant'
  <2>1. /\ target \in Plugins /\ cand \in Runtimes /\ loaded[target] = cand
        /\ oldQ = {} /\ retiring = {}
    BY <1>2 DEF EnableFails, HandShape
  <2>2. \/ Restored = NoRuntime /\ displaced[target] = {} /\ replaced = NoRuntime
        \/ Restored \in displaced[target]
        \/ Restored \in Runtimes /\ Restored = replaced /\ displaced[target] = {}
    BY <2>1 DEF Restored, TypeOK, MaybeRuntime
  <2>3. Restored # NoRuntime => owner[Restored] = target
    BY <1>2, <2>1, <2>2 DEF EnableFails, HandShape, FiledByOwner, TypeOK
  <2>4. FiledByOwner'
    BY <1>2, <2>1, <2>3 DEF EnableFails, FiledByOwner, TypeOK
  <2>5. ASSUME NEW r \in Runtimes PROVE KeptOnceAt(r)'
    <3>1. KeptOnceAt(r) /\ (\A q \in Plugins : loaded[q] = loaded[target] => q = target)
      BY <2>1 DEF KeptOnce, FiledByOwner
    <3>2. Restored \in Runtimes => Restored # cand
      BY <2>1, <2>2 DEF KeptOnce, KeptOnceAt, IsLoaded, IsDisplaced, InHand, TypeOK
    <3>3. CASE NothingToRollBack
      BY <1>2, <2>1, <3>1, <3>3 DEF EnableFails, KeptOnceAt, Kept, IsLoaded, IsDisplaced, InHand,
           AwaitsStop, NothingToRollBack
    <3>4. CASE ~NothingToRollBack
      <4>1. /\ loaded' = [loaded EXCEPT ![target] = Restored]
            /\ displaced' = [displaced EXCEPT ![target] = {}]
            /\ retiring' = (displaced[target] \cup Just(replaced) \cup Just(cand)) \ {Restored}
            /\ replaced' = NoRuntime /\ oldQ' = {}
            /\ UNCHANGED <<pendingStops, closeQ, rtState>>
        BY <1>2, <2>1, <3>4 DEF EnableFails, RolledBack
      <4>2. IsLoaded(r)' <=> r = Restored \/ (IsLoaded(r) /\ r # cand)
        BY <2>1, <3>1, <4>1 DEF IsLoaded, TypeOK
      <4>3. IsDisplaced(r)' <=> (\E q \in Plugins : q # target /\ r \in displaced[q])
        BY <4>1 DEF IsDisplaced, TypeOK
      <4>4. InHand(r)' <=> r # Restored /\ (r \in displaced[target] \/ r = replaced \/ r = cand)
        BY <4>1 DEF InHand, Just
      <4>5. AwaitsStop(r)' <=> AwaitsStop(r)
        BY <4>1 DEF AwaitsStop
      <4>6. \A q \in Plugins : (r \in displaced[q] /\ r \in displaced[target]) => q = target
        BY <2>1 DEF FiledByOwner
      <4>7. r \in displaced[target] => IsDisplaced(r)
        BY <2>1 DEF IsDisplaced
      <4>8. r = cand => IsLoaded(r)
        BY <2>1 DEF IsLoaded
      <4>9. \A q \in Plugins : r \in displaced[q] => IsDisplaced(r)
        BY DEF IsDisplaced
      <4>10. r = replaced => InHand(r)
        BY DEF InHand
      <4>11. \A q \in Plugins : r \in displaced[q] /\ r = Restored => q = target
        BY <2>1, <2>3 DEF FiledByOwner
      <4>12. r \in pendingStops' => r \notin closeQ'
        BY <3>1, <4>1 DEF KeptOnceAt
      <4>13. Kept(r)' => Kept(r)
        BY <2>2, <4>2, <4>3, <4>4, <4>5, <4>7, <4>8, <4>9, <4>10 DEF Kept
      <4>14. Kept(r)' => rtState'[r] = "started"
        BY <3>1, <4>1, <4>13 DEF KeptOnceAt
      <4>15. IsLoaded(r)' => ~IsDisplaced(r)' /\ ~InHand(r)' /\ ~AwaitsStop(r)'
        BY <2>2, <3>1, <4>2, <4>3, <4>4, <4>5, <4>7, <4>9, <4>10, <4>11 DEF KeptOnceAt
      <4>16. IsDisplaced(r)' => ~InHand(r)' /\ ~AwaitsStop(r)'
        BY <3>1, <4>3, <4>4, <4>5, <4>6, <4>8, <4>9, <4>10 DEF KeptOnceAt
      <4>17. InHand(r)' => ~AwaitsStop(r)'
        BY <3>1, <4>4, <4>5, <4>7, <4>8, <4>10 DEF KeptOnceAt
      <4> QED
        BY <4>1, <4>12, <4>14, <4>15, <4>16, <4>17 DEF KeptOnceAt
    <3> QED
      BY <3>3, <3>4
  <2>6. StoppedOnce'
    BY <1>2 DEF EnableFails, StoppedOnce
  <2>7. HandShape'
    BY <1>2, <2>1 DEF EnableFails, HandShape
  <2>8. CloseShape'
    BY <1>2 DEF EnableFails, CloseShape
  <2> QED
    BY <2>4, <2>5, <2>6, <2>7, <2>8 DEF KeptOnce
<1>3. ASSUME NEW p \in Plugins, NEW g \in Gens, ReconcileSkips(p, g)
      PROVE  OwnerInvariant'
  BY <1>3, OwnerSame DEF ownVars, ReconcileSkips
<1>4. ASSUME NEW p \in Plugins, NEW g \in Gens, ReconcileReuses(p, g)
      PROVE  OwnerInvariant'
  BY <1>4, OwnerSame DEF ownVars, ReconcileReuses
<1>5. ASSUME NEW p \in Plugins, NEW g \in Gens, NEW q \in Runtimes, NEW usable \in BOOLEAN, ReconcileStarts(p, g, q, usable)
      PROVE  OwnerInvariant'
  <2>1. FiledByOwner'
    <3>1. /\ rtState[q] = "free" /\ owner' = [owner EXCEPT ![q] = p]
          /\ loaded' = [loaded EXCEPT ![p] = q] /\ displaced' = displaced
      BY <1>5 DEF ReconcileStarts, StartCandidate
    <3>2. ~IsLoaded(q) /\ ~IsDisplaced(q)
      BY <3>1 DEF KeptOnce, KeptOnceAt, Kept
    <3>3. \A r \in Runtimes : owner'[r] = IF r = q THEN p ELSE owner[r]
      BY <3>1 DEF TypeOK
    <3>4. \A x \in Plugins : loaded'[x] = IF x = p THEN q ELSE loaded[x]
      BY <3>1 DEF TypeOK
    <3>5. ASSUME NEW x \in Plugins, loaded'[x] # NoRuntime PROVE owner'[loaded'[x]] = x
      <4>1. CASE x = p
        BY <3>3, <3>4, <4>1
      <4>2. CASE x # p
        <5>1. loaded'[x] = loaded[x] /\ loaded[x] \in Runtimes
          BY <3>4, <3>5, <4>2 DEF TypeOK, MaybeRuntime
        <5>2. loaded[x] # q /\ owner[loaded[x]] = x
          BY <3>2, <3>5, <5>1 DEF FiledByOwner, IsLoaded
        <5> QED
          BY <3>3, <5>1, <5>2
      <4> QED
        BY <4>1, <4>2
    <3>6. ASSUME NEW x \in Plugins, NEW r \in displaced[x] PROVE owner'[r] = x
      BY <3>2, <3>3 DEF FiledByOwner, IsDisplaced, TypeOK
    <3> QED
      BY <3>1, <3>5, <3>6 DEF FiledByOwner
  <2>2. ASSUME NEW r \in Runtimes PROVE KeptOnceAt(r)'
    <3>1. KeptOnceAt(r)
      BY DEF KeptOnce
    <3> QED
      BY <1>5, <3>1, PreviousIs DEF ReconcileStarts, StartCandidate, Just, TypeOK, MaybeRuntime, KeptOnceAt,
         Kept, IsLoaded, IsDisplaced,
           InHand, AwaitsStop, HandShape, FiledByOwner, CloseShape
  <2>3. StoppedOnce'
    BY <1>5 DEF ReconcileStarts, StartCandidate, Just, TypeOK, MaybeRuntime, StoppedOnce, KeptOnce,
       KeptOnceAt, Kept, AwaitsStop,
         InHand, HandShape
  <2>4. HandShape'
    BY <1>5 DEF ReconcileStarts, StartCandidate, Just, TypeOK, MaybeRuntime, HandShape, CloseShape,
       FiledByOwner
  <2>5. CloseShape'
    BY <1>5 DEF ReconcileStarts, StartCandidate, Just, TypeOK, MaybeRuntime, CloseShape, HandShape
  <2> QED
    BY <2>1, <2>2, <2>3, <2>4, <2>5 DEF KeptOnce
<1>6. ASSUME ReconcileCollects
      PROVE  OwnerInvariant'
  <2>1. FiledByOwner'
    BY <1>6 DEF ReconcileCollects, TypeOK, MaybeRuntime, FiledByOwner, KeptOnce, KeptOnceAt, Kept,
       IsLoaded,
         IsDisplaced, HandShape
  <2>2. ASSUME NEW r \in Runtimes PROVE KeptOnceAt(r)'
    <3>1. KeptOnceAt(r)
      BY DEF KeptOnce
    <3> QED
      BY <1>6, <3>1 DEF ReconcileCollects, TypeOK, MaybeRuntime, KeptOnceAt, Kept, IsLoaded, IsDisplaced,
           InHand, AwaitsStop, HandShape, FiledByOwner, CloseShape
  <2>3. StoppedOnce'
    BY <1>6 DEF ReconcileCollects, TypeOK, MaybeRuntime, StoppedOnce, KeptOnce, KeptOnceAt, Kept,
       AwaitsStop,
         InHand, HandShape
  <2>4. HandShape'
    BY <1>6 DEF ReconcileCollects, TypeOK, MaybeRuntime, HandShape, CloseShape, FiledByOwner
  <2>5. CloseShape'
    BY <1>6 DEF ReconcileCollects, TypeOK, MaybeRuntime, CloseShape, HandShape
  <2> QED
    BY <2>1, <2>2, <2>3, <2>4, <2>5 DEF KeptOnce
<1>7. ASSUME NEW q \in Runtimes, Supersede(q)
      PROVE  OwnerInvariant'
  <2>1. FiledByOwner'
    BY <1>7 DEF Supersede, TypeOK, MaybeRuntime, FiledByOwner, KeptOnce, KeptOnceAt, Kept, IsLoaded,
         IsDisplaced, HandShape
  <2>2. ASSUME NEW r \in Runtimes PROVE KeptOnceAt(r)'
    <3>1. KeptOnceAt(r)
      BY DEF KeptOnce
    <3> QED
      BY <1>7, <3>1 DEF Supersede, TypeOK, MaybeRuntime, KeptOnceAt, Kept, IsLoaded, IsDisplaced,
           InHand, AwaitsStop, HandShape, FiledByOwner, CloseShape
  <2>3. StoppedOnce'
    BY <1>7 DEF Supersede, TypeOK, MaybeRuntime, StoppedOnce, KeptOnce, KeptOnceAt, Kept, AwaitsStop,
         InHand, HandShape
  <2>4. HandShape'
    BY <1>7 DEF Supersede, TypeOK, MaybeRuntime, HandShape, CloseShape, FiledByOwner
  <2>5. CloseShape'
    BY <1>7 DEF Supersede, TypeOK, MaybeRuntime, CloseShape, HandShape
  <2> QED
    BY <2>1, <2>2, <2>3, <2>4, <2>5 DEF KeptOnce
<1>8. ASSUME NEW q \in Runtimes, RetireRuntime(q)
      PROVE  OwnerInvariant'
  <2>1. FiledByOwner'
    BY <1>8 DEF RetireRuntime, TypeOK, MaybeRuntime, FiledByOwner, KeptOnce, KeptOnceAt, Kept, IsLoaded,
         IsDisplaced, HandShape
  <2>2. ASSUME NEW r \in Runtimes PROVE KeptOnceAt(r)'
    <3>1. KeptOnceAt(r)
      BY DEF KeptOnce
    <3> QED
      BY <1>8, <3>1 DEF RetireRuntime, TypeOK, MaybeRuntime, KeptOnceAt, Kept, IsLoaded, IsDisplaced,
           InHand, AwaitsStop, HandShape, FiledByOwner, CloseShape
  <2>3. StoppedOnce'
    BY <1>8 DEF RetireRuntime, TypeOK, MaybeRuntime, StoppedOnce, KeptOnce, KeptOnceAt, Kept, AwaitsStop,
         InHand, HandShape
  <2>4. HandShape'
    BY <1>8 DEF RetireRuntime, TypeOK, MaybeRuntime, HandShape, CloseShape, FiledByOwner
  <2>5. CloseShape'
    BY <1>8 DEF RetireRuntime, TypeOK, MaybeRuntime, CloseShape, HandShape
  <2> QED
    BY <2>1, <2>2, <2>3, <2>4, <2>5 DEF KeptOnce
<1>9. ASSUME NEW p \in Plugins, RemovePlugin(p)
      PROVE  OwnerInvariant'
  <2>1. FiledByOwner'
    BY <1>9 DEF RemovePlugin, Just, TypeOK, MaybeRuntime, FiledByOwner, KeptOnce, KeptOnceAt, Kept,
       IsLoaded,
         IsDisplaced, HandShape
  <2>2. ASSUME NEW r \in Runtimes PROVE KeptOnceAt(r)'
    <3>1. KeptOnceAt(r)
      BY DEF KeptOnce
    <3> QED
      BY <1>9, <3>1 DEF RemovePlugin, Just, TypeOK, MaybeRuntime, KeptOnceAt, Kept, IsLoaded,
         IsDisplaced,
           InHand, AwaitsStop, HandShape, FiledByOwner, CloseShape
  <2>3. StoppedOnce'
    BY <1>9 DEF RemovePlugin, Just, TypeOK, MaybeRuntime, StoppedOnce, KeptOnce, KeptOnceAt, Kept,
       AwaitsStop,
         InHand, HandShape
  <2>4. HandShape'
    BY <1>9 DEF RemovePlugin, Just, TypeOK, MaybeRuntime, HandShape, CloseShape, FiledByOwner
  <2>5. CloseShape'
    BY <1>9 DEF RemovePlugin, Just, TypeOK, MaybeRuntime, CloseShape, HandShape
  <2> QED
    BY <2>1, <2>2, <2>3, <2>4, <2>5 DEF KeptOnce
<1>10. ASSUME Publish
      PROVE  OwnerInvariant'
  <2>1. FiledByOwner'
    BY <1>10 DEF Publish, TypeOK, MaybeRuntime, FiledByOwner, KeptOnce, KeptOnceAt, Kept, IsLoaded,
         IsDisplaced, HandShape
  <2>2. ASSUME NEW r \in Runtimes PROVE KeptOnceAt(r)'
    <3>1. KeptOnceAt(r)
      BY DEF KeptOnce
    <3> QED
      BY <1>10, <3>1 DEF Publish, TypeOK, MaybeRuntime, KeptOnceAt, Kept, IsLoaded, IsDisplaced,
           InHand, AwaitsStop, HandShape, FiledByOwner, CloseShape
  <2>3. StoppedOnce'
    BY <1>10 DEF Publish, TypeOK, MaybeRuntime, StoppedOnce, KeptOnce, KeptOnceAt, Kept, AwaitsStop,
         InHand, HandShape
  <2>4. HandShape'
    BY <1>10 DEF Publish, TypeOK, MaybeRuntime, HandShape, CloseShape, FiledByOwner
  <2>5. CloseShape'
    BY <1>10 DEF Publish, TypeOK, MaybeRuntime, CloseShape, HandShape
  <2> QED
    BY <2>1, <2>2, <2>3, <2>4, <2>5 DEF KeptOnce
<1>11. ASSUME RuntimeDestroyed
      PROVE  OwnerInvariant'
  <2>1. FiledByOwner'
    BY <1>11 DEF RuntimeDestroyed, TypeOK, MaybeRuntime, FiledByOwner, KeptOnce, KeptOnceAt, Kept,
       IsLoaded,
         IsDisplaced, HandShape
  <2>2. ASSUME NEW r \in Runtimes PROVE KeptOnceAt(r)'
    <3>1. KeptOnceAt(r)
      BY DEF KeptOnce
    <3> QED
      BY <1>11, <3>1 DEF RuntimeDestroyed, TypeOK, MaybeRuntime, KeptOnceAt, Kept, IsLoaded, IsDisplaced,
           InHand, AwaitsStop, HandShape, FiledByOwner, CloseShape, StoppedOnce
  <2>3. StoppedOnce'
    BY <1>11 DEF RuntimeDestroyed, TypeOK, MaybeRuntime, StoppedOnce, KeptOnce, KeptOnceAt, Kept,
       AwaitsStop,
         InHand, HandShape
  <2>4. HandShape'
    BY <1>11 DEF RuntimeDestroyed, TypeOK, MaybeRuntime, HandShape, CloseShape, FiledByOwner
  <2>5. CloseShape'
    BY <1>11 DEF RuntimeDestroyed, TypeOK, MaybeRuntime, CloseShape, HandShape
  <2> QED
    BY <2>1, <2>2, <2>3, <2>4, <2>5 DEF KeptOnce
<1>12. ASSUME EndOperation
      PROVE  OwnerInvariant'
  <2>1. FiledByOwner'
    BY <1>12 DEF EndOperation, TypeOK, MaybeRuntime, FiledByOwner, KeptOnce, KeptOnceAt, Kept, IsLoaded,
         IsDisplaced, HandShape
  <2>2. ASSUME NEW r \in Runtimes PROVE KeptOnceAt(r)'
    <3>1. KeptOnceAt(r)
      BY DEF KeptOnce
    <3> QED
      BY <1>12, <3>1 DEF EndOperation, TypeOK, MaybeRuntime, KeptOnceAt, Kept, IsLoaded, IsDisplaced,
           InHand, AwaitsStop, HandShape, FiledByOwner, CloseShape
  <2>3. StoppedOnce'
    BY <1>12 DEF EndOperation, TypeOK, MaybeRuntime, StoppedOnce, KeptOnce, KeptOnceAt, Kept, AwaitsStop,
         InHand, HandShape
  <2>4. HandShape'
    BY <1>12 DEF EndOperation, TypeOK, MaybeRuntime, HandShape, CloseShape, FiledByOwner
  <2>5. CloseShape'
    BY <1>12 DEF EndOperation, TypeOK, MaybeRuntime, CloseShape, HandShape
  <2> QED
    BY <2>1, <2>2, <2>3, <2>4, <2>5 DEF KeptOnce
<1>13. ASSUME NEW p \in Plugins, NEW g \in Gens, ReconcileForgets(p, g)
      PROVE  OwnerInvariant'
  BY <1>13, OwnerForgets DEF ReconcileForgets
<1> QED
  BY <1>1, <1>2, <1>3, <1>4, <1>5, <1>6, <1>7, <1>8, <1>9, <1>10, <1>11, <1>12, <1>13
     DEF OperationStep

\* Nor does a request that begins one.
LEMMA AdminOwner ==
  ASSUME PinInvariant, PinInvariant', OwnerInvariant, AdminStep
  PROVE  OwnerInvariant'
<1> USE RuntimesAssumption DEF PinInvariant, OwnerInvariant, NoPlugin
<1>1. ASSUME NEW p \in Plugins, NEW on \in BOOLEAN, SetDesired(p, on)
      PROVE  OwnerInvariant'
  BY <1>1, OwnerSame DEF ownVars, SetDesired
<1>2. ASSUME NEW p \in Plugins, ReloadConfig(p)
      PROVE  OwnerInvariant'
  BY <1>2, OwnerSame DEF ownVars, ReloadConfig
<1>3. ASSUME NEW p \in Plugins, EnableReuses(p)
      PROVE  OwnerInvariant'
  <2>1. FiledByOwner'
    BY <1>3 DEF EnableReuses, TypeOK, MaybeRuntime, FiledByOwner, KeptOnce, KeptOnceAt, Kept, IsLoaded,
         IsDisplaced, HandShape
  <2>2. ASSUME NEW r \in Runtimes PROVE KeptOnceAt(r)'
    <3>1. KeptOnceAt(r)
      BY DEF KeptOnce
    <3> QED
      BY <1>3, <3>1 DEF EnableReuses, TypeOK, MaybeRuntime, KeptOnceAt, Kept, IsLoaded, IsDisplaced,
           InHand, AwaitsStop, HandShape, FiledByOwner, CloseShape
  <2>3. StoppedOnce'
    BY <1>3 DEF EnableReuses, TypeOK, MaybeRuntime, StoppedOnce, KeptOnce, KeptOnceAt, Kept, AwaitsStop,
         InHand, HandShape
  <2>4. HandShape'
    BY <1>3 DEF EnableReuses, TypeOK, MaybeRuntime, HandShape, CloseShape, FiledByOwner
  <2>5. CloseShape'
    BY <1>3 DEF EnableReuses, TypeOK, MaybeRuntime, CloseShape, HandShape
  <2> QED
    BY <2>1, <2>2, <2>3, <2>4, <2>5 DEF KeptOnce
<1>4. ASSUME NEW p \in Plugins, NEW q \in Runtimes, Load(p, q)
      PROVE  OwnerInvariant'
  <2>1. FiledByOwner'
    <3>1. \A x \in Plugins : loaded[x] # q /\ q \notin displaced[x]
      BY <1>4 DEF Load, StartCandidate, KeptOnce, KeptOnceAt, Kept, IsLoaded, IsDisplaced
    <3>2. owner'[q] = p /\ \A x \in Runtimes : x # q => owner'[x] = owner[x]
      BY <1>4 DEF Load, StartCandidate, TypeOK
    <3>3. \A x \in Plugins : loaded'[x] = IF x = p THEN q ELSE loaded[x]
      BY <1>4 DEF Load, TypeOK
    <3>4. \A x \in Plugins : \A r \in displaced'[x] :
             r \in displaced[x] \/ (x = p /\ r = loaded[p] /\ r # NoRuntime)
      BY <1>4, PreviousIs DEF Load, Just, TypeOK
    <3>5. ASSUME NEW x \in Plugins, loaded'[x] # NoRuntime PROVE owner'[loaded'[x]] = x
      <4>1. CASE x = p
        BY <3>2, <3>3, <4>1
      <4>2. CASE x # p
        <5>1. loaded'[x] = loaded[x]
          BY <3>3, <4>2
        <5>2. loaded[x] \in Runtimes /\ loaded[x] # q /\ owner[loaded[x]] = x
          BY <3>1, <3>5, <5>1 DEF FiledByOwner, TypeOK, MaybeRuntime
        <5> QED
          BY <3>2, <5>1, <5>2
      <4> QED
        BY <4>1, <4>2
    <3>6. ASSUME NEW x \in Plugins, NEW r \in displaced'[x] PROVE owner'[r] = x
      <4>1. r \in Runtimes /\ r # q /\ owner[r] = x
        BY <3>1, <3>4, <3>6 DEF FiledByOwner, TypeOK, MaybeRuntime
      <4> QED
        BY <3>2, <4>1
    <3> QED
      BY <3>5, <3>6 DEF FiledByOwner
  <2>2. ASSUME NEW r \in Runtimes PROVE KeptOnceAt(r)'
    <3>1. KeptOnceAt(r)
      BY DEF KeptOnce
    <3> QED
      BY <1>4, <3>1, PreviousIs DEF Load, StartCandidate, Just, TypeOK, MaybeRuntime, KeptOnceAt, Kept,
         IsLoaded, IsDisplaced,
           InHand, AwaitsStop, HandShape, FiledByOwner, CloseShape
  <2>3. StoppedOnce'
    BY <1>4 DEF Load, StartCandidate, Just, TypeOK, MaybeRuntime, StoppedOnce, KeptOnce, KeptOnceAt,
       Kept, AwaitsStop,
         InHand, HandShape
  <2>4. HandShape'
    BY <1>4 DEF Load, StartCandidate, Just, TypeOK, MaybeRuntime, HandShape, CloseShape, FiledByOwner
  <2>5. CloseShape'
    BY <1>4 DEF Load, StartCandidate, Just, TypeOK, MaybeRuntime, CloseShape, HandShape
  <2> QED
    BY <2>1, <2>2, <2>3, <2>4, <2>5 DEF KeptOnce
<1>5. ASSUME NEW p \in Plugins, NEW q \in Runtimes, EnableStarts(p, q)
      PROVE  OwnerInvariant'
  <2>1. FiledByOwner'
    <3>1. /\ rtState[q] = "free" /\ owner' = [owner EXCEPT ![q] = p]
          /\ loaded' = [loaded EXCEPT ![p] = q] /\ displaced' = displaced
      BY <1>5 DEF EnableStarts, StartCandidate
    <3>2. ~IsLoaded(q) /\ ~IsDisplaced(q)
      BY <3>1 DEF KeptOnce, KeptOnceAt, Kept
    <3>3. \A r \in Runtimes : owner'[r] = IF r = q THEN p ELSE owner[r]
      BY <3>1 DEF TypeOK
    <3>4. \A x \in Plugins : loaded'[x] = IF x = p THEN q ELSE loaded[x]
      BY <3>1 DEF TypeOK
    <3>5. ASSUME NEW x \in Plugins, loaded'[x] # NoRuntime PROVE owner'[loaded'[x]] = x
      <4>1. CASE x = p
        BY <3>3, <3>4, <4>1
      <4>2. CASE x # p
        <5>1. loaded'[x] = loaded[x] /\ loaded[x] \in Runtimes
          BY <3>4, <3>5, <4>2 DEF TypeOK, MaybeRuntime
        <5>2. loaded[x] # q /\ owner[loaded[x]] = x
          BY <3>2, <3>5, <5>1 DEF FiledByOwner, IsLoaded
        <5> QED
          BY <3>3, <5>1, <5>2
      <4> QED
        BY <4>1, <4>2
    <3>6. ASSUME NEW x \in Plugins, NEW r \in displaced[x] PROVE owner'[r] = x
      BY <3>2, <3>3 DEF FiledByOwner, IsDisplaced, TypeOK
    <3> QED
      BY <3>1, <3>5, <3>6 DEF FiledByOwner
  <2>2. ASSUME NEW r \in Runtimes PROVE KeptOnceAt(r)'
    <3>1. KeptOnceAt(r)
      BY DEF KeptOnce
    <3> QED
      BY <1>5, <3>1, PreviousIs DEF EnableStarts, StartCandidate, Just, TypeOK, MaybeRuntime, KeptOnceAt, Kept,
         IsLoaded, IsDisplaced,
           InHand, AwaitsStop, HandShape, FiledByOwner, CloseShape
  <2>3. StoppedOnce'
    BY <1>5 DEF EnableStarts, StartCandidate, Just, TypeOK, MaybeRuntime, StoppedOnce, KeptOnce,
       KeptOnceAt, Kept, AwaitsStop,
         InHand, HandShape
  <2>4. HandShape'
    BY <1>5, PreviousIs DEF EnableStarts, StartCandidate, Just, TypeOK, MaybeRuntime, HandShape, CloseShape,
       FiledByOwner
  <2>5. CloseShape'
    BY <1>5 DEF EnableStarts, StartCandidate, Just, TypeOK, MaybeRuntime, CloseShape, HandShape
  <2> QED
    BY <2>1, <2>2, <2>3, <2>4, <2>5 DEF KeptOnce
<1>6. ASSUME NEW p \in Plugins, Withdraw(p)
      PROVE  OwnerInvariant'
  <2>1. FiledByOwner'
    BY <1>6 DEF Withdraw, Just, TypeOK, MaybeRuntime, FiledByOwner, KeptOnce, KeptOnceAt, Kept, IsLoaded,
         IsDisplaced, HandShape
  <2>2. ASSUME NEW r \in Runtimes PROVE KeptOnceAt(r)'
    <3>1. KeptOnceAt(r)
      BY DEF KeptOnce
    <3> QED
      BY <1>6, <3>1 DEF Withdraw, Just, TypeOK, MaybeRuntime, KeptOnceAt, Kept, IsLoaded, IsDisplaced,
           InHand, AwaitsStop, HandShape, FiledByOwner, CloseShape
  <2>3. StoppedOnce'
    BY <1>6 DEF Withdraw, Just, TypeOK, MaybeRuntime, StoppedOnce, KeptOnce, KeptOnceAt, Kept,
       AwaitsStop,
         InHand, HandShape
  <2>4. HandShape'
    BY <1>6 DEF Withdraw, Just, TypeOK, MaybeRuntime, HandShape, CloseShape, FiledByOwner
  <2>5. CloseShape'
    BY <1>6 DEF Withdraw, Just, TypeOK, MaybeRuntime, CloseShape, HandShape
  <2> QED
    BY <2>1, <2>2, <2>3, <2>4, <2>5 DEF KeptOnce
<1>7. ASSUME NEW p \in Plugins, Quarantine(p)
      PROVE  OwnerInvariant'
  BY <1>7, OwnerSame DEF ownVars, Quarantine
<1>8. ASSUME ReconcileBegins
      PROVE  OwnerInvariant'
  <2>1. FiledByOwner'
    BY <1>8 DEF ReconcileBegins, TypeOK, MaybeRuntime, FiledByOwner, KeptOnce, KeptOnceAt, Kept,
       IsLoaded,
         IsDisplaced, HandShape
  <2>2. ASSUME NEW r \in Runtimes PROVE KeptOnceAt(r)'
    <3>1. KeptOnceAt(r)
      BY DEF KeptOnce
    <3> QED
      BY <1>8, <3>1 DEF ReconcileBegins, TypeOK, MaybeRuntime, KeptOnceAt, Kept, IsLoaded, IsDisplaced,
           InHand, AwaitsStop, HandShape, FiledByOwner, CloseShape
  <2>3. StoppedOnce'
    BY <1>8 DEF ReconcileBegins, TypeOK, MaybeRuntime, StoppedOnce, KeptOnce, KeptOnceAt, Kept,
       AwaitsStop,
         InHand, HandShape
  <2>4. HandShape'
    BY <1>8 DEF ReconcileBegins, TypeOK, MaybeRuntime, HandShape, CloseShape, FiledByOwner
  <2>5. CloseShape'
    BY <1>8 DEF ReconcileBegins, TypeOK, MaybeRuntime, CloseShape, HandShape
  <2> QED
    BY <2>1, <2>2, <2>3, <2>4, <2>5 DEF KeptOnce
<1>9. ASSUME NEW p \in Plugins, LoadForgets(p) \/ Isolate(p)
      PROVE  OwnerInvariant'
  BY <1>9, OwnerForgets DEF LoadForgets, Isolate
<1> QED
  BY <1>1, <1>2, <1>3, <1>4, <1>5, <1>6, <1>7, <1>8, <1>9 DEF AdminStep

\* Nor do Close and the cleanup goroutines.
LEMMA CloseOwner ==
  ASSUME PinInvariant, PinInvariant', OwnerInvariant, CloseBegins \/ CloseStep \/ \E r \in Runtimes : CleanupStops(r)
  PROVE  OwnerInvariant'
<1> USE RuntimesAssumption DEF PinInvariant, OwnerInvariant, NoPlugin
<1>1. ASSUME CloseBegins
      PROVE  OwnerInvariant'
  <2>1. FiledByOwner'
    BY <1>1 DEF CloseBegins, TypeOK, MaybeRuntime, FiledByOwner, KeptOnce, KeptOnceAt, Kept, IsLoaded,
         IsDisplaced, HandShape
  <2>2. ASSUME NEW r \in Runtimes PROVE KeptOnceAt(r)'
    <3>1. KeptOnceAt(r)
      BY DEF KeptOnce
    <3> QED
      BY <1>1, <3>1 DEF CloseBegins, TypeOK, MaybeRuntime, KeptOnceAt, Kept, IsLoaded, IsDisplaced,
           InHand, AwaitsStop, HandShape, FiledByOwner, CloseShape
  <2>3. StoppedOnce'
    BY <1>1 DEF CloseBegins, TypeOK, MaybeRuntime, StoppedOnce, KeptOnce, KeptOnceAt, Kept, AwaitsStop,
         InHand, HandShape
  <2>4. HandShape'
    BY <1>1 DEF CloseBegins, TypeOK, MaybeRuntime, HandShape, CloseShape, FiledByOwner
  <2>5. CloseShape'
    BY <1>1 DEF CloseBegins, TypeOK, MaybeRuntime, CloseShape, HandShape
  <2> QED
    BY <2>1, <2>2, <2>3, <2>4, <2>5 DEF KeptOnce
<1>2. ASSUME CloseTakes
      PROVE  OwnerInvariant'
  <2>1. FiledByOwner'
    BY <1>2 DEF CloseTakes, NoHandlers, TypeOK, MaybeRuntime, FiledByOwner, KeptOnce, KeptOnceAt,
       Kept, IsLoaded,
         IsDisplaced, HandShape
  <2>2. ASSUME NEW r \in Runtimes PROVE KeptOnceAt(r)'
    <3>1. KeptOnceAt(r)
      BY DEF KeptOnce
    <3> QED
      BY <1>2, <3>1 DEF CloseTakes, NoHandlers, TypeOK, MaybeRuntime, KeptOnceAt, Kept, IsLoaded,
         IsDisplaced,
           InHand, AwaitsStop, HandShape, FiledByOwner, CloseShape
  <2>3. StoppedOnce'
    BY <1>2 DEF CloseTakes, NoHandlers, TypeOK, MaybeRuntime, StoppedOnce, KeptOnce, KeptOnceAt,
       Kept, AwaitsStop,
         InHand, HandShape
  <2>4. HandShape'
    BY <1>2 DEF CloseTakes, NoHandlers, TypeOK, MaybeRuntime, HandShape, CloseShape, FiledByOwner
  <2>5. CloseShape'
    BY <1>2 DEF CloseTakes, NoHandlers, TypeOK, MaybeRuntime, CloseShape, HandShape
  <2> QED
    BY <2>1, <2>2, <2>3, <2>4, <2>5 DEF KeptOnce
<1>3. ASSUME NEW q \in Runtimes, CloseStops(q)
      PROVE  OwnerInvariant'
  <2>1. FiledByOwner'
    BY <1>3 DEF CloseStops, TypeOK, MaybeRuntime, FiledByOwner, KeptOnce, KeptOnceAt, Kept, IsLoaded,
         IsDisplaced, HandShape
  <2>2. ASSUME NEW r \in Runtimes PROVE KeptOnceAt(r)'
    <3>1. KeptOnceAt(r)
      BY DEF KeptOnce
    <3> QED
      BY <1>3, <3>1 DEF CloseStops, TypeOK, MaybeRuntime, KeptOnceAt, Kept, IsLoaded, IsDisplaced,
           InHand, AwaitsStop, HandShape, FiledByOwner, CloseShape
  <2>3. StoppedOnce'
    BY <1>3 DEF CloseStops, TypeOK, MaybeRuntime, StoppedOnce, KeptOnce, KeptOnceAt, Kept, AwaitsStop,
         InHand, HandShape
  <2>4. HandShape'
    BY <1>3 DEF CloseStops, TypeOK, MaybeRuntime, HandShape, CloseShape, FiledByOwner
  <2>5. CloseShape'
    BY <1>3 DEF CloseStops, TypeOK, MaybeRuntime, CloseShape, HandShape
  <2> QED
    BY <2>1, <2>2, <2>3, <2>4, <2>5 DEF KeptOnce
<1>4. ASSUME CloseTakesPending
      PROVE  OwnerInvariant'
  <2>1. FiledByOwner'
    BY <1>4 DEF CloseTakesPending, TypeOK, MaybeRuntime, FiledByOwner, KeptOnce, KeptOnceAt, Kept,
       IsLoaded,
         IsDisplaced, HandShape
  <2>2. ASSUME NEW r \in Runtimes PROVE KeptOnceAt(r)'
    <3>1. KeptOnceAt(r)
      BY DEF KeptOnce
    <3> QED
      BY <1>4, <3>1 DEF CloseTakesPending, TypeOK, MaybeRuntime, KeptOnceAt, Kept, IsLoaded, IsDisplaced,
           InHand, AwaitsStop, HandShape, FiledByOwner, CloseShape
  <2>3. StoppedOnce'
    BY <1>4 DEF CloseTakesPending, TypeOK, MaybeRuntime, StoppedOnce, KeptOnce, KeptOnceAt, Kept,
       AwaitsStop,
         InHand, HandShape
  <2>4. HandShape'
    BY <1>4 DEF CloseTakesPending, TypeOK, MaybeRuntime, HandShape, CloseShape, FiledByOwner
  <2>5. CloseShape'
    BY <1>4 DEF CloseTakesPending, TypeOK, MaybeRuntime, CloseShape, HandShape
  <2> QED
    BY <2>1, <2>2, <2>3, <2>4, <2>5 DEF KeptOnce
<1>5. ASSUME CloseEnds
      PROVE  OwnerInvariant'
  <2>1. FiledByOwner'
    BY <1>5 DEF CloseEnds, TypeOK, MaybeRuntime, FiledByOwner, KeptOnce, KeptOnceAt, Kept, IsLoaded,
         IsDisplaced, HandShape
  <2>2. ASSUME NEW r \in Runtimes PROVE KeptOnceAt(r)'
    <3>1. KeptOnceAt(r)
      BY DEF KeptOnce
    <3> QED
      BY <1>5, <3>1 DEF CloseEnds, TypeOK, MaybeRuntime, KeptOnceAt, Kept, IsLoaded, IsDisplaced,
           InHand, AwaitsStop, HandShape, FiledByOwner, CloseShape
  <2>3. StoppedOnce'
    BY <1>5 DEF CloseEnds, TypeOK, MaybeRuntime, StoppedOnce, KeptOnce, KeptOnceAt, Kept, AwaitsStop,
         InHand, HandShape
  <2>4. HandShape'
    BY <1>5 DEF CloseEnds, TypeOK, MaybeRuntime, HandShape, CloseShape, FiledByOwner
  <2>5. CloseShape'
    BY <1>5 DEF CloseEnds, TypeOK, MaybeRuntime, CloseShape, HandShape
  <2> QED
    BY <2>1, <2>2, <2>3, <2>4, <2>5 DEF KeptOnce
<1>6. ASSUME NEW q \in Runtimes, CleanupStops(q)
      PROVE  OwnerInvariant'
  <2>1. FiledByOwner'
    BY <1>6 DEF CleanupStops, TypeOK, MaybeRuntime, FiledByOwner, KeptOnce, KeptOnceAt, Kept, IsLoaded,
         IsDisplaced, HandShape
  <2>2. ASSUME NEW r \in Runtimes PROVE KeptOnceAt(r)'
    <3>1. KeptOnceAt(r)
      BY DEF KeptOnce
    <3> QED
      BY <1>6, <3>1 DEF CleanupStops, TypeOK, MaybeRuntime, KeptOnceAt, Kept, IsLoaded, IsDisplaced,
           InHand, AwaitsStop, HandShape, FiledByOwner, CloseShape, StoppedOnce
  <2>3. StoppedOnce'
    BY <1>6 DEF CleanupStops, TypeOK, MaybeRuntime, StoppedOnce, KeptOnce, KeptOnceAt, Kept, AwaitsStop,
         InHand, HandShape
  <2>4. HandShape'
    BY <1>6 DEF CleanupStops, TypeOK, MaybeRuntime, HandShape, CloseShape, FiledByOwner
  <2>5. CloseShape'
    BY <1>6 DEF CleanupStops, TypeOK, MaybeRuntime, CloseShape, HandShape
  <2> QED
    BY <2>1, <2>2, <2>3, <2>4, <2>5 DEF KeptOnce
<1> QED
  BY <1>1, <1>2, <1>3, <1>4, <1>5, <1>6 DEF CloseStep

\* At the start no runtime exists.
LEMMA InitOwnerInvariant == Init => OwnerInvariant /\ NoneForgotten
<1> SUFFICES ASSUME Init PROVE OwnerInvariant /\ NoneForgotten
  OBVIOUS
<1>1. \A r \in Runtimes : ~IsLoaded(r) /\ ~IsDisplaced(r) /\ ~InHand(r) /\ ~AwaitsStop(r)
  BY RuntimesAssumption DEF Init, IsLoaded, IsDisplaced, InHand, AwaitsStop, NoHandlers
<1>2. KeptOnce /\ NoneForgotten
  BY <1>1 DEF Init, KeptOnce, KeptOnceAt, Kept, NoneForgotten
<1>3. FiledByOwner /\ StoppedOnce /\ HandShape /\ CloseShape
  BY RuntimesAssumption DEF Init, FiledByOwner, StoppedOnce, HandShape, CloseShape, NoHandlers
<1> QED
  BY <1>2, <1>3 DEF OwnerInvariant

\* OwnerInvariant is inductive, next to PinInvariant.
LEMMA NextOwnerInvariant ==
  PinInvariant /\ PinInvariant' /\ OwnerInvariant /\ [Next]_vars => OwnerInvariant'
<1> SUFFICES ASSUME PinInvariant, PinInvariant', OwnerInvariant, [Next]_vars PROVE OwnerInvariant'
  OBVIOUS
<1>1. ASSUME NEW c \in Conns, Accept(c) \/ ConnStep(c) PROVE OwnerInvariant'
  BY <1>1, ConnOwner
<1>2. CASE OtherStep
  BY <1>2, OperationOwner, AdminOwner, CloseOwner DEF OtherStep
<1>3. CASE UNCHANGED vars
  BY <1>3, OwnerSame DEF vars, ownVars
<1> QED
  BY <1>1, <1>2, <1>3 DEF Next, OtherStep

\* For any plugins, connections and runtimes, shared or unique instance ids: a runtime is kept in at most one of m.loaded,
\* m.displaced, the lists of the operation in progress, m.pendingRuntimeStops and
\* Close's list, filed under its plugin, and only while it runs; a stop in progress
\* is carried out by exactly one goroutine.
THEOREM OwnerInvariantHolds == Spec => []OwnerInvariant
<1>1. Init => OwnerInvariant
  BY InitOwnerInvariant
<1>2. PinInvariant /\ PinInvariant' /\ OwnerInvariant /\ [Next]_vars => OwnerInvariant'
  BY NextOwnerInvariant
<1> QED
  BY <1>1, <1>2, PinInvariantHolds, PTL DEF Spec

\* No step forgets a running runtime but the ones that let it go on purpose or by
\* parking another one under its key.
LEMMA ForgetsNone ==
  ASSUME PinInvariant, OwnerInvariant, NoneForgotten, [Next]_vars
  PROVE  NoneForgotten'
<1> USE RuntimesAssumption DEF PinInvariant, OwnerInvariant
<1> SUFFICES ASSUME NEW r \in Runtimes, rtState'[r] = "started", r \notin dropped' PROVE Kept(r)'
  BY DEF NoneForgotten
<1>0. (rtState[r] = "started" /\ r \notin dropped) => Kept(r)
  BY DEF NoneForgotten
<1>1. ASSUME UNCHANGED ownVars PROVE Kept(r)'
  BY <1>0, <1>1 DEF ownVars, Kept, IsLoaded, IsDisplaced, InHand, AwaitsStop
<1>2. ASSUME NEW c \in Conns, Accept(c) \/ ConnStep(c) PROVE Kept(r)'
  <2>1. CASE Accept(c) \/ StartSession(c) \/ EnterCore(c) \/ FinishSession(c) \/ CoreReturns(c)
             \/ ConnectionEnds(c)
    BY <1>1, <2>1 DEF ownVars, Accept, StartSession, EnterCore, FinishSession, CoreReturns,
         ConnectionEnds
  <2>2. ASSUME NEW p \in Plugins,
               SkipHandler(c, p) \/ ReserveHandler(c, p) \/ InvokeHandler(c, p)
                 \/ ClaimContinuation(c, p, "run") \/ ClaimContinuation(c, p, "core")
                 \/ ClaimWithoutStream(c, p) \/ HandlerReturns(c, p) \/ ReleaseHandler(c, p)
        PROVE  Kept(r)'
    BY <1>1, <2>2 DEF ownVars, SkipHandler, ReserveHandler, InvokeHandler, ClaimContinuation,
         ClaimWithoutStream, HandlerReturns, ReleaseHandler
  <2>3. ASSUME NEW p \in Plugins, LeaveHandler(c, p) \/ FinishParticipant(c, p)
        PROVE  Kept(r)'
    <3>1. PICK due : /\ pendingStops' = pendingStops \ due
                     /\ rtState' = [x \in Runtimes |-> IF x \in due THEN "stopping" ELSE rtState[x]]
      BY <2>3 DEF LeaveHandler, FinishParticipant, QueuePendingStop
    <3>2. UNCHANGED <<loaded, displaced, oldQ, retiring, replaced, closeQ, dropped>>
      BY <2>3 DEF LeaveHandler, FinishParticipant
    <3> QED
      BY <1>0, <3>1, <3>2 DEF Kept, IsLoaded, IsDisplaced, InHand, AwaitsStop
  <2> QED
    BY <1>2, <2>1, <2>2, <2>3 DEF ConnStep
<1>3. CASE OperationStep
  <2>1. ASSUME EnableCommits PROVE Kept(r)'
    BY <1>0, <2>1 DEF EnableCommits, Just, TypeOK, MaybeRuntime, HandShape, CloseShape,
         Kept, IsLoaded, IsDisplaced, InHand, AwaitsStop
  <2>2. ASSUME EnableFails PROVE Kept(r)'
    <3>1. target \in Plugins /\ loaded[target] = cand
      BY <2>2 DEF EnableFails, HandShape
    <3>2. CASE NothingToRollBack
      BY <1>0, <2>2, <3>2 DEF EnableFails, NothingToRollBack, HandShape, Kept, IsLoaded, IsDisplaced,
         InHand, AwaitsStop
    <3>3. CASE ~NothingToRollBack
      <4>1. /\ loaded' = [loaded EXCEPT ![target] = Restored]
            /\ displaced' = [displaced EXCEPT ![target] = {}]
            /\ retiring' = (displaced[target] \cup Just(replaced) \cup Just(cand)) \ {Restored}
            /\ oldQ = {} /\ retiring = {}
            /\ UNCHANGED <<pendingStops, closeQ, rtState, dropped>>
        BY <2>2, <3>3 DEF EnableFails, RolledBack, HandShape
      <4>2. CASE r = Restored
        <5>1. loaded'[target] = r
          BY <3>1, <4>1, <4>2 DEF TypeOK
        <5> QED
          BY <3>1, <5>1 DEF Kept, IsLoaded
      <4>3. CASE r # Restored /\ (r \in displaced[target] \/ r = replaced \/ r = cand)
        BY <4>1, <4>3 DEF Just, Kept, InHand
      <4>4. CASE r # Restored /\ r \notin displaced[target] /\ r # replaced /\ r # cand
        BY <1>0, <3>1, <4>1, <4>4 DEF TypeOK, Kept, IsLoaded, IsDisplaced, InHand, AwaitsStop
      <4> QED
        BY <4>2, <4>3, <4>4
    <3> QED
      BY <3>2, <3>3
  <2>3. ASSUME NEW p \in Plugins, NEW g \in Gens, ReconcileSkips(p, g) PROVE Kept(r)'
    BY <1>1, <2>3 DEF ownVars, ReconcileSkips
  <2>4. ASSUME NEW p \in Plugins, NEW g \in Gens, ReconcileReuses(p, g) PROVE Kept(r)'
    BY <1>1, <2>4 DEF ownVars, ReconcileReuses
  <2>5. ASSUME NEW p \in Plugins, NEW g \in Gens, NEW q \in Runtimes, NEW usable \in BOOLEAN, ReconcileStarts(p, g, q, usable) PROVE Kept(r)'
    BY <1>0, <2>5 DEF ReconcileStarts, StartCandidate, Forgotten, Previous, Just, TypeOK, MaybeRuntime, HandShape, CloseShape,
         Kept, IsLoaded, IsDisplaced, InHand, AwaitsStop
  <2>6. ASSUME ReconcileCollects PROVE Kept(r)'
    BY <1>0, <2>6 DEF ReconcileCollects, TypeOK, MaybeRuntime, HandShape, CloseShape,
         Kept, IsLoaded, IsDisplaced, InHand, AwaitsStop
  <2>7. ASSUME NEW q \in Runtimes, Supersede(q) PROVE Kept(r)'
    BY <1>0, <2>7 DEF Supersede, TypeOK, MaybeRuntime, HandShape, CloseShape,
         Kept, IsLoaded, IsDisplaced, InHand, AwaitsStop
  <2>8. ASSUME NEW q \in Runtimes, RetireRuntime(q) PROVE Kept(r)'
    BY <1>0, <2>8 DEF RetireRuntime, TypeOK, Kept, IsLoaded, IsDisplaced, InHand, AwaitsStop
  <2>9. ASSUME NEW p \in Plugins, RemovePlugin(p) PROVE Kept(r)'
    BY <1>0, <2>9 DEF RemovePlugin, Just, TypeOK, MaybeRuntime, HandShape, CloseShape,
         Kept, IsLoaded, IsDisplaced, InHand, AwaitsStop
  <2>10. ASSUME Publish PROVE Kept(r)'
    BY <1>0, <2>10 DEF Publish, TypeOK, MaybeRuntime, HandShape, CloseShape,
         Kept, IsLoaded, IsDisplaced, InHand, AwaitsStop
  <2>11. ASSUME RuntimeDestroyed PROVE Kept(r)'
    BY <1>0, <2>11 DEF RuntimeDestroyed, TypeOK, MaybeRuntime, HandShape, CloseShape,
         Kept, IsLoaded, IsDisplaced, InHand, AwaitsStop
  <2>12. ASSUME EndOperation PROVE Kept(r)'
    BY <1>0, <2>12 DEF EndOperation, TypeOK, MaybeRuntime, HandShape, CloseShape,
         Kept, IsLoaded, IsDisplaced, InHand, AwaitsStop
  <2>13. ASSUME NEW p \in Plugins, NEW g \in Gens, ReconcileForgets(p, g) PROVE Kept(r)'
    BY <1>0, <2>13 DEF ReconcileForgets, TypeOK, Kept, IsLoaded, IsDisplaced, InHand, AwaitsStop
  <2> QED
    BY <1>3, <2>1, <2>2, <2>3, <2>4, <2>5, <2>6, <2>7, <2>8, <2>9, <2>10, <2>11, <2>12, <2>13 DEF OperationStep
<1>4. CASE AdminStep
  <2>1. ASSUME NEW p \in Plugins, NEW on \in BOOLEAN, SetDesired(p, on) PROVE Kept(r)'
    BY <1>1, <2>1 DEF ownVars, SetDesired
  <2>2. ASSUME NEW p \in Plugins, ReloadConfig(p) PROVE Kept(r)'
    BY <1>1, <2>2 DEF ownVars, ReloadConfig
  <2>3. ASSUME NEW p \in Plugins, EnableReuses(p) PROVE Kept(r)'
    BY <1>0, <2>3 DEF EnableReuses, TypeOK, MaybeRuntime, HandShape, CloseShape,
         Kept, IsLoaded, IsDisplaced, InHand, AwaitsStop
  <2>4. ASSUME NEW p \in Plugins, NEW q \in Runtimes, Load(p, q) PROVE Kept(r)'
    BY <1>0, <2>4 DEF Load, StartCandidate, Forgotten, Previous, Just, TypeOK, MaybeRuntime, HandShape, CloseShape,
         Kept, IsLoaded, IsDisplaced, InHand, AwaitsStop
  <2>5. ASSUME NEW p \in Plugins, NEW q \in Runtimes, EnableStarts(p, q) PROVE Kept(r)'
    BY <1>0, <2>5 DEF EnableStarts, StartCandidate, Forgotten, Previous, Just, TypeOK, MaybeRuntime, HandShape, CloseShape,
         Kept, IsLoaded, IsDisplaced, InHand, AwaitsStop
  <2>6. ASSUME NEW p \in Plugins, Withdraw(p) PROVE Kept(r)'
    BY <1>0, <2>6 DEF Withdraw, Just, TypeOK, MaybeRuntime, HandShape, CloseShape,
         Kept, IsLoaded, IsDisplaced, InHand, AwaitsStop
  <2>7. ASSUME NEW p \in Plugins, Quarantine(p) PROVE Kept(r)'
    BY <1>1, <2>7 DEF ownVars, Quarantine
  <2>8. ASSUME ReconcileBegins PROVE Kept(r)'
    BY <1>0, <2>8 DEF ReconcileBegins, TypeOK, MaybeRuntime, HandShape, CloseShape,
         Kept, IsLoaded, IsDisplaced, InHand, AwaitsStop
  <2>9. ASSUME NEW p \in Plugins, LoadForgets(p) PROVE Kept(r)'
    BY <1>0, <2>9 DEF LoadForgets, TypeOK, Kept, IsLoaded, IsDisplaced, InHand, AwaitsStop
  <2>10. ASSUME NEW p \in Plugins, Isolate(p) PROVE Kept(r)'
    BY <1>0, <2>10 DEF Isolate, TypeOK, Kept, IsLoaded, IsDisplaced, InHand, AwaitsStop
  <2> QED
    BY <1>4, <2>1, <2>2, <2>3, <2>4, <2>5, <2>6, <2>7, <2>8, <2>9, <2>10 DEF AdminStep
<1>5. CASE CloseBegins \/ CloseStep \/ \E q \in Runtimes : CleanupStops(q)
  <2>1. ASSUME CloseBegins PROVE Kept(r)'
    BY <1>0, <2>1 DEF CloseBegins, TypeOK, MaybeRuntime, HandShape, CloseShape,
         Kept, IsLoaded, IsDisplaced, InHand, AwaitsStop
  <2>2. ASSUME CloseTakes PROVE Kept(r)'
    BY <1>0, <2>2 DEF CloseTakes, NoHandlers, TypeOK, MaybeRuntime, HandShape, CloseShape,
         Kept, IsLoaded, IsDisplaced, InHand, AwaitsStop
  <2>3. ASSUME NEW q \in Runtimes, CloseStops(q) PROVE Kept(r)'
    BY <1>0, <2>3 DEF CloseStops, TypeOK, MaybeRuntime, HandShape, CloseShape,
         Kept, IsLoaded, IsDisplaced, InHand, AwaitsStop
  <2>4. ASSUME CloseTakesPending PROVE Kept(r)'
    BY <1>0, <2>4 DEF CloseTakesPending, TypeOK, MaybeRuntime, HandShape, CloseShape,
         Kept, IsLoaded, IsDisplaced, InHand, AwaitsStop
  <2>5. ASSUME CloseEnds PROVE Kept(r)'
    BY <1>0, <2>5 DEF CloseEnds, TypeOK, MaybeRuntime, HandShape, CloseShape,
         Kept, IsLoaded, IsDisplaced, InHand, AwaitsStop
  <2>6. ASSUME NEW q \in Runtimes, CleanupStops(q) PROVE Kept(r)'
    BY <1>0, <2>6 DEF CleanupStops, TypeOK, MaybeRuntime, HandShape, CloseShape,
         Kept, IsLoaded, IsDisplaced, InHand, AwaitsStop
  <2> QED
    BY <1>5, <2>1, <2>2, <2>3, <2>4, <2>5, <2>6 DEF CloseStep
<1>6. CASE UNCHANGED vars
  BY <1>1, <1>6 DEF vars, ownVars
<1> QED
  BY <1>2, <1>3, <1>4, <1>5, <1>6 DEF Next

\* A runtime that is gone stays gone, and one that was let go of stays so.
LEMMA StaysGone ==
  ASSUME PinInvariant, OwnerInvariant, [Next]_vars, NEW r \in Runtimes, Gone(r)
  PROVE  Gone(r)' /\ (LetGo(r) => LetGo(r)')
<1> USE RuntimesAssumption DEF PinInvariant
<1> DEFINE Goal == Gone(r)' /\ (LetGo(r) => LetGo(r)')
<1>0. /\ rtState[r] # "free" /\ r # replaced
      /\ \A p \in Plugins : loaded[p] # r /\ r \notin displaced[p]
      /\ destroying = r => rtState[r] # "started"
      /\ r \in cleanup => rtState[r] # "started"
  BY DEF Gone, IsLoaded, IsDisplaced, OwnerInvariant, StoppedOnce
<1>1. ASSUME UNCHANGED ownVars PROVE Goal
  BY <1>1 DEF ownVars, Gone, LetGo, IsLoaded, IsDisplaced
<1>2. ASSUME NEW c \in Conns, Accept(c) \/ ConnStep(c) PROVE Goal
  <2>1. CASE Accept(c) \/ StartSession(c) \/ EnterCore(c) \/ FinishSession(c) \/ CoreReturns(c)
             \/ ConnectionEnds(c)
    BY <1>1, <2>1 DEF ownVars, Accept, StartSession, EnterCore, FinishSession, CoreReturns,
         ConnectionEnds
  <2>2. ASSUME NEW p \in Plugins,
               SkipHandler(c, p) \/ ReserveHandler(c, p) \/ InvokeHandler(c, p)
                 \/ ClaimContinuation(c, p, "run") \/ ClaimContinuation(c, p, "core")
                 \/ ClaimWithoutStream(c, p) \/ HandlerReturns(c, p) \/ ReleaseHandler(c, p)
        PROVE  Goal
    BY <1>1, <2>2 DEF ownVars, SkipHandler, ReserveHandler, InvokeHandler, ClaimContinuation,
         ClaimWithoutStream, HandlerReturns, ReleaseHandler
  <2>3. ASSUME NEW p \in Plugins, LeaveHandler(c, p) \/ FinishParticipant(c, p)
        PROVE  Goal
    <3>1. /\ QueuePendingStop(Due(HandlerKey(snap[c][p])))
          /\ UNCHANGED <<loaded, displaced, oldQ, retiring, replaced, closeQ>>
      BY <2>3 DEF LeaveHandler, FinishParticipant
    <3> QED
      BY <1>0, <3>1 DEF QueuePendingStop, Due, Gone, LetGo, IsLoaded, IsDisplaced
  <2> QED
    BY <1>2, <2>1, <2>2, <2>3 DEF ConnStep
<1>3. CASE OperationStep
  <2>1. ASSUME EnableCommits PROVE Goal
    BY <1>0, <2>1 DEF EnableCommits, Just, OwnerInvariant, HandShape, IsLoaded, IsDisplaced, Gone, LetGo, TypeOK
  <2>2. ASSUME EnableFails PROVE Goal
    <3>1. target \in Plugins /\ cand = loaded[target]
      BY <2>2 DEF EnableFails, OwnerInvariant, HandShape
    <3>2. Restored # r
      BY <1>0, <3>1 DEF Restored
    <3> QED
      BY <1>0, <2>2, <3>1, <3>2 DEF EnableFails, RolledBack, Just, IsLoaded, IsDisplaced, Gone, LetGo, TypeOK
  <2>3. ASSUME NEW p \in Plugins, NEW g \in Gens, ReconcileSkips(p, g) PROVE Goal
    BY <1>0, <2>3 DEF ReconcileSkips, IsLoaded, IsDisplaced, Gone, LetGo, TypeOK
  <2>4. ASSUME NEW p \in Plugins, NEW g \in Gens, ReconcileReuses(p, g) PROVE Goal
    BY <1>0, <2>4 DEF ReconcileReuses, IsLoaded, IsDisplaced, Gone, LetGo, TypeOK
  <2>5. ASSUME NEW p \in Plugins, NEW g \in Gens, NEW q \in Runtimes, NEW usable \in BOOLEAN, ReconcileStarts(p, g, q, usable) PROVE Goal
    BY <1>0, <2>5 DEF ReconcileStarts, StartCandidate, Previous, Just, IsLoaded, IsDisplaced, Gone, LetGo, TypeOK
  <2>6. ASSUME ReconcileCollects PROVE Goal
    BY <1>0, <2>6 DEF ReconcileCollects, IsLoaded, IsDisplaced, Gone, LetGo, TypeOK
  <2>7. ASSUME NEW q \in Runtimes, Supersede(q) PROVE Goal
    BY <1>0, <2>7 DEF Supersede, IsLoaded, IsDisplaced, Gone, LetGo, TypeOK
  <2>8. ASSUME NEW q \in Runtimes, RetireRuntime(q) PROVE Goal
    BY <1>0, <2>8 DEF RetireRuntime, RuntimeStates, IsLoaded, IsDisplaced, Gone, LetGo, TypeOK
  <2>9. ASSUME NEW p \in Plugins, RemovePlugin(p) PROVE Goal
    BY <1>0, <2>9 DEF RemovePlugin, Just, IsLoaded, IsDisplaced, Gone, LetGo, TypeOK
  <2>10. ASSUME Publish PROVE Goal
    BY <1>0, <2>10 DEF Publish, IsLoaded, IsDisplaced, Gone, LetGo, TypeOK
  <2>11. ASSUME RuntimeDestroyed PROVE Goal
    BY <1>0, <2>11 DEF RuntimeDestroyed, MaybeRuntime, IsLoaded, IsDisplaced, Gone, LetGo, TypeOK
  <2>12. ASSUME EndOperation PROVE Goal
    BY <1>0, <2>12 DEF EndOperation, IsLoaded, IsDisplaced, Gone, LetGo, TypeOK
  <2>13. ASSUME NEW p \in Plugins, NEW g \in Gens, ReconcileForgets(p, g) PROVE Goal
    BY <1>0, <2>13 DEF ReconcileForgets, IsLoaded, IsDisplaced, Gone, LetGo, TypeOK
  <2> QED
    BY <1>3, <2>1, <2>2, <2>3, <2>4, <2>5, <2>6, <2>7, <2>8, <2>9, <2>10, <2>11, <2>12, <2>13 DEF OperationStep
<1>4. CASE AdminStep
  <2>1. ASSUME NEW p \in Plugins, NEW on \in BOOLEAN, SetDesired(p, on) PROVE Goal
    BY <1>0, <2>1 DEF SetDesired, IsLoaded, IsDisplaced, Gone, LetGo, TypeOK
  <2>2. ASSUME NEW p \in Plugins, ReloadConfig(p) PROVE Goal
    BY <1>0, <2>2 DEF ReloadConfig, IsLoaded, IsDisplaced, Gone, LetGo, TypeOK
  <2>3. ASSUME NEW p \in Plugins, EnableReuses(p) PROVE Goal
    BY <1>0, <2>3 DEF EnableReuses, IsLoaded, IsDisplaced, Gone, LetGo, TypeOK
  <2>4. ASSUME NEW p \in Plugins, NEW q \in Runtimes, Load(p, q) PROVE Goal
    BY <1>0, <2>4 DEF Load, StartCandidate, Previous, Just, IsLoaded, IsDisplaced, Gone, LetGo, TypeOK
  <2>5. ASSUME NEW p \in Plugins, NEW q \in Runtimes, EnableStarts(p, q) PROVE Goal
    BY <1>0, <2>5 DEF EnableStarts, StartCandidate, Previous, IsLoaded, IsDisplaced, Gone, LetGo, TypeOK
  <2>6. ASSUME NEW p \in Plugins, Withdraw(p) PROVE Goal
    BY <1>0, <2>6 DEF Withdraw, Just, IsLoaded, IsDisplaced, Gone, LetGo, TypeOK
  <2>7. ASSUME NEW p \in Plugins, Quarantine(p) PROVE Goal
    BY <1>0, <2>7 DEF Quarantine, IsLoaded, IsDisplaced, Gone, LetGo, TypeOK
  <2>8. ASSUME ReconcileBegins PROVE Goal
    BY <1>0, <2>8 DEF ReconcileBegins, IsLoaded, IsDisplaced, Gone, LetGo, TypeOK
  <2>9. ASSUME NEW p \in Plugins, LoadForgets(p) PROVE Goal
    BY <1>0, <2>9 DEF LoadForgets, IsLoaded, IsDisplaced, Gone, LetGo, TypeOK
  <2>10. ASSUME NEW p \in Plugins, Isolate(p) PROVE Goal
    BY <1>0, <2>10 DEF Isolate, IsLoaded, IsDisplaced, Gone, LetGo, TypeOK
  <2> QED
    BY <1>4, <2>1, <2>2, <2>3, <2>4, <2>5, <2>6, <2>7, <2>8, <2>9, <2>10 DEF AdminStep
<1>5. CASE CloseBegins \/ CloseStep \/ \E q \in Runtimes : CleanupStops(q)
  <2>1. ASSUME CloseBegins PROVE Goal
    BY <1>0, <2>1 DEF CloseBegins, IsLoaded, IsDisplaced, Gone, LetGo, TypeOK
  <2>2. ASSUME CloseTakes PROVE Goal
    BY <1>0, <2>2 DEF CloseTakes, NoHandlers, IsLoaded, IsDisplaced, Gone, LetGo, TypeOK
  <2>3. ASSUME NEW q \in Runtimes, CloseStops(q) PROVE Goal
    BY <1>0, <2>3 DEF CloseStops, IsLoaded, IsDisplaced, Gone, LetGo, TypeOK
  <2>4. ASSUME CloseTakesPending PROVE Goal
    BY <1>0, <2>4 DEF CloseTakesPending, IsLoaded, IsDisplaced, Gone, LetGo, TypeOK
  <2>5. ASSUME CloseEnds PROVE Goal
    BY <1>0, <2>5 DEF CloseEnds, IsLoaded, IsDisplaced, Gone, LetGo, TypeOK
  <2>6. ASSUME NEW q \in Runtimes, CleanupStops(q) PROVE Goal
    BY <1>0, <2>6 DEF CleanupStops, IsLoaded, IsDisplaced, Gone, LetGo, TypeOK
  <2> QED
    BY <1>5, <2>1, <2>2, <2>3, <2>4, <2>5, <2>6 DEF CloseStep
<1>6. CASE UNCHANGED vars
  BY <1>1, <1>6 DEF vars, ownVars
<1> QED
  BY <1>2, <1>3, <1>4, <1>5, <1>6 DEF Next

\* What a step lets go of is gone, and nobody will stop it.
LEMMA NewlyDropped ==
  ASSUME PinInvariant, OwnerInvariant, [Next]_vars, NEW r \in dropped', r \notin dropped
  PROVE  r \in Runtimes /\ Gone(r)' /\ LetGo(r)'
<1> USE RuntimesAssumption DEF PinInvariant
<1> DEFINE Goal == r \in Runtimes /\ Gone(r)' /\ LetGo(r)'
<1> SUFFICES Goal
  OBVIOUS
<1>1. ASSUME NEW p \in Plugins, r \in Runtimes, loaded[p] = r
      PROVE  /\ rtState[r] = "started" /\ ~IsDisplaced(r) /\ r # replaced
             /\ r \notin oldQ /\ r \notin retiring /\ r \notin pendingStops /\ r \notin closeQ
             /\ \A q \in Plugins : q # p => loaded[q] # r
  BY <1>1 DEF OwnerInvariant, KeptOnce, KeptOnceAt, FiledByOwner, IsLoaded, InHand, AwaitsStop, Kept
<1>2. ASSUME NEW p \in Plugins, LoadForgets(p) \/ Isolate(p) PROVE Goal
  <2>1. /\ r \in Runtimes /\ loaded[p] = r /\ loaded' = [loaded EXCEPT ![p] = NoRuntime]
        /\ UNCHANGED <<displaced, rtState, replaced, oldQ, retiring, pendingStops, closeQ>>
    BY <1>2 DEF LoadForgets, Isolate, Reusable, TypeOK, MaybeRuntime
  <2> QED
    BY <1>1, <2>1 DEF Gone, LetGo, IsLoaded, IsDisplaced, TypeOK
<1>3. ASSUME NEW p \in Plugins, NEW g \in Gens, ReconcileForgets(p, g) PROVE Goal
  <2>1. /\ r \in Runtimes /\ loaded[p] = r /\ loaded' = [loaded EXCEPT ![p] = NoRuntime]
        /\ UNCHANGED <<displaced, rtState, replaced, oldQ, retiring, pendingStops, closeQ>>
    BY <1>3 DEF ReconcileForgets, Reusable, TypeOK, MaybeRuntime
  <2> QED
    BY <1>1, <2>1 DEF Gone, LetGo, IsLoaded, IsDisplaced, TypeOK
<1>4. ASSUME NEW p \in Plugins, NEW q \in Runtimes, StartCandidate(p, q),
             loaded' = [loaded EXCEPT ![p] = q]
      PROVE  /\ r \in Runtimes /\ loaded[p] = r /\ Previous(p, desiredGen[p]) = NoRuntime
             /\ ~IsLoaded(r)' /\ rtState'[r] = "started"
  <2>1. r \in Runtimes /\ loaded[p] = r /\ Previous(p, desiredGen[p]) = NoRuntime
    BY <1>4 DEF StartCandidate, Forgotten, Previous, Reusable, TypeOK, MaybeRuntime
  <2>2. q # r /\ rtState'[r] = "started"
    BY <1>1, <1>4, <2>1 DEF StartCandidate, TypeOK
  <2> QED
    BY <1>1, <1>4, <2>1, <2>2 DEF IsLoaded, TypeOK
<1>5. ASSUME NEW p \in Plugins, NEW q \in Runtimes, Load(p, q) PROVE Goal
  <2>1. /\ r \in Runtimes /\ loaded[p] = r /\ Previous(p, desiredGen[p]) = NoRuntime
        /\ ~IsLoaded(r)' /\ rtState'[r] = "started"
    BY <1>4, <1>5 DEF Load
  <2>2. retiring' = {} /\ \A x \in Plugins : displaced'[x] \subseteq displaced[x]
    BY <1>5, <2>1 DEF Load, Just, TypeOK
  <2>3. UNCHANGED <<replaced, oldQ, pendingStops, closeQ>>
    BY <1>5 DEF Load
  <2> QED
    BY <1>1, <2>1, <2>2, <2>3 DEF Gone, LetGo, IsDisplaced
<1>6. ASSUME NEW p \in Plugins, NEW q \in Runtimes, EnableStarts(p, q) PROVE Goal
  <2>1. /\ r \in Runtimes /\ loaded[p] = r /\ Previous(p, desiredGen[p]) = NoRuntime
        /\ ~IsLoaded(r)' /\ rtState'[r] = "started"
    BY <1>4, <1>6 DEF EnableStarts
  <2>2. replaced' = NoRuntime /\ UNCHANGED <<displaced, oldQ, retiring, pendingStops, closeQ>>
    BY <1>6, <2>1 DEF EnableStarts
  <2> QED
    BY <1>1, <2>1, <2>2 DEF Gone, LetGo, IsDisplaced
<1>7. ASSUME NEW p \in Plugins, NEW g \in Gens, NEW q \in Runtimes, NEW usable \in BOOLEAN,
             ReconcileStarts(p, g, q, usable)
      PROVE  Goal
  <2>1. /\ r \in Runtimes /\ loaded[p] = r /\ Previous(p, desiredGen[p]) = NoRuntime
        /\ ~IsLoaded(r)' /\ rtState'[r] = "started"
    BY <1>4, <1>7 DEF ReconcileStarts
  <2>2. oldQ' = oldQ /\ UNCHANGED <<displaced, replaced, retiring, pendingStops, closeQ>>
    BY <1>7, <2>1 DEF ReconcileStarts, Just
  <2> QED
    BY <1>1, <2>1, <2>2 DEF Gone, LetGo, IsDisplaced
<1>8. ASSUME NEW q \in Runtimes, RetireRuntime(q) PROVE Goal
  <2>1. /\ r \in pendingStops /\ r \in Runtimes
        /\ pendingStops' = (pendingStops \ Displacing(q)) \cup {q}
        /\ r \in Displacing(q) /\ rtState' = rtState /\ q \in retiring /\ retiring' = retiring \ {q}
        /\ UNCHANGED <<loaded, displaced, replaced, oldQ, closeQ>>
    BY <1>8 DEF RetireRuntime, Displacing, TypeOK
  <2>2. /\ rtState[r] = "started" /\ ~IsLoaded(r) /\ ~IsDisplaced(r) /\ r # replaced
        /\ r \notin oldQ /\ r \notin retiring /\ r \notin closeQ
    BY <2>1 DEF OwnerInvariant, KeptOnce, KeptOnceAt, InHand, AwaitsStop, Kept
  <2> QED
    BY <2>1, <2>2 DEF Gone, LetGo, IsLoaded, IsDisplaced
<1> HIDE DEF Goal
<1>9. ASSUME NEW c \in Conns, Accept(c) \/ ConnStep(c) PROVE dropped' = dropped
  BY <1>9 DEF ConnStep, Accept, StartSession, EnterCore, CoreReturns, FinishSession, ConnectionEnds,
       SkipHandler, ReserveHandler, InvokeHandler, ClaimContinuation, ClaimWithoutStream,
       HandlerReturns, ReleaseHandler, LeaveHandler, FinishParticipant
<1>10. CASE OperationStep
  <2>1. CASE EnableCommits \/ EnableFails \/ ReconcileCollects \/ Publish \/ RuntimeDestroyed
             \/ EndOperation
    BY <2>1 DEF EnableCommits, EnableFails, ReconcileCollects, Publish, RuntimeDestroyed, EndOperation
  <2>2. ASSUME NEW p \in Plugins, NEW g \in Gens,
               ReconcileSkips(p, g) \/ ReconcileReuses(p, g) \/ RemovePlugin(p)
        PROVE  FALSE
    BY <2>2 DEF ReconcileSkips, ReconcileReuses, RemovePlugin
  <2>3. ASSUME NEW q \in Runtimes, Supersede(q) PROVE FALSE
    BY <2>3 DEF Supersede
  <2>4. ASSUME NEW p \in Plugins, RemovePlugin(p) PROVE FALSE
    BY <2>4 DEF RemovePlugin
  <2> QED
    BY <1>3, <1>7, <1>8, <1>10, <2>1, <2>2, <2>3, <2>4 DEF OperationStep
<1>11. CASE AdminStep
  <2>1. ASSUME NEW p \in Plugins, NEW on \in BOOLEAN, SetDesired(p, on) PROVE FALSE
    BY <2>1 DEF SetDesired
  <2>2. ASSUME NEW p \in Plugins,
               ReloadConfig(p) \/ EnableReuses(p) \/ Withdraw(p) \/ Quarantine(p)
        PROVE  FALSE
    BY <2>2 DEF ReloadConfig, EnableReuses, Withdraw, Quarantine
  <2>3. CASE ReconcileBegins
    BY <2>3 DEF ReconcileBegins
  <2> QED
    BY <1>2, <1>5, <1>6, <1>11, <2>1, <2>2, <2>3 DEF AdminStep
<1>12. CASE CloseBegins \/ CloseStep \/ \E q \in Runtimes : CleanupStops(q)
  BY <1>12 DEF CloseBegins, CloseStep, CloseTakes, CloseStops, CloseTakesPending, CloseEnds,
       CleanupStops
<1>13. CASE UNCHANGED vars
  BY <1>13 DEF vars
<1> QED
  BY <1>9, <1>10, <1>11, <1>12, <1>13 DEF Next

\* Only Supersede adds to the superseded runtimes, and it takes them from its list.
LEMMA NewlySuperseded ==
  ASSUME PinInvariant, OwnerInvariant, [Next]_vars, NEW r \in hdraining', r \notin hdraining
  PROVE  r \in Runtimes /\ Gone(r)
<1>1. ASSUME NEW q \in Runtimes, Supersede(q) PROVE r \in Runtimes /\ Gone(r)
  <2>1. r = q /\ q \in oldQ
    BY <1>1 DEF Supersede
  <2> QED
    BY <2>1 DEF OwnerInvariant, KeptOnce, KeptOnceAt, InHand, Kept, Gone
<1>2. ASSUME NEW c \in Conns, Accept(c) \/ ConnStep(c) PROVE FALSE
  BY <1>2 DEF ConnStep, Accept, StartSession, EnterCore, CoreReturns, FinishSession, ConnectionEnds,
       SkipHandler, ReserveHandler, InvokeHandler, ClaimContinuation, ClaimWithoutStream,
       HandlerReturns, ReleaseHandler, LeaveHandler, FinishParticipant
<1>3. CASE OperationStep
  <2>1. CASE EnableCommits \/ EnableFails \/ ReconcileCollects \/ Publish \/ RuntimeDestroyed
             \/ EndOperation
    BY <2>1 DEF EnableCommits, EnableFails, ReconcileCollects, Publish, RuntimeDestroyed, EndOperation
  <2>2. ASSUME NEW p \in Plugins, NEW g \in Gens,
               ReconcileSkips(p, g) \/ ReconcileReuses(p, g) \/ ReconcileForgets(p, g)
        PROVE  FALSE
    BY <2>2 DEF ReconcileSkips, ReconcileReuses, ReconcileForgets
  <2>3. ASSUME NEW p \in Plugins, NEW g \in Gens, NEW q \in Runtimes, NEW usable \in BOOLEAN,
               ReconcileStarts(p, g, q, usable)
        PROVE  FALSE
    BY <2>3 DEF ReconcileStarts
  <2>4. ASSUME NEW q \in Runtimes, RetireRuntime(q) PROVE FALSE
    BY <2>4 DEF RetireRuntime
  <2>5. ASSUME NEW p \in Plugins, RemovePlugin(p) PROVE FALSE
    BY <2>5 DEF RemovePlugin
  <2> QED
    BY <1>1, <1>3, <2>1, <2>2, <2>3, <2>4, <2>5 DEF OperationStep
<1>4. CASE AdminStep
  BY <1>4, AdminKeeps
<1>5. CASE CloseBegins \/ CloseStep \/ \E q \in Runtimes : CleanupStops(q)
  BY <1>5 DEF CloseBegins, CloseStep, CloseTakes, CloseStops, CloseTakesPending, CloseEnds,
       CleanupStops
<1>6. CASE UNCHANGED vars
  BY <1>6 DEF vars
<1> QED
  BY <1>1, <1>2, <1>3, <1>4, <1>5, <1>6 DEF Next

\* Every running runtime is in the hands of some owner, in every reachable state,
\* or was let go of: by the isolation of a crash, by the crash-loop branch of
\* loadLocked, or by a retirement that parked another runtime under its key.  What
\* was let go of, or superseded, is never taken up again.
THEOREM NoRuntimeForgotten == Spec => [](NoneForgotten /\ DroppedForGood /\ SupersededGone)
<1>1. Init => NoneForgotten /\ DroppedForGood /\ SupersededGone
  BY InitOwnerInvariant DEF Init, DroppedForGood, SupersededGone
<1>2. ASSUME PinInvariant, OwnerInvariant, DroppedForGood, [Next]_vars PROVE DroppedForGood'
  <2> SUFFICES ASSUME NEW r \in dropped' PROVE Gone(r)' /\ LetGo(r)'
    BY DEF DroppedForGood
  <2>1. CASE r \in dropped
    BY <1>2, <2>1, StaysGone DEF DroppedForGood, PinInvariant, TypeOK
  <2>2. CASE r \notin dropped
    BY <1>2, <2>2, NewlyDropped
  <2> QED
    BY <2>1, <2>2
<1>3. ASSUME PinInvariant, OwnerInvariant, SupersededGone, [Next]_vars PROVE SupersededGone'
  <2> SUFFICES ASSUME NEW r \in hdraining' PROVE Gone(r)'
    BY DEF SupersededGone
  <2>1. r \in Runtimes /\ Gone(r)
    BY <1>3, NewlySuperseded DEF SupersededGone, PinInvariant, TypeOK
  <2> QED
    BY <1>3, <2>1, StaysGone
<1>4. PinInvariant /\ OwnerInvariant /\ NoneForgotten /\ DroppedForGood /\ SupersededGone /\ [Next]_vars
        => (NoneForgotten /\ DroppedForGood /\ SupersededGone)'
  BY <1>2, <1>3, ForgetsNone
<1> QED
  BY <1>1, <1>4, PinInvariantHolds, OwnerInvariantHolds, PTL DEF Spec

\* Where OneOwner looks for a runtime, place by place.
LEMMA PlacesOf ==
  ASSUME TypeOK, OwnerInvariant, NEW r \in Runtimes
  PROVE  /\ \A p \in Plugins : loaded[p] = r =>
              {<<"loaded", q>> : q \in {x \in Plugins : loaded[x] = r}} = {<<"loaded", p>>}
         /\ ~IsLoaded(r) => {<<"loaded", q>> : q \in {x \in Plugins : loaded[x] = r}} = {}
         /\ \A p \in Plugins : r \in displaced[p] =>
              {<<"displaced", q>> : q \in {x \in Plugins : r \in displaced[x]}} = {<<"displaced", p>>}
         /\ ~IsDisplaced(r) => {<<"displaced", q>> : q \in {x \in Plugins : r \in displaced[x]}} = {}
<1>1. ASSUME NEW p \in Plugins, loaded[p] = r PROVE {x \in Plugins : loaded[x] = r} = {p}
  <2>1. \A x \in Plugins : loaded[x] = r => x = p
    BY <1>1, RuntimesAssumption DEF OwnerInvariant, FiledByOwner
  <2> QED
    BY <1>1, <2>1
<1>2. ASSUME NEW p \in Plugins, r \in displaced[p] PROVE {x \in Plugins : r \in displaced[x]} = {p}
  <2>1. \A x \in Plugins : r \in displaced[x] => x = p
    BY <1>2 DEF OwnerInvariant, FiledByOwner
  <2> QED
    BY <1>2, <2>1
<1>3. ASSUME ~IsLoaded(r) PROVE {x \in Plugins : loaded[x] = r} = {}
  BY <1>3 DEF IsLoaded
<1>4. ASSUME ~IsDisplaced(r) PROVE {x \in Plugins : r \in displaced[x]} = {}
  BY <1>4 DEF IsDisplaced
<1> QED
  BY <1>1, <1>2, <1>3, <1>4

\* Kept in one place while it runs, in the hands of one goroutine while it stops:
\* the places of a runtime are one or none.
LEMMA OwnersCounted ==
  ASSUME TypeOK, OwnerInvariant, NoneForgotten, DroppedForGood
  PROVE  OneOwner
<1> SUFFICES ASSUME NEW r \in Runtimes
             PROVE  Cardinality(Places(r)) =
                      IF rtState[r] \in {"started", "stopping"} /\ r \notin dropped THEN 1 ELSE 0
  BY DEF OneOwner
<1> DEFINE L == {<<"loaded", p>> : p \in {q \in Plugins : loaded[q] = r}}
           D == {<<"displaced", p>> : p \in {q \in Plugins : r \in displaced[q]}}
           O1 == {<<"op", 1>> : x \in {r} \cap oldQ}
           O2 == {<<"op", 2>> : x \in {r} \cap retiring}
           O3 == {<<"op", 3>> : x \in {r} \cap {replaced}}
           S1 == {<<"stop", 1>> : x \in {r} \cap pendingStops}
           S2 == {<<"stop", 2>> : x \in {r} \cap cleanup}
           S3 == {<<"stop", 3>> : x \in {r} \cap {destroying}}
           S4 == {<<"stop", 4>> : x \in {r} \cap closeQ}
<1>1. Places(r) = L \cup D \cup O1 \cup O2 \cup O3 \cup S1 \cup S2 \cup S3 \cup S4
  BY DEF Places
<1>2. /\ O1 = IF r \in oldQ THEN {<<"op", 1>>} ELSE {}
      /\ O2 = IF r \in retiring THEN {<<"op", 2>>} ELSE {}
      /\ O3 = IF r = replaced THEN {<<"op", 3>>} ELSE {}
      /\ S1 = IF r \in pendingStops THEN {<<"stop", 1>>} ELSE {}
      /\ S2 = IF r \in cleanup THEN {<<"stop", 2>>} ELSE {}
      /\ S3 = IF r = destroying THEN {<<"stop", 3>>} ELSE {}
      /\ S4 = IF r \in closeQ THEN {<<"stop", 4>>} ELSE {}
  OBVIOUS
<1>3. /\ \A p \in Plugins : loaded[p] = r => L = {<<"loaded", p>>}
      /\ ~IsLoaded(r) => L = {}
      /\ \A p \in Plugins : r \in displaced[p] => D = {<<"displaced", p>>}
      /\ ~IsDisplaced(r) => D = {}
  BY PlacesOf
<1> HIDE DEF L, D, O1, O2, O3, S1, S2, S3, S4
<1>4. KeptOnceAt(r)
  BY DEF OwnerInvariant, KeptOnce
<1>5. /\ rtState[r] = "stopping" <=> (r \in cleanup \/ r = destroying)
      /\ r \in cleanup => r # destroying
  BY DEF OwnerInvariant, StoppedOnce
<1>8. r \in dropped => rtState[r] = "started" /\ ~Kept(r)
  BY DEF DroppedForGood, Gone, LetGo, Kept, InHand, AwaitsStop
<1>9. CASE r \in dropped
  <2>1. L = {} /\ D = {} /\ O1 = {} /\ O2 = {} /\ O3 = {} /\ S1 = {} /\ S4 = {}
    BY <1>2, <1>3, <1>8, <1>9 DEF Kept, InHand, AwaitsStop
  <2>2. S2 = {} /\ S3 = {}
    BY <1>2, <1>5, <1>8, <1>9
  <2>3. Places(r) = {}
    BY <1>1, <2>1, <2>2
  <2> QED
    BY <1>9, <2>3, FS_EmptySet
<1>6. CASE rtState[r] = "started" /\ r \notin dropped
  <2>1. Kept(r) /\ S2 = {} /\ S3 = {}
    BY <1>2, <1>5, <1>6 DEF NoneForgotten
  <2>2. \E x : Places(r) = {x}
    <3>1. CASE IsLoaded(r)
      <4>1. PICK p \in Plugins : loaded[p] = r
        BY <3>1 DEF IsLoaded
      <4>2. D = {} /\ O1 = {} /\ O2 = {} /\ O3 = {} /\ S1 = {} /\ S4 = {}
        BY <1>2, <1>3, <1>4, <3>1 DEF KeptOnceAt, InHand, AwaitsStop
      <4> QED
        BY <1>1, <1>3, <2>1, <4>1, <4>2
    <3>2. CASE IsDisplaced(r)
      <4>1. PICK p \in Plugins : r \in displaced[p]
        BY <3>2 DEF IsDisplaced
      <4>2. L = {} /\ O1 = {} /\ O2 = {} /\ O3 = {} /\ S1 = {} /\ S4 = {}
        BY <1>2, <1>3, <1>4, <3>2 DEF KeptOnceAt, InHand, AwaitsStop
      <4> QED
        BY <1>1, <1>3, <2>1, <4>1, <4>2
    <3>3. CASE InHand(r)
      <4>1. L = {} /\ D = {} /\ S1 = {} /\ S4 = {}
        BY <1>2, <1>3, <1>4, <3>3 DEF KeptOnceAt, AwaitsStop
      <4>2. Places(r) = O1 \cup O2 \cup O3
        BY <1>1, <2>1, <4>1
      <4>3. \/ O1 = {<<"op", 1>>} /\ O2 = {} /\ O3 = {}
            \/ O1 = {} /\ O2 = {<<"op", 2>>} /\ O3 = {}
            \/ O1 = {} /\ O2 = {} /\ O3 = {<<"op", 3>>}
        BY <1>2, <1>4, <3>3 DEF KeptOnceAt, InHand
      <4> QED
        BY <4>2, <4>3
    <3>4. CASE AwaitsStop(r)
      <4>1. L = {} /\ D = {} /\ O1 = {} /\ O2 = {} /\ O3 = {}
        BY <1>2, <1>3, <1>4, <3>4 DEF KeptOnceAt, InHand
      <4>2. Places(r) = S1 \cup S4
        BY <1>1, <2>1, <4>1
      <4>3. \/ S1 = {<<"stop", 1>>} /\ S4 = {}
            \/ S1 = {} /\ S4 = {<<"stop", 4>>}
        BY <1>2, <1>4, <3>4 DEF KeptOnceAt, AwaitsStop
      <4> QED
        BY <4>2, <4>3
    <3> QED
      BY <2>1, <3>1, <3>2, <3>3, <3>4 DEF Kept
  <2> QED
    BY <1>6, <2>2, FS_Singleton
<1>7. CASE rtState[r] # "started"
  <2>1. L = {} /\ D = {} /\ O1 = {} /\ O2 = {} /\ O3 = {} /\ S1 = {} /\ S4 = {}
    BY <1>2, <1>3, <1>4, <1>7 DEF KeptOnceAt, Kept, InHand, AwaitsStop
  <2>2. Places(r) = S2 \cup S3
    BY <1>1, <2>1
  <2>3. CASE rtState[r] = "stopping"
    <3>1. \E x : Places(r) = {x}
      BY <1>2, <1>5, <2>2, <2>3
    <3> QED
      BY <1>8, <2>3, <3>1, FS_Singleton
  <2>4. CASE rtState[r] # "stopping"
    <3>1. Places(r) = {}
      BY <1>2, <1>5, <2>2, <2>4
    <3> QED
      BY <1>7, <2>4, <3>1, FS_EmptySet
  <2> QED
    BY <2>3, <2>4
<1> QED
  BY <1>6, <1>7, <1>9

\* A running runtime has exactly one owner that will stop it, a stopped one none and
\* one that was let go of none either, whatever Load, Enable, Disable, Delete,
\* Reconcile, reloads, quarantines and isolations, the drains, the cleanup goroutines
\* and Close do in between, with shared and with unique instance ids.
THEOREM OneOwnerAlways == Spec => []OneOwner
<1>1. PinInvariant /\ OwnerInvariant /\ NoneForgotten /\ DroppedForGood => OneOwner
  BY OwnersCounted DEF PinInvariant
<1> QED
  BY <1>1, NoRuntimeForgotten, PinInvariantHolds, OwnerInvariantHolds, PTL

\* When Close returns every runtime the manager ever started is stopped, but those it
\* had let go of: none escapes into a goroutine that Close does not wait for, or into
\* an operation that began before it.
THEOREM CloseLeavesNothing == Spec => []CloseStopsEverything
<1>1. PinInvariant /\ OwnerInvariant /\ NoneForgotten => CloseStopsEverything
  <2> SUFFICES ASSUME PinInvariant, OwnerInvariant, NoneForgotten, closeAt = "done",
                      NEW r \in Runtimes, r \notin dropped
               PROVE  rtState[r] \in {"free", "stopped"}
    BY DEF CloseStopsEverything
  <2>1. ~IsLoaded(r) /\ ~IsDisplaced(r)
    BY RuntimesAssumption DEF OwnerInvariant, CloseShape, IsLoaded, IsDisplaced
  <2>2. ~InHand(r) /\ ~AwaitsStop(r)
    BY RuntimesAssumption DEF OwnerInvariant, CloseShape, HandShape, InHand, AwaitsStop
  <2>3. rtState[r] # "started"
    BY <2>1, <2>2 DEF NoneForgotten, Kept
  <2>4. rtState[r] # "stopping"
    BY RuntimesAssumption DEF OwnerInvariant, CloseShape, StoppedOnce
  <2> QED
    BY <2>3, <2>4 DEF PinInvariant, TypeOK, RuntimeStates
<1> QED
  BY <1>1, NoRuntimeForgotten, PinInvariantHolds, OwnerInvariantHolds, PTL

-----------------------------------------------------------------------------
(* A superseded runtime is not entered again.                               *)

Stop == {"stopping", "stopped"}

\* Outside the connections a superseded runtime is stopped only when nothing
\* refers to it, or for Close; and a runtime being superseded still runs.
StopsUnreferenced(r) ==
    (r \in hdraining' /\ rtState'[r] \in Stop)
        => (r \in hdraining /\ rtState[r] \in Stop) \/ closing \/ ~(refs[r] > 0)

\* Every action that is not a connection's stops only what nothing refers to.
LEMMA OtherStops ==
  ASSUME PinInvariant, OwnerInvariant, OtherStep, NEW r \in Runtimes
  PROVE  StopsUnreferenced(r)
<1> USE DEF PinInvariant, OwnerInvariant, StopsUnreferenced, Stop
<1>1. ASSUME UNCHANGED <<rtState, hdraining>> PROVE StopsUnreferenced(r)
  BY <1>1
<1>2. ASSUME NEW p \in Plugins, NEW q \in Runtimes, StartCandidate(p, q), UNCHANGED hdraining
      PROVE  StopsUnreferenced(r)
  BY <1>2 DEF StartCandidate, TypeOK
<1>3. CASE OperationStep
  <2>1. CASE EnableCommits \/ EnableFails \/ ReconcileCollects \/ Publish \/ EndOperation
    BY <1>1, <2>1 DEF EnableCommits, EnableFails, ReconcileCollects, Publish, EndOperation
  <2>2. ASSUME NEW p \in Plugins, RemovePlugin(p) PROVE StopsUnreferenced(r)
    BY <1>1, <2>2 DEF RemovePlugin
  <2>3. ASSUME NEW q \in Runtimes, Supersede(q) PROVE StopsUnreferenced(r)
    <3>1. rtState[q] = "started" /\ rtState' = rtState /\ hdraining' = hdraining \cup {q}
      BY <2>3 DEF Supersede, KeptOnce, KeptOnceAt, Kept, InHand
    <3> QED
      BY <3>1
  <2>4. ASSUME NEW q \in Runtimes, RetireRuntime(q) PROVE StopsUnreferenced(r)
    BY <2>4 DEF RetireRuntime, Referenced, TypeOK
  <2>5. ASSUME NEW p \in Plugins, NEW g \in Gens,
               ReconcileSkips(p, g) \/ ReconcileForgets(p, g) \/ ReconcileReuses(p, g)
        PROVE  StopsUnreferenced(r)
    BY <1>1, <2>5 DEF ReconcileSkips, ReconcileForgets, ReconcileReuses
  <2>6. ASSUME NEW p \in Plugins, NEW g \in Gens, NEW q \in Runtimes, NEW usable \in BOOLEAN,
               ReconcileStarts(p, g, q, usable)
        PROVE  StopsUnreferenced(r)
    BY <1>2, <2>6 DEF ReconcileStarts
  <2>7. CASE RuntimeDestroyed
    BY <2>7 DEF RuntimeDestroyed, StopShape, TypeOK, MaybeRuntime
  <2> QED
    BY <1>3, <2>1, <2>2, <2>3, <2>4, <2>5, <2>6, <2>7 DEF OperationStep
<1>4. CASE AdminStep
  <2>1. ASSUME NEW p \in Plugins, NEW q \in Runtimes, Load(p, q) \/ EnableStarts(p, q)
        PROVE  StopsUnreferenced(r)
    BY <1>2, <2>1 DEF Load, EnableStarts
  <2>2. ASSUME NEW p \in Plugins,
               (\E on \in BOOLEAN : SetDesired(p, on)) \/ ReloadConfig(p) \/ EnableReuses(p) \/ LoadForgets(p)
                 \/ Withdraw(p) \/ Quarantine(p) \/ Isolate(p)
        PROVE  StopsUnreferenced(r)
    BY <1>1, <2>2 DEF SetDesired, ReloadConfig, EnableReuses, LoadForgets, Withdraw, Quarantine, Isolate
  <2>3. CASE ReconcileBegins
    BY <1>1, <2>3 DEF ReconcileBegins
  <2> QED
    BY <1>4, <2>1, <2>2, <2>3 DEF AdminStep
<1>5. CASE CloseBegins \/ CloseStep
  <2>1. CASE CloseBegins \/ CloseTakes \/ CloseTakesPending \/ CloseEnds
    BY <1>1, <2>1 DEF CloseBegins, CloseTakes, CloseTakesPending, CloseEnds
  <2>2. ASSUME NEW q \in Runtimes, CloseStops(q) PROVE StopsUnreferenced(r)
    BY <2>2 DEF CloseStops, StopShape
  <2> QED
    BY <1>5, <2>1, <2>2 DEF CloseStep
<1>6. ASSUME NEW q \in Runtimes, CleanupStops(q) PROVE StopsUnreferenced(r)
  BY <1>6 DEF CleanupStops, StopShape, TypeOK
<1> QED
  BY <1>3, <1>4, <1>5, <1>6 DEF OtherStep

\* Shutdown is not called off.
LEMMA ClosingStays ==
  ASSUME [Next]_vars, closing
  PROVE  closing'
<1>1. ASSUME NEW c \in Conns, Accept(c) \/ ConnStep(c) PROVE closing'
  BY <1>1 DEF Accept, ConnStep, StartSession, EnterCore, CoreReturns, FinishSession, ConnectionEnds,
       SkipHandler, ReserveHandler, InvokeHandler, ClaimContinuation, ClaimWithoutStream,
       HandlerReturns, ReleaseHandler, LeaveHandler, FinishParticipant
<1>2. CASE OperationStep
  <2>1. CASE EnableCommits \/ EnableFails \/ ReconcileCollects \/ Publish
    BY <2>1 DEF EnableCommits, EnableFails, ReconcileCollects, Publish
  <2>2. CASE RuntimeDestroyed \/ EndOperation \/ \E p \in Plugins : RemovePlugin(p)
    BY <2>2 DEF RuntimeDestroyed, EndOperation, RemovePlugin
  <2>3. CASE \E r \in Runtimes : Supersede(r) \/ RetireRuntime(r)
    BY <2>3 DEF Supersede, RetireRuntime
  <2>4. ASSUME NEW p \in Plugins, NEW g \in Gens,
               ReconcileSkips(p, g) \/ ReconcileForgets(p, g) \/ ReconcileReuses(p, g)
                 \/ \E r \in Runtimes, usable \in BOOLEAN : ReconcileStarts(p, g, r, usable)
        PROVE  closing'
    BY <2>4 DEF ReconcileSkips, ReconcileForgets, ReconcileReuses, ReconcileStarts
  <2> QED
    BY <1>2, <2>1, <2>2, <2>3, <2>4 DEF OperationStep
<1>3. CASE AdminStep
  BY <1>3, AdminKeeps
<1>4. CASE CloseBegins \/ CloseStep \/ \E r \in Runtimes : CleanupStops(r)
  BY <1>4 DEF CloseBegins, CloseStep, CloseTakes, CloseStops, CloseTakesPending, CloseEnds,
       CleanupStops
<1> QED
  BY <1>1, <1>2, <1>3, <1>4 DEF Next, vars

\* SupersededNeverReentered, invocation by invocation.
Reentered(r, c, p) ==
    r \in hdraining /\ rtState[r] \in Stop /\ ~closing /\ stage[c][p] \in Holding /\ snap[c][p] = r

\* The invariant forbids Reentered for every invocation, and nothing else.
LEMMA NeverReenteredPointwise ==
  ASSUME TypeOK
  PROVE  SupersededNeverReentered <=> \A r \in Runtimes, c \in Conns, p \in Plugins : ~Reentered(r, c, p)
<1>1. ASSUME NEW r, NEW c \in Conns, NEW p \in Plugins, stage[c][p] \in Holding, snap[c][p] = r
      PROVE  Holders(r) # {}
  <2>1. <<c, p>> \in Holders(r)
    BY <1>1 DEF Holders
  <2> QED
    BY <2>1
<1>2. ASSUME NEW r, Holders(r) # {}
      PROVE  \E c \in Conns, p \in Plugins : stage[c][p] \in Holding /\ snap[c][p] = r
  <2>1. PICK h \in Conns \X Plugins : stage[h[1]][h[2]] \in Holding /\ snap[h[1]][h[2]] = r
    BY <1>2 DEF Holders
  <2> QED
    BY <2>1
<1>3. ASSUME SupersededNeverReentered, NEW r \in Runtimes, NEW c \in Conns, NEW p \in Plugins,
             Reentered(r, c, p)
      PROVE  FALSE
  <2>1. Holders(r) # {}
    BY <1>1, <1>3 DEF Reentered
  <2> QED
    BY <1>3, <2>1 DEF SupersededNeverReentered, Reentered, Stop
<1>4. ASSUME \A r \in Runtimes, c \in Conns, p \in Plugins : ~Reentered(r, c, p),
             NEW r \in hdraining, rtState[r] \in {"stopping", "stopped"}
      PROVE  Holders(r) = {} \/ closing
  <2>1. r \in Runtimes
    BY <1>4 DEF TypeOK
  <2> QED
    BY <1>2, <1>4, <2>1 DEF Reentered, Stop
<1> QED
  BY <1>3, <1>4 DEF SupersededNeverReentered

\* No step lets an invocation into a superseded runtime whose stop is decided.
LEMMA NextNeverReentered ==
  ASSUME PinInvariant, PinInvariant', OwnerInvariant, SupersededNeverReentered, [Next]_vars
  PROVE  SupersededNeverReentered'
<1> USE DEF PinInvariant
<1>0. TypeOK /\ TypeOK' /\ \A r \in Runtimes, c \in Conns, p \in Plugins : ~Reentered(r, c, p)
  BY NeverReenteredPointwise
<1> SUFFICES ASSUME NEW r \in Runtimes, NEW d \in Conns, NEW q \in Plugins, Reentered(r, d, q)'
             PROVE  FALSE
  <2>1. \A r \in Runtimes, c \in Conns, p \in Plugins : ~Reentered(r, c, p)'
    OBVIOUS
  <2>2. (SupersededNeverReentered <=> \A r \in Runtimes, c \in Conns, p \in Plugins : ~Reentered(r, c, p))'
    BY <1>0, NeverReenteredPointwise, PTL
  <2> QED
    BY <2>1, <2>2
<1>1. ~closing
  BY ClosingStays DEF Reentered
<1>2. /\ r \in hdraining' /\ rtState'[r] \in Stop /\ stage'[d][q] \in Holding /\ snap'[d][q] = r
      /\ ~(r \in hdraining /\ rtState[r] \in Stop /\ stage[d][q] \in Holding /\ snap[d][q] = r)
  BY <1>0, <1>1 DEF Reentered
<1>3. refs[r] > 0 \/ ~(stage[d][q] \in Holding /\ snap[d][q] = r)
  BY UnreferencedUnheld
<1>4. ASSUME UNCHANGED <<hdraining, rtState>>,
             stage'[d][q] \in Holding => stage[d][q] \in Holding /\ snap'[d][q] = snap[d][q]
      PROVE  FALSE
  BY <1>2, <1>4
<1>5. ASSUME NEW c \in Conns, Accept(c) \/ ConnStep(c) PROVE FALSE
  <2>1. CASE Accept(c) \/ ConnectionEnds(c)
    <3>1. \A p \in Plugins : stage[c][p] = "idle"
      BY <2>1 DEF Accept, ConnectionEnds, ChainShape
    <3>2. UNCHANGED <<hdraining, rtState, stage>>
      BY <2>1 DEF Accept, ConnectionEnds
    <3>3. \A b \in Conns : b # c => snap'[b] = snap[b]
      BY <2>1 DEF Accept, ConnectionEnds, TypeOK
    <3>4. stage[d][q] \in Holding => d # c
      BY <3>1 DEF Holding
    <3> QED
      BY <1>4, <3>2, <3>3, <3>4
  <2>2. CASE StartSession(c) \/ EnterCore(c) \/ FinishSession(c) \/ CoreReturns(c)
    BY <1>4, <2>2 DEF StartSession, EnterCore, FinishSession, CoreReturns
  <2>3. ASSUME NEW p \in Plugins,
               SkipHandler(c, p) \/ ClaimContinuation(c, p, "run")
                 \/ ClaimContinuation(c, p, "core") \/ ClaimWithoutStream(c, p)
        PROVE  FALSE
    BY <1>4, <2>3 DEF SkipHandler, ClaimContinuation, ClaimWithoutStream
  <2>4. ASSUME NEW p \in Plugins, ReserveHandler(c, p) PROVE FALSE
    BY <1>2, <2>4 DEF ReserveHandler, Draining, TypeOK
  <2>5. ASSUME NEW p \in Plugins, InvokeHandler(c, p) PROVE FALSE
    BY <1>4, <2>5 DEF InvokeHandler, TypeOK, Holding
  <2>6. ASSUME NEW p \in Plugins, HandlerReturns(c, p) PROVE FALSE
    BY <1>4, <2>6 DEF HandlerReturns, TypeOK, Holding
  <2>7. ASSUME NEW p \in Plugins, ReleaseHandler(c, p) PROVE FALSE
    BY <1>4, <2>7 DEF ReleaseHandler, TypeOK, Holding
  <2>8. ASSUME NEW p \in Plugins, LeaveHandler(c, p) \/ FinishParticipant(c, p) PROVE FALSE
    <3>0. \A key : \A x \in Due(key) : ~(refs[x] > 0)
      BY DEF Due, Referenced
    <3> DEFINE due == Due(HandlerKey(snap[c][p]))
    <3>1. /\ rtState' = [x \in Runtimes |-> IF x \in due THEN "stopping" ELSE rtState[x]]
          /\ \A x \in due : ~(refs[x] > 0)
      BY <2>8, <3>0 DEF LeaveHandler, FinishParticipant, QueuePendingStop
    <3> HIDE DEF due
    <3>2. stage'[d][q] \in Holding => stage[d][q] \in Holding
      <4>1. stage' = stage \/ stage' = [stage EXCEPT ![c][p] = "idle"]
        BY <2>8 DEF LeaveHandler, FinishParticipant
      <4>2. stage \in [Conns -> [Plugins -> Stages]]
        BY DEF TypeOK
      <4>3. CASE stage' = [stage EXCEPT ![c][p] = "idle"]
        BY <4>2, <4>3 DEF Holding
      <4> QED
        BY <4>1, <4>3
    <3>3. UNCHANGED <<snap, hdraining>>
      BY <2>8 DEF LeaveHandler, FinishParticipant
    <3> QED
      BY <1>2, <1>3, <3>1, <3>2, <3>3
  <2> QED
    BY <1>5, <2>1, <2>2, <2>3, <2>4, <2>5, <2>6, <2>7, <2>8 DEF ConnStep
<1>6. CASE OtherStep
  <2>1. UNCHANGED <<snap, stage>>
    BY <1>6, OtherKeepsFrames
  <2>2. StopsUnreferenced(r)
    BY <1>6, OtherStops
  <2> QED
    BY <1>1, <1>2, <1>3, <2>1, <2>2 DEF StopsUnreferenced
<1>7. CASE UNCHANGED vars
  BY <1>4, <1>7 DEF vars
<1> QED
  BY <1>5, <1>6, <1>7 DEF Next, OtherStep

\* Once the stop of a runtime that an Enable or a Reconcile superseded is decided,
\* no invocation holds it, however old the snapshots that still name it: the drain
\* mark of the handler comes before the last test of its references, for any
\* plugins, connections, runtimes and reloads.
THEOREM SupersededNotReentered == Spec => []SupersededNeverReentered
<1>1. Init => SupersededNeverReentered
  BY DEF Init, SupersededNeverReentered
<1>2. PinInvariant /\ PinInvariant' /\ OwnerInvariant /\ SupersededNeverReentered /\ [Next]_vars
        => SupersededNeverReentered'
  BY NextNeverReentered
<1> QED
  BY <1>1, <1>2, PinInvariantHolds, OwnerInvariantHolds, PTL DEF Spec

\* A connection step keeps a running continuation inside its invocation: claim
\* finds the flow available only while the handler executes, and
\* releaseUpstreamHandler comes after flow.wait().
LEMMA ConnContinuation ==
  ASSUME PinInvariant, ContinuationInsideInvocation, NEW c \in Conns, Accept(c) \/ ConnStep(c)
  PROVE  ContinuationInsideInvocation'
<1> USE DEF PinInvariant, ContinuationInsideInvocation, ContinuationRunning
<1>1. CASE Accept(c) \/ StartSession(c) \/ EnterCore(c) \/ FinishSession(c)
  BY <1>1 DEF Accept, StartSession, EnterCore, FinishSession
<1>2. CASE CoreReturns(c)
  BY <1>2 DEF CoreReturns, ReturnToCaller, TypeOK
<1>3. CASE ConnectionEnds(c)
  BY <1>3 DEF ConnectionEnds, TypeOK
<1>4. ASSUME NEW p \in Plugins,
             SkipHandler(c, p) \/ ReserveHandler(c, p) \/ FinishParticipant(c, p)
      PROVE  ContinuationInsideInvocation'
  <2>1. CASE SkipHandler(c, p) \/ FinishParticipant(c, p)
    BY <2>1 DEF SkipHandler, FinishParticipant
  <2>2. CASE ReserveHandler(c, p)
    <3>1. stage[c][p] = "idle"
      <4>1. Plugins \cup {NoPlugin} \subseteq Nat
        BY PluginsAssumption DEF NoPlugin
      <4>2. at[c] \in Nat /\ p \in Nat
        BY <4>1 DEF TypeOK
      <4>3. at[c] < p
        BY <2>2 DEF ReserveHandler, IsNext
      <4> QED
        BY <4>2, <4>3 DEF ChainShape
    <3> QED
      BY <2>2, <3>1 DEF ReserveHandler, TypeOK
  <2> QED
    BY <1>4, <2>1, <2>2
<1>5. ASSUME NEW p \in Plugins, InvokeHandler(c, p) PROVE ContinuationInsideInvocation'
  BY <1>5 DEF InvokeHandler, TypeOK
<1>6. ASSUME NEW p \in Plugins, NEW to, ClaimContinuation(c, p, to)
      PROVE  ContinuationInsideInvocation'
  BY <1>6 DEF ClaimContinuation, ChainShape, TypeOK
<1>7. ASSUME NEW p \in Plugins, ClaimWithoutStream(c, p) PROVE ContinuationInsideInvocation'
  BY <1>7 DEF ClaimWithoutStream, TypeOK
<1>8. ASSUME NEW p \in Plugins, HandlerReturns(c, p) PROVE ContinuationInsideInvocation'
  BY <1>8 DEF HandlerReturns, AfterHandlerReturn, TypeOK
<1>9. ASSUME NEW p \in Plugins, ReleaseHandler(c, p) PROVE ContinuationInsideInvocation'
  BY <1>9 DEF ReleaseHandler, TypeOK
<1>10. ASSUME NEW p \in Plugins, LeaveHandler(c, p) PROVE ContinuationInsideInvocation'
  BY <1>10 DEF LeaveHandler, ReturnToCaller, TypeOK
<1> QED
  BY <1>1, <1>2, <1>3, <1>4, <1>5, <1>6, <1>7, <1>8, <1>9, <1>10 DEF ConnStep

\* A continuation never runs after the runtime it belongs to was given free, for
\* any chain and any number of connections.
THEOREM ContinuationsStayInside == Spec => []ContinuationInsideInvocation
<1>1. Init => ContinuationInsideInvocation
  BY DEF Init, ContinuationInsideInvocation, ContinuationRunning
<1>2. PinInvariant /\ ContinuationInsideInvocation /\ [Next]_vars => ContinuationInsideInvocation'
  <2> SUFFICES ASSUME PinInvariant, ContinuationInsideInvocation, [Next]_vars
               PROVE  ContinuationInsideInvocation'
    OBVIOUS
  <2>1. ASSUME NEW c \in Conns, Accept(c) \/ ConnStep(c) PROVE ContinuationInsideInvocation'
    BY <2>1, ConnContinuation
  <2>2. CASE OtherStep
    BY <2>2, OtherKeepsFrames DEF ContinuationInsideInvocation
  <2>3. CASE UNCHANGED vars
    BY <2>3 DEF vars, ContinuationInsideInvocation
  <2> QED
    BY <2>1, <2>2, <2>3 DEF Next, OtherStep
<1> QED
  BY <1>1, <1>2, PinInvariantHolds, PTL DEF Spec

-----------------------------------------------------------------------------
(* Sessions, and the parked runtimes that wait for them.                    *)

\* A connection has a session from startConnectionSession to
\* finishConnectionSession, and its participants are runtimes.
SessionShape ==
    \A c \in Conns :
        /\ c \in sessions <=> pc[c] \in {"run", "handler", "core", "finish"}
        /\ pc[c] \in {"idle", "loaded"} => parts[c] = {}
        /\ \A p \in parts[c] : snap[c][p] \in Runtimes

\* A runtime that a dispatch snapshot names was started.
Started(r) == r # NoRuntime => rtState[r] # "free"
NamedWasStarted ==
    /\ \A p \in Plugins : Started(snapshot[p]) /\ Started(next[p])
    /\ \A c \in Conns, p \in Plugins : Started(snap[c][p])

\* What is fixed of a runtime once it is started: that it was, its plugin and the
\* key in its handler; and its record too, once it is not the loaded one.
Fixed(r) ==
    /\ rtState'[r] # "free" /\ owner'[r] = owner[r] /\ keyGen'[r] = keyGen[r]
    /\ ~IsLoaded(r) => recGen'[r] = recGen[r]

\* No step undoes it.
LEMMA StartedFixed ==
  ASSUME PinInvariant, [Next]_vars, NEW r \in Runtimes, rtState[r] # "free"
  PROVE  Fixed(r)
<1> USE DEF PinInvariant, Fixed
<1>1. ASSUME UNCHANGED <<rtState, owner, keyGen, recGen>> PROVE Fixed(r)
  BY <1>1
<1>2. ASSUME NEW p \in Plugins, NEW q \in Runtimes, StartCandidate(p, q) PROVE Fixed(r)
  BY <1>2 DEF StartCandidate, TypeOK
<1>3. ASSUME NEW q, rtState' = [rtState EXCEPT ![q] = "stopped"], UNCHANGED <<owner, keyGen, recGen>>
      PROVE  Fixed(r)
  BY <1>3 DEF TypeOK
<1>4. ASSUME NEW c \in Conns, Accept(c) \/ ConnStep(c) PROVE Fixed(r)
  <2>1. CASE Accept(c) \/ StartSession(c) \/ EnterCore(c) \/ FinishSession(c) \/ CoreReturns(c)
             \/ ConnectionEnds(c)
    BY <1>1, <2>1 DEF Accept, StartSession, EnterCore, FinishSession, CoreReturns, ConnectionEnds
  <2>2. ASSUME NEW p \in Plugins,
               SkipHandler(c, p) \/ ReserveHandler(c, p) \/ InvokeHandler(c, p)
                 \/ ClaimContinuation(c, p, "run") \/ ClaimContinuation(c, p, "core")
                 \/ ClaimWithoutStream(c, p) \/ HandlerReturns(c, p) \/ ReleaseHandler(c, p)
        PROVE  Fixed(r)
    BY <1>1, <2>2 DEF SkipHandler, ReserveHandler, InvokeHandler, ClaimContinuation,
         ClaimWithoutStream, HandlerReturns, ReleaseHandler
  <2>3. ASSUME NEW p \in Plugins, LeaveHandler(c, p) \/ FinishParticipant(c, p)
        PROVE  Fixed(r)
    BY <2>3 DEF LeaveHandler, FinishParticipant, QueuePendingStop
  <2> QED
    BY <1>4, <2>1, <2>2, <2>3 DEF ConnStep
<1>5. CASE OperationStep
  <2>1. CASE EnableCommits \/ EnableFails \/ ReconcileCollects \/ Publish \/ EndOperation
    BY <1>1, <2>1 DEF EnableCommits, EnableFails, ReconcileCollects, Publish, EndOperation
  <2>2. ASSUME NEW p \in Plugins, RemovePlugin(p) PROVE Fixed(r)
    BY <1>1, <2>2 DEF RemovePlugin
  <2>3. ASSUME NEW q \in Runtimes, Supersede(q) PROVE Fixed(r)
    BY <1>1, <2>3 DEF Supersede
  <2>4. ASSUME NEW q \in Runtimes, RetireRuntime(q) PROVE Fixed(r)
    BY <2>4 DEF RetireRuntime, TypeOK
  <2>5. ASSUME NEW p \in Plugins, NEW g \in Gens,
               ReconcileSkips(p, g) \/ ReconcileForgets(p, g) \/ ReconcileReuses(p, g)
        PROVE  Fixed(r)
    BY <1>1, <2>5 DEF ReconcileSkips, ReconcileForgets, ReconcileReuses
  <2>6. ASSUME NEW p \in Plugins, NEW g \in Gens, NEW q \in Runtimes, NEW usable \in BOOLEAN,
               ReconcileStarts(p, g, q, usable)
        PROVE  Fixed(r)
    BY <1>2, <2>6 DEF ReconcileStarts
  <2>7. CASE RuntimeDestroyed
    BY <1>3, <2>7 DEF RuntimeDestroyed
  <2> QED
    BY <1>5, <2>1, <2>2, <2>3, <2>4, <2>5, <2>6, <2>7 DEF OperationStep
<1>6. CASE AdminStep
  <2>1. ASSUME NEW p \in Plugins, NEW q \in Runtimes, Load(p, q) \/ EnableStarts(p, q)
        PROVE  Fixed(r)
    BY <1>2, <2>1 DEF Load, EnableStarts
  <2>2. ASSUME NEW p \in Plugins,
               (\E on \in BOOLEAN : SetDesired(p, on)) \/ EnableReuses(p) \/ LoadForgets(p)
                 \/ Withdraw(p) \/ Quarantine(p) \/ Isolate(p)
        PROVE  Fixed(r)
    BY <1>1, <2>2 DEF SetDesired, EnableReuses, LoadForgets, Withdraw, Quarantine, Isolate
  <2>3. ASSUME NEW p \in Plugins, ReloadConfig(p) PROVE Fixed(r)
    BY <2>3 DEF ReloadConfig, IsLoaded, TypeOK, MaybeRuntime
  <2>4. CASE ReconcileBegins
    BY <1>1, <2>4 DEF ReconcileBegins
  <2> QED
    BY <1>6, <2>1, <2>2, <2>3, <2>4 DEF AdminStep
<1>7. CASE CloseBegins \/ CloseStep \/ \E q \in Runtimes : CleanupStops(q)
  <2>1. CASE CloseBegins \/ CloseTakes \/ CloseTakesPending \/ CloseEnds
    BY <1>1, <2>1 DEF CloseBegins, CloseTakes, CloseTakesPending, CloseEnds
  <2>2. ASSUME NEW q \in Runtimes, CloseStops(q) \/ CleanupStops(q) PROVE Fixed(r)
    BY <1>3, <2>2 DEF CloseStops, CleanupStops
  <2> QED
    BY <1>7, <2>1, <2>2 DEF CloseStep
<1>8. CASE UNCHANGED vars
  BY <1>1, <1>8 DEF vars
<1> QED
  BY <1>4, <1>5, <1>6, <1>7, <1>8 DEF Next

\* No operation, shutdown or cleanup goroutine opens or closes a session or takes a
\* participant out of one, and none takes a drain mark back.
LEMMA OtherKeepsSessions ==
  ASSUME PinInvariant, OtherStep
  PROVE  UNCHANGED <<sessions, parts>> /\ \A c \in Conns : sdrain[c] \subseteq sdrain'[c]
<1> USE DEF PinInvariant
<1>0. ASSUME NEW ps, MarkSessions(ps) PROVE \A c \in Conns : sdrain[c] \subseteq sdrain'[c]
  BY <1>0 DEF MarkSessions
<1>1. CASE OperationStep
  <2>1. CASE EnableCommits \/ EnableFails \/ ReconcileCollects \/ Publish
    BY <2>1 DEF EnableCommits, EnableFails, ReconcileCollects, Publish
  <2>2. CASE RuntimeDestroyed \/ EndOperation
    BY <2>2 DEF RuntimeDestroyed, EndOperation
  <2>3. ASSUME NEW p \in Plugins, RemovePlugin(p)
        PROVE  UNCHANGED <<sessions, parts>> /\ \A c \in Conns : sdrain[c] \subseteq sdrain'[c]
    BY <1>0, <2>3 DEF RemovePlugin
  <2>4. ASSUME NEW r \in Runtimes, Supersede(r)
        PROVE  UNCHANGED <<sessions, parts>> /\ \A c \in Conns : sdrain[c] \subseteq sdrain'[c]
    BY <2>4 DEF Supersede
  <2>5. ASSUME NEW r \in Runtimes, RetireRuntime(r)
        PROVE  UNCHANGED <<sessions, parts, sdrain>>
    BY <2>5 DEF RetireRuntime
  <2>6. ASSUME NEW p \in Plugins, NEW g \in Gens,
               ReconcileSkips(p, g) \/ ReconcileForgets(p, g) \/ ReconcileReuses(p, g)
                 \/ \E r \in Runtimes, usable \in BOOLEAN : ReconcileStarts(p, g, r, usable)
        PROVE  UNCHANGED <<sessions, parts, sdrain>>
    BY <2>6 DEF ReconcileSkips, ReconcileForgets, ReconcileReuses, ReconcileStarts
  <2> QED
    BY <1>1, <2>1, <2>2, <2>3, <2>4, <2>5, <2>6 DEF OperationStep
<1>2. CASE AdminStep
  <2>1. ASSUME NEW p \in Plugins, Withdraw(p) \/ Quarantine(p) \/ Isolate(p)
        PROVE  UNCHANGED <<sessions, parts>> /\ \A c \in Conns : sdrain[c] \subseteq sdrain'[c]
    BY <1>0, <2>1 DEF Withdraw, Quarantine, Isolate
  <2>2. ASSUME NEW p \in Plugins,
               (\E on \in BOOLEAN : SetDesired(p, on)) \/ ReloadConfig(p) \/ EnableReuses(p) \/ LoadForgets(p)
                 \/ \E r \in Runtimes : Load(p, r) \/ EnableStarts(p, r)
        PROVE  UNCHANGED <<sessions, parts, sdrain>>
    BY <2>2 DEF SetDesired, ReloadConfig, EnableReuses, LoadForgets, Load, EnableStarts
  <2>3. CASE ReconcileBegins
    BY <2>3 DEF ReconcileBegins
  <2> QED
    BY <1>2, <2>1, <2>2, <2>3 DEF AdminStep
<1>3. CASE CloseBegins \/ CloseStep \/ \E r \in Runtimes : CleanupStops(r)
  <2>1. CASE CloseTakes
    BY <1>0, <2>1 DEF CloseTakes
  <2>2. CASE CloseBegins \/ CloseTakesPending \/ CloseEnds
             \/ \E r \in Runtimes : CloseStops(r) \/ CleanupStops(r)
    BY <2>2 DEF CloseBegins, CloseStops, CloseTakesPending, CloseEnds, CleanupStops
  <2> QED
    BY <1>3, <2>1, <2>2 DEF CloseStep
<1> QED
  BY <1>1, <1>2, <1>3 DEF OtherStep

\* Every step keeps SessionShape.
LEMMA NextSessionShape ==
  ASSUME PinInvariant, SessionShape, [Next]_vars
  PROVE  SessionShape'
<1> USE DEF PinInvariant
<1>1. ASSUME NEW c \in Conns, Accept(c) \/ ConnStep(c) PROVE SessionShape'
  <2>0. \A p \in Plugins : stage[c][p] # "idle" =>
           pc[c] \in {"run", "handler", "core"} /\ snap[c][p] \in Runtimes
    BY DEF ChainShape
  <2>1. CASE Accept(c)
    BY <2>1 DEF Accept, SessionShape, TypeOK
  <2>2. CASE StartSession(c)
    BY <2>2 DEF StartSession, SessionShape, TypeOK
  <2>3. CASE EnterCore(c) \/ FinishSession(c)
    BY <2>3 DEF EnterCore, FinishSession, SessionShape, TypeOK
  <2>4. CASE ConnectionEnds(c)
    BY <2>4 DEF ConnectionEnds, SessionShape, TypeOK
  <2>5. CASE CoreReturns(c)
    <3>1. pc' = [pc EXCEPT ![c] = "finish"] \/ pc' = [pc EXCEPT ![c] = "handler"]
      BY <2>5 DEF CoreReturns, ReturnToCaller
    <3> QED
      BY <2>5, <3>1 DEF CoreReturns, SessionShape, TypeOK
  <2>6. ASSUME NEW p \in Plugins, SkipHandler(c, p) \/ ReserveHandler(c, p) \/ ClaimWithoutStream(c, p)
                 \/ HandlerReturns(c, p) \/ ReleaseHandler(c, p)
        PROVE  SessionShape'
    BY <2>6 DEF SkipHandler, ReserveHandler, ClaimWithoutStream, HandlerReturns, ReleaseHandler,
         SessionShape, TypeOK
  <2>7. ASSUME NEW p \in Plugins, InvokeHandler(c, p) PROVE SessionShape'
    <3>1. pc[c] \in {"run", "handler", "core"} /\ snap[c][p] \in Runtimes
      BY <2>0, <2>7 DEF InvokeHandler
    <3> QED
      BY <2>7, <3>1 DEF InvokeHandler, SessionShape, TypeOK
  <2>8. ASSUME NEW p \in Plugins, ClaimContinuation(c, p, "run") \/ ClaimContinuation(c, p, "core")
        PROVE  SessionShape'
    <3>1. pc[c] \in {"run", "handler", "core"}
      BY <2>0, <2>8 DEF ClaimContinuation, ChainShape
    <3> QED
      BY <2>8, <3>1 DEF ClaimContinuation, SessionShape, TypeOK
  <2>9. ASSUME NEW p \in Plugins, LeaveHandler(c, p) PROVE SessionShape'
    <3>1. pc[c] \in {"run", "handler", "core"}
      BY <2>0, <2>9 DEF LeaveHandler
    <3>2. pc' = [pc EXCEPT ![c] = "finish"] \/ pc' = [pc EXCEPT ![c] = "handler"]
      BY <2>9 DEF LeaveHandler, ReturnToCaller
    <3>3. UNCHANGED <<snap, sessions, parts>>
      BY <2>9 DEF LeaveHandler
    <3> QED
      BY <3>1, <3>2, <3>3 DEF SessionShape, TypeOK
  <2>10. ASSUME NEW p \in Plugins, FinishParticipant(c, p) PROVE SessionShape'
    BY <2>10 DEF FinishParticipant, SessionShape, TypeOK
  <2> QED
    BY <1>1, <2>1, <2>2, <2>3, <2>4, <2>5, <2>6, <2>7, <2>8, <2>9, <2>10 DEF ConnStep
<1>2. CASE OtherStep
  BY <1>2, OtherKeepsFrames, OtherKeepsSessions DEF SessionShape
<1>3. CASE UNCHANGED vars
  BY <1>3 DEF vars, SessionShape
<1> QED
  BY <1>1, <1>2, <1>3 DEF Next, OtherStep

\* What the operation in progress may publish was started.
LEMMA NextNamedWasStarted ==
  ASSUME PinInvariant, OwnerInvariant, NamedWasStarted, [Next]_vars
  PROVE  NamedWasStarted'
<1> USE RuntimesAssumption DEF PinInvariant
<1>1. ASSUME NEW r \in MaybeRuntime, Started(r) PROVE Started(r)'
  BY <1>1, StartedFixed DEF Started, Fixed, MaybeRuntime
<1>2. ASSUME NEW p \in Plugins PROVE Started(loaded[p])
  <2>1. CASE loaded[p] = NoRuntime
    BY <2>1 DEF Started
  <2>2. CASE loaded[p] # NoRuntime
    <3>1. loaded[p] \in Runtimes /\ IsLoaded(loaded[p])
      BY <2>2 DEF IsLoaded, TypeOK, MaybeRuntime
    <3>2. rtState[loaded[p]] = "started"
      BY <3>1 DEF OwnerInvariant, KeptOnce, KeptOnceAt, Kept
    <3> QED
      BY <3>1, <3>2 DEF Started
  <2> QED
    BY <2>1, <2>2
<1>3. /\ \A p \in Plugins : Started(snapshot[p]) /\ snapshot[p] \in MaybeRuntime
      /\ \A p \in Plugins : Started(next[p]) /\ next[p] \in MaybeRuntime
      /\ \A c \in Conns, p \in Plugins : Started(snap[c][p]) /\ snap[c][p] \in MaybeRuntime
      /\ \A p \in Plugins : loaded[p] \in MaybeRuntime
      /\ snapshot \in [Plugins -> MaybeRuntime] /\ next \in [Plugins -> MaybeRuntime]
      /\ snap \in [Conns -> [Plugins -> MaybeRuntime]]
  BY DEF NamedWasStarted, TypeOK
<1> DEFINE Known(r) == r \in MaybeRuntime /\ (r # NoRuntime => rtState'[r] # "free")
<1>4. Known(NoRuntime)
  BY DEF MaybeRuntime
<1>5. /\ \A p \in Plugins : Known(snapshot[p]) /\ Known(next[p]) /\ Known(loaded[p])
      /\ \A c \in Conns, p \in Plugins : Known(snap[c][p])
  <2>1. ASSUME NEW r \in MaybeRuntime, Started(r) PROVE Known(r)
    BY <1>1, <2>1 DEF Started
  <2> HIDE DEF Known
  <2> QED
    BY <1>2, <1>3, <2>1
<1>6. ASSUME /\ \A p \in Plugins : Known(snapshot'[p]) /\ Known(next'[p])
             /\ \A c \in Conns, p \in Plugins : Known(snap'[c][p])
      PROVE  NamedWasStarted'
  BY <1>6 DEF NamedWasStarted, Started
<1> HIDE DEF Known
<1>7. ASSUME UNCHANGED <<snapshot, next, snap>> PROVE NamedWasStarted'
  BY <1>5, <1>6, <1>7
<1>8. ASSUME NEW c \in Conns, Accept(c) \/ ConnStep(c) PROVE NamedWasStarted'
  <2>1. CASE Accept(c)
    <3>1. snap' = [snap EXCEPT ![c] = snapshot] /\ UNCHANGED <<snapshot, next>>
      BY <2>1 DEF Accept
    <3> QED
      BY <1>3, <1>5, <1>6, <3>1
  <2>2. CASE ConnectionEnds(c)
    <3>1. snap' = [snap EXCEPT ![c] = NoHandlers] /\ UNCHANGED <<snapshot, next>>
      BY <2>2 DEF ConnectionEnds
    <3> QED
      BY <1>3, <1>4, <1>5, <1>6, <3>1 DEF NoHandlers
  <2>3. CASE StartSession(c) \/ EnterCore(c) \/ FinishSession(c) \/ CoreReturns(c)
    BY <1>7, <2>3 DEF StartSession, EnterCore, FinishSession, CoreReturns
  <2>4. ASSUME NEW p \in Plugins,
               SkipHandler(c, p) \/ ReserveHandler(c, p) \/ InvokeHandler(c, p)
                 \/ ClaimContinuation(c, p, "run") \/ ClaimContinuation(c, p, "core")
                 \/ ClaimWithoutStream(c, p) \/ HandlerReturns(c, p) \/ ReleaseHandler(c, p)
        PROVE  NamedWasStarted'
    BY <1>7, <2>4 DEF SkipHandler, ReserveHandler, InvokeHandler, ClaimContinuation,
         ClaimWithoutStream, HandlerReturns, ReleaseHandler
  <2>5. ASSUME NEW p \in Plugins, LeaveHandler(c, p) \/ FinishParticipant(c, p)
        PROVE  NamedWasStarted'
    BY <1>7, <2>5 DEF LeaveHandler, FinishParticipant
  <2> QED
    BY <1>8, <2>1, <2>2, <2>3, <2>4, <2>5 DEF ConnStep
<1>9. CASE OtherStep
  <2>0. snap' = snap
    BY <1>9, OtherKeepsFrames
  <2>1. CASE OperationStep
    <3>1. CASE EnableCommits
      <4>1. /\ target \in Plugins /\ cand = loaded[target]
            /\ next' = [snapshot EXCEPT ![target] = cand] /\ snapshot' = snapshot
        BY <3>1 DEF EnableCommits, OwnerInvariant, HandShape
      <4> QED
        BY <1>3, <1>5, <1>6, <2>0, <4>1
    <3>2. CASE EnableFails \/ ReconcileCollects \/ RuntimeDestroyed \/ EndOperation
      BY <1>7, <2>0, <3>2 DEF EnableFails, ReconcileCollects, RuntimeDestroyed, EndOperation
    <3>3. CASE Publish
      <4>1. snapshot' = next /\ next' = NoHandlers
        BY <3>3 DEF Publish
      <4> QED
        BY <1>4, <1>5, <1>6, <2>0, <4>1 DEF NoHandlers
    <3>4. ASSUME NEW p \in Plugins, RemovePlugin(p) PROVE NamedWasStarted'
      BY <1>7, <2>0, <3>4 DEF RemovePlugin
    <3>5. ASSUME NEW r \in Runtimes, Supersede(r) \/ RetireRuntime(r) PROVE NamedWasStarted'
      BY <1>7, <2>0, <3>5 DEF Supersede, RetireRuntime
    <3>6. ASSUME NEW p \in Plugins, NEW g \in Gens, ReconcileSkips(p, g) \/ ReconcileForgets(p, g)
          PROVE  NamedWasStarted'
      BY <1>7, <2>0, <3>6 DEF ReconcileSkips, ReconcileForgets
    <3>7. ASSUME NEW p \in Plugins, NEW g \in Gens, ReconcileReuses(p, g) PROVE NamedWasStarted'
      <4>1. next' = [next EXCEPT ![p] = loaded[p]] /\ snapshot' = snapshot
        BY <3>7 DEF ReconcileReuses
      <4> QED
        BY <1>3, <1>5, <1>6, <2>0, <4>1
    <3>8. ASSUME NEW p \in Plugins, NEW g \in Gens, NEW r \in Runtimes, NEW usable \in BOOLEAN,
                 ReconcileStarts(p, g, r, usable)
          PROVE  NamedWasStarted'
      <4>1. next' \in {next, [next EXCEPT ![p] = r]} /\ snapshot' = snapshot
        BY <3>8 DEF ReconcileStarts
      <4>2. Known(r)
        BY <3>8 DEF ReconcileStarts, StartCandidate, Known, MaybeRuntime, TypeOK
      <4> QED
        BY <1>3, <1>5, <1>6, <2>0, <4>1, <4>2
    <3> QED
      BY <2>1, <3>1, <3>2, <3>3, <3>4, <3>5, <3>6, <3>7, <3>8 DEF OperationStep
  <2>2. CASE AdminStep
    <3>1. ASSUME NEW p \in Plugins, Withdraw(p) \/ Quarantine(p) \/ Isolate(p) PROVE NamedWasStarted'
      <4>1. snapshot' = [snapshot EXCEPT ![p] = NoRuntime] /\ next' = next
        BY <3>1 DEF Withdraw, Quarantine, Isolate
      <4> QED
        BY <1>3, <1>4, <1>5, <1>6, <2>0, <4>1
    <3>2. ASSUME NEW p \in Plugins,
                 (\E on \in BOOLEAN : SetDesired(p, on)) \/ ReloadConfig(p) \/ EnableReuses(p) \/ LoadForgets(p)
                   \/ \E r \in Runtimes : Load(p, r) \/ EnableStarts(p, r)
          PROVE  NamedWasStarted'
      BY <1>7, <2>0, <3>2 DEF SetDesired, ReloadConfig, EnableReuses, LoadForgets, Load, EnableStarts
    <3>3. CASE ReconcileBegins
      BY <1>7, <2>0, <3>3 DEF ReconcileBegins
    <3> QED
      BY <2>2, <3>1, <3>2, <3>3 DEF AdminStep
  <2>3. CASE CloseBegins \/ CloseStep \/ \E r \in Runtimes : CleanupStops(r)
    <3>1. CASE CloseTakes
      <4>1. snapshot' = NoHandlers /\ next' = next
        BY <3>1 DEF CloseTakes
      <4> QED
        BY <1>4, <1>5, <1>6, <2>0, <4>1 DEF NoHandlers
    <3>2. CASE CloseBegins \/ CloseTakesPending \/ CloseEnds
               \/ \E r \in Runtimes : CloseStops(r) \/ CleanupStops(r)
      BY <1>7, <2>0, <3>2 DEF CloseBegins, CloseTakesPending, CloseEnds, CloseStops, CleanupStops
    <3> QED
      BY <2>3, <3>1, <3>2 DEF CloseStep
  <2> QED
    BY <1>9, <2>1, <2>2, <2>3 DEF OtherStep
<1>10. CASE UNCHANGED vars
  BY <1>7, <1>10 DEF vars
<1> QED
  BY <1>8, <1>9, <1>10 DEF Next, OtherStep

\* A started runtime that is not the loaded one keeps its key as it was.
LEMMA KeyStays ==
  ASSUME PinInvariant, [Next]_vars, NEW r \in Runtimes, rtState[r] # "free", ~IsLoaded(r)
  PROVE  KeyKept(r)' <=> KeyKept(r)
<1>1. recGen'[r] = recGen[r] /\ keyGen'[r] = keyGen[r]
  BY StartedFixed DEF Fixed
<1> QED
  BY <1>1 DEF KeyKept

\* Connection c, at p, will come back and look up the key of the parked runtime r.
Awaits(r, c, p) ==
    /\ snap[c][p] # NoRuntime
    /\ stage[c][p] # "idle" \/ p \in parts[c]
    /\ HandlerKey(snap[c][p]) = Identity(r)

\* Whatever activeRuntimeReferences counts is a connection that will come back: an
\* invocation before its release, or a participant of an open session.
LEMMA ReferencedAwaited ==
  ASSUME PinInvariant, SessionShape, NEW r \in Runtimes, KeyKept(r), Referenced(r, Identity(r))
  PROVE  \E c \in Conns, p \in Plugins :
            /\ Awaits(r, c, p)
            /\ stage[c][p] \in Holding \/ (c \in sessions /\ p \in parts[c])
<1> USE DEF PinInvariant
<1>1. CASE refs[r] > 0
  <2>1. Holders(r) # {}
    BY <1>1, FS_EmptySet DEF ReferencesCounted
  <2>2. PICK h \in Conns \X Plugins : stage[h[1]][h[2]] \in Holding /\ snap[h[1]][h[2]] = r
    BY <2>1 DEF Holders
  <2>3. HandlerKey(r) = Identity(r)
    BY DEF KeyKept, HandlerKey, Identity
  <2>4. Awaits(r, h[1], h[2])
    BY <2>2, <2>3, RuntimesAssumption DEF Awaits, Holding
  <2> QED
    BY <2>2, <2>4
<1>2. CASE \E c \in sessions : \E p \in parts[c] : HandlerKey(snap[c][p]) = Identity(r)
  <2>1. PICK c \in sessions, p \in Plugins : p \in parts[c] /\ HandlerKey(snap[c][p]) = Identity(r)
    BY <1>2 DEF TypeOK
  <2>2. c \in Conns /\ snap[c][p] # NoRuntime
    BY <2>1, RuntimesAssumption DEF SessionShape, TypeOK
  <2> QED
    BY <2>1, <2>2 DEF Awaits
<1> QED
  BY <1>1, <1>2 DEF Referenced

\* A connection that awaits a parked runtime goes on awaiting it as long as its own
\* frame lasts: only the key of a loaded runtime moves.
LEMMA AwaitsStays ==
  ASSUME PinInvariant, NamedWasStarted, [Next]_vars,
         NEW r \in Runtimes, rtState[r] # "free", ~IsLoaded(r), NEW c \in Conns, NEW p \in Plugins,
         Awaits(r, c, p), snap'[c][p] = snap[c][p], stage'[c][p] # "idle" \/ p \in parts'[c]
  PROVE  Awaits(r, c, p)'
<1>1. PICK s \in Runtimes : s = snap[c][p]
  BY DEF Awaits, PinInvariant, TypeOK, MaybeRuntime
<1>2. rtState[s] # "free"
  BY <1>1 DEF NamedWasStarted, Started, Awaits
<1>3. Fixed(r) /\ Fixed(s)
  BY <1>2, StartedFixed
<1>4. /\ owner'[r] = owner[r] /\ recGen'[r] = recGen[r]
      /\ owner'[s] = owner[s] /\ keyGen'[s] = keyGen[s]
  BY <1>3 DEF Fixed
<1>5. <<owner[s], keyGen[s], Instance(s)>> = <<owner[r], recGen[r], Instance(r)>>
  BY <1>1 DEF Awaits, HandlerKey, Identity
<1>6. <<owner'[s], keyGen'[s], Instance(s)>> = <<owner'[r], recGen'[r], Instance(r)>>
  BY <1>4, <1>5
<1>7. snap'[c][p] = s /\ s # NoRuntime
  BY <1>1, RuntimesAssumption
<1>8. HandlerKey(snap[c][p])' = Identity(r)'
  BY <1>6, <1>7 DEF HandlerKey, Identity, Instance
<1> QED
  BY <1>7, <1>8 DEF Awaits

\* Nobody who awaits a parked runtime leaves without looking it up, and what a look
\* up leaves parked is awaited by somebody else.
LEMMA NextAwaited ==
  ASSUME PinInvariant, OwnerInvariant, SessionShape, NamedWasStarted,
         PendingStopAwaited, [Next]_vars, NEW r \in pendingStops', KeyKept(r)'
  PROVE  \E c \in Conns, p \in Plugins : Awaits(r, c, p)'
<1> DEFINE Goal == \E c \in Conns, p \in Plugins : Awaits(r, c, p)'
<1> SUFFICES Goal
  OBVIOUS
<1>1. ASSUME r \in pendingStops
      PROVE  /\ r \in Runtimes /\ rtState[r] # "free" /\ ~IsLoaded(r) /\ KeyKept(r)
             /\ \E c \in Conns, p \in Plugins : Awaits(r, c, p)
  <2>1. r \in Runtimes
    BY <1>1 DEF PinInvariant, TypeOK
  <2>2. rtState[r] = "started" /\ ~IsLoaded(r)
    BY <1>1, <2>1 DEF OwnerInvariant, KeptOnce, KeptOnceAt, Kept, AwaitsStop
  <2>3. KeyKept(r)
    BY <2>1, <2>2, KeyStays
  <2>4. \E c \in Conns, p \in Plugins : Awaits(r, c, p)
    BY <1>1, <2>3 DEF PendingStopAwaited, Awaits
  <2> QED
    BY <2>1, <2>2, <2>3, <2>4
<1>2. ASSUME r \in pendingStops, NEW c \in Conns, NEW p \in Plugins, Awaits(r, c, p),
             snap'[c][p] = snap[c][p], stage'[c][p] # "idle" \/ p \in parts'[c]
      PROVE  Goal
  <2>1. Awaits(r, c, p)'
    BY <1>1, <1>2, AwaitsStays
  <2> QED
    BY <2>1
<1>3. ASSUME r \in pendingStops,
             \A c \in Conns, p \in Plugins : (stage[c][p] # "idle" \/ p \in parts[c]) =>
                 snap'[c][p] = snap[c][p] /\ (stage'[c][p] # "idle" \/ p \in parts'[c])
      PROVE  Goal
  <2>1. PICK c \in Conns, p \in Plugins : Awaits(r, c, p)
    BY <1>1, <1>3
  <2>2. snap'[c][p] = snap[c][p] /\ (stage'[c][p] # "idle" \/ p \in parts'[c])
    BY <1>3, <2>1 DEF Awaits
  <2> QED
    BY <1>2, <1>3, <2>1, <2>2
<1> HIDE DEF Goal
<1>4. ASSUME NEW c \in Conns, Accept(c) \/ ConnStep(c) PROVE Goal
  <2>0. /\ stage \in [Conns -> [Plugins -> Stages]] /\ parts \in [Conns -> SUBSET Plugins]
        /\ snap \in [Conns -> [Plugins -> MaybeRuntime]]
    BY DEF PinInvariant, TypeOK
  <2>1. CASE Accept(c) \/ ConnectionEnds(c)
    <3>1. r \in pendingStops /\ UNCHANGED <<stage, parts>>
      BY <2>1 DEF Accept, ConnectionEnds
    <3>2. \A p \in Plugins : stage[c][p] = "idle" /\ p \notin parts[c]
      BY <2>1 DEF Accept, ConnectionEnds, PinInvariant, ChainShape, SessionShape
    <3>3. \A d \in Conns : d # c => snap'[d] = snap[d]
      BY <2>0, <2>1 DEF Accept, ConnectionEnds
    <3> QED
      BY <1>3, <3>1, <3>2, <3>3
  <2>2. CASE StartSession(c) \/ EnterCore(c) \/ FinishSession(c) \/ CoreReturns(c)
    <3>1. r \in pendingStops /\ UNCHANGED <<snap, stage, parts>>
      BY <2>2 DEF StartSession, EnterCore, FinishSession, CoreReturns
    <3> QED
      BY <1>3, <3>1
  <2>3. ASSUME NEW p \in Plugins,
               SkipHandler(c, p) \/ ClaimContinuation(c, p, "run")
                 \/ ClaimContinuation(c, p, "core") \/ ClaimWithoutStream(c, p)
        PROVE  Goal
    <3>1. r \in pendingStops /\ UNCHANGED <<snap, stage, parts>>
      BY <2>3 DEF SkipHandler, ClaimContinuation, ClaimWithoutStream
    <3> QED
      BY <1>3, <3>1
  <2>4. ASSUME NEW p \in Plugins,
               ReserveHandler(c, p) \/ InvokeHandler(c, p) \/ HandlerReturns(c, p)
                 \/ ReleaseHandler(c, p)
        PROVE  Goal
    <3>1. r \in pendingStops /\ snap' = snap
      BY <2>4 DEF ReserveHandler, InvokeHandler, HandlerReturns, ReleaseHandler
    <3>2. PICK v \in {"reserved", "invoked", "returned", "released"} :
             stage' = [stage EXCEPT ![c][p] = v]
      BY <2>4 DEF ReserveHandler, InvokeHandler, HandlerReturns, ReleaseHandler
    <3>3. \A d \in Conns : parts[d] \subseteq parts'[d]
      <4>1. parts' = parts \/ parts' = [parts EXCEPT ![c] = @ \cup {p}]
        BY <2>4 DEF ReserveHandler, InvokeHandler, HandlerReturns, ReleaseHandler
      <4> QED
        BY <2>0, <4>1
    <3>4. \A d \in Conns, q \in Plugins : stage[d][q] # "idle" => stage'[d][q] # "idle"
      BY <2>0, <3>2
    <3> QED
      BY <1>3, <3>1, <3>3, <3>4
  <2>5. ASSUME NEW p \in Plugins, LeaveHandler(c, p) \/ FinishParticipant(c, p),
               NEW d \in Conns, NEW q \in Plugins,
               stage[d][q] \in Holding \/ (d \in sessions /\ q \in parts[d])
        PROVE  stage'[d][q] # "idle" \/ q \in parts'[d]
    <3>1. CASE LeaveHandler(c, p)
      <4>1. stage[c][p] = "released" /\ stage' = [stage EXCEPT ![c][p] = "idle"] /\ parts' = parts
        BY <3>1 DEF LeaveHandler
      <4> QED
        BY <2>0, <2>5, <4>1 DEF Holding
    <3>2. CASE FinishParticipant(c, p)
      <4>1. /\ pc[c] = "finishing" /\ parts' = [parts EXCEPT ![c] = @ \ {p}] /\ stage' = stage
        BY <3>2 DEF FinishParticipant
      <4>2. c \notin sessions
        BY <4>1 DEF SessionShape
      <4> QED
        BY <2>0, <2>5, <4>1, <4>2 DEF Holding
    <3> QED
      BY <2>5, <3>1, <3>2
  <2>6. ASSUME NEW p \in Plugins, LeaveHandler(c, p) \/ FinishParticipant(c, p) PROVE Goal
    <3>1. r \in pendingStops /\ r \notin Due(HandlerKey(snap[c][p])) /\ snap' = snap
      BY <2>6 DEF LeaveHandler, FinishParticipant, QueuePendingStop
    <3>2. CASE HandlerKey(snap[c][p]) = Identity(r)
      <4>1. Referenced(r, Identity(r))
        BY <3>1, <3>2 DEF Due
      <4>2. PICK d \in Conns, q \in Plugins :
               /\ Awaits(r, d, q)
               /\ stage[d][q] \in Holding \/ (d \in sessions /\ q \in parts[d])
        BY <1>1, <3>1, <4>1, ReferencedAwaited
      <4> QED
        BY <1>2, <2>5, <2>6, <3>1, <4>2
    <3>3. CASE HandlerKey(snap[c][p]) # Identity(r)
      <4>1. PICK d \in Conns, q \in Plugins : Awaits(r, d, q)
        BY <1>1, <3>1
      <4>2. <<d, q>> # <<c, p>>
        BY <3>3, <4>1 DEF Awaits
      <4>3. stage' \in {stage, [stage EXCEPT ![c][p] = "idle"]}
        BY <2>6 DEF LeaveHandler, FinishParticipant
      <4>4. parts' \in {parts, [parts EXCEPT ![c] = @ \ {p}]}
        BY <2>6 DEF LeaveHandler, FinishParticipant
      <4>5. stage'[d][q] # "idle" \/ q \in parts'[d]
        BY <2>0, <4>1, <4>2, <4>3, <4>4 DEF Awaits
      <4> QED
        BY <1>2, <3>1, <4>1, <4>5
    <3> QED
      BY <3>2, <3>3
  <2> QED
    BY <1>4, <2>1, <2>2, <2>3, <2>4, <2>6 DEF ConnStep
<1>5. CASE OtherStep
  <2>1. UNCHANGED <<snap, stage, parts>>
    BY <1>5, OtherKeepsFrames, OtherKeepsSessions
  <2>2. CASE r \in pendingStops
    BY <1>3, <2>1, <2>2
  <2>3. CASE r \notin pendingStops
    <3>1. PICK q \in Runtimes : RetireRuntime(q)
      <4>1. CASE AdminStep
        BY <1>2, <2>3, <4>1, AdminKeeps
      <4>2. CASE CloseBegins \/ CloseStep \/ \E q \in Runtimes : CleanupStops(q)
        BY <2>3, <4>2 DEF CloseBegins, CloseStep, CloseTakes, CloseStops, CloseTakesPending,
             CloseEnds, CleanupStops
      <4>3. CASE EnableCommits \/ EnableFails \/ ReconcileCollects \/ Publish \/ RuntimeDestroyed
                 \/ EndOperation
        BY <2>3, <4>3 DEF EnableCommits, EnableFails, ReconcileCollects, Publish, RuntimeDestroyed,
             EndOperation
      <4>4. CASE (\E p \in Plugins : RemovePlugin(p)) \/ (\E q \in Runtimes : Supersede(q))
        BY <2>3, <4>4 DEF RemovePlugin, Supersede
      <4>5. CASE \E p \in Plugins, g \in Gens :
                    ReconcileSkips(p, g) \/ ReconcileForgets(p, g) \/ ReconcileReuses(p, g)
                      \/ \E q \in Runtimes, usable \in BOOLEAN : ReconcileStarts(p, g, q, usable)
        BY <2>3, <4>5 DEF ReconcileSkips, ReconcileForgets, ReconcileReuses, ReconcileStarts
      <4> QED
        BY <1>5, <4>1, <4>2, <4>3, <4>4, <4>5 DEF OtherStep, OperationStep
    <3>2. r = q /\ Referenced(r, Identity(r)) /\ r \in retiring
      BY <2>3, <3>1 DEF RetireRuntime
    <3>3. rtState[r] # "free" /\ ~IsLoaded(r) /\ r \in Runtimes
      BY <3>1, <3>2 DEF OwnerInvariant, KeptOnce, KeptOnceAt, Kept, InHand
    <3>6. KeyKept(r)
      BY <3>3, KeyStays
    <3>4. PICK c \in Conns, p \in Plugins :
             /\ Awaits(r, c, p)
             /\ stage[c][p] \in Holding \/ (c \in sessions /\ p \in parts[c])
      BY <3>2, <3>3, <3>6, ReferencedAwaited
    <3>5. Awaits(r, c, p)'
      BY <2>1, <3>1, <3>2, <3>3, <3>4, AwaitsStays DEF Awaits
    <3> QED
      BY <3>5 DEF Goal
  <2> QED
    BY <2>2, <2>3
<1>6. CASE UNCHANGED vars
  BY <1>3, <1>6 DEF vars
<1> QED
  BY <1>4, <1>5, <1>6 DEF Next, OtherStep

\* No step lets a session have a superseded participant without its mark: the
\* participants of the open sessions are marked when their runtime is superseded,
\* and those that join later when they join.
LEMMA NextSessionsMarked ==
  ASSUME PinInvariant, OwnerInvariant, SessionShape, SupersededGone, SupersededSessionsMarked,
         [Next]_vars
  PROVE  SupersededSessionsMarked'
<1> DEFINE Goal == \A c \in sessions' : \A p \in parts'[c] :
                      (snap'[c][p] \in hdraining' /\ recGen[snap'[c][p]] = keyGen[snap'[c][p]])
                        => p \in sdrain'[c]
<1>k. ASSUME NEW s \in hdraining', recGen'[s] = keyGen'[s] PROVE recGen[s] = keyGen[s]
  <2>1. s \in Runtimes /\ Gone(s)
    BY NewlySuperseded DEF SupersededGone, PinInvariant, TypeOK
  <2> QED
    BY <1>k, <2>1, KeyStays DEF Gone, KeyKept
<1> SUFFICES Goal
  BY <1>k DEF SupersededSessionsMarked, KeyKept
<1> USE DEF PinInvariant
<1>0. ASSUME UNCHANGED <<sessions, parts, snap, hdraining>>,
             \A c \in Conns : sdrain[c] \subseteq sdrain'[c]
      PROVE  Goal
  BY <1>0 DEF SupersededSessionsMarked, KeyKept, TypeOK
<1>1. ASSUME NEW c \in Conns, Accept(c) \/ ConnStep(c) PROVE Goal
  <2>1. CASE Accept(c)
    <3>1. c \notin sessions /\ snap' = [snap EXCEPT ![c] = snapshot]
          /\ UNCHANGED <<sessions, parts, hdraining, sdrain>>
      BY <2>1 DEF Accept, SessionShape
    <3> QED
      BY <3>1 DEF SupersededSessionsMarked, KeyKept, TypeOK
  <2>2. CASE StartSession(c)
    <3>1. parts[c] = {} /\ sessions' = sessions \cup {c} /\ UNCHANGED <<parts, snap, hdraining, sdrain>>
      BY <2>2 DEF StartSession, SessionShape
    <3> QED
      BY <3>1 DEF SupersededSessionsMarked, KeyKept
  <2>3. CASE EnterCore(c) \/ CoreReturns(c)
    BY <1>0, <2>3 DEF EnterCore, CoreReturns
  <2>4. CASE FinishSession(c)
    BY <2>4 DEF FinishSession, SupersededSessionsMarked, KeyKept
  <2>5. CASE ConnectionEnds(c)
    <3>1. /\ c \notin sessions /\ snap' = [snap EXCEPT ![c] = NoHandlers]
          /\ sdrain' = [sdrain EXCEPT ![c] = {}] /\ UNCHANGED <<sessions, parts, hdraining>>
      BY <2>5 DEF ConnectionEnds, SessionShape
    <3> QED
      BY <3>1 DEF SupersededSessionsMarked, KeyKept, TypeOK
  <2>6. ASSUME NEW p \in Plugins,
               SkipHandler(c, p) \/ ReserveHandler(c, p) \/ ClaimContinuation(c, p, "run")
                 \/ ClaimContinuation(c, p, "core") \/ ClaimWithoutStream(c, p)
                 \/ HandlerReturns(c, p) \/ ReleaseHandler(c, p) \/ LeaveHandler(c, p)
        PROVE  Goal
    BY <1>0, <2>6 DEF SkipHandler, ReserveHandler, ClaimContinuation, ClaimWithoutStream,
         HandlerReturns, ReleaseHandler, LeaveHandler
  <2>7. ASSUME NEW p \in Plugins, InvokeHandler(c, p) PROVE Goal
    <3>1. /\ parts' = [parts EXCEPT ![c] = @ \cup {p}]
          /\ sdrain' = [sdrain EXCEPT ![c] = @ \cup JoinDraining(c, p)]
          /\ UNCHANGED <<sessions, snap, hdraining>>
      BY <2>7 DEF InvokeHandler
    <3>2. snap[c][p] \in hdraining => JoinDraining(c, p) = {p}
      BY DEF JoinDraining, Draining
    <3> QED
      BY <3>1, <3>2 DEF SupersededSessionsMarked, KeyKept, TypeOK
  <2>8. ASSUME NEW p \in Plugins, FinishParticipant(c, p) PROVE Goal
    <3>1. /\ parts' = [parts EXCEPT ![c] = @ \ {p}]
          /\ UNCHANGED <<sessions, snap, hdraining, sdrain>>
      BY <2>8 DEF FinishParticipant
    <3> QED
      BY <3>1 DEF SupersededSessionsMarked, KeyKept, TypeOK
  <2> QED
    BY <1>1, <2>1, <2>2, <2>3, <2>4, <2>5, <2>6, <2>7, <2>8 DEF ConnStep
<1>2. CASE OtherStep
  <2>0. /\ UNCHANGED <<sessions, parts, snap>>
        /\ \A c \in Conns : sdrain[c] \subseteq sdrain'[c]
    BY <1>2, OtherKeepsFrames, OtherKeepsSessions
  <2>1. ASSUME NEW r \in Runtimes, Supersede(r) PROVE Goal
    <3>1. /\ hdraining' = hdraining \cup {r}
          /\ \A c \in Conns : c \in sessions =>
               sdrain'[c] = sdrain[c] \cup {p \in parts[c] : HandlerKey(snap[c][p]) = Identity(r)}
      BY <2>1 DEF Supersede
    <3>2. recGen[r] = keyGen[r] => HandlerKey(r) = Identity(r)
      BY DEF HandlerKey, Identity
    <3>3. ASSUME NEW c \in sessions, NEW p \in parts[c], snap[c][p] \in hdraining \cup {r},
                 recGen[snap[c][p]] = keyGen[snap[c][p]]
          PROVE  p \in sdrain'[c]
      <4>1. CASE snap[c][p] = r
        BY <3>1, <3>2, <3>3, <4>1 DEF TypeOK
      <4>2. CASE snap[c][p] \in hdraining
        BY <3>1, <3>3, <4>2 DEF SupersededSessionsMarked, KeyKept, TypeOK
      <4> QED
        BY <3>3, <4>1, <4>2
    <3> QED
      BY <2>0, <3>1, <3>3 DEF SupersededSessionsMarked, KeyKept
  <2>2. ASSUME UNCHANGED hdraining PROVE Goal
    BY <1>0, <2>0, <2>2
  <2>3. CASE AdminStep
    BY <2>2, <2>3, AdminKeeps
  <2>4. CASE CloseBegins \/ CloseStep \/ \E q \in Runtimes : CleanupStops(q)
    BY <2>2, <2>4 DEF CloseBegins, CloseStep, CloseTakes, CloseStops, CloseTakesPending,
         CloseEnds, CleanupStops
  <2>5. CASE EnableCommits \/ EnableFails \/ ReconcileCollects \/ Publish \/ RuntimeDestroyed
             \/ EndOperation
    BY <2>2, <2>5 DEF EnableCommits, EnableFails, ReconcileCollects, Publish, RuntimeDestroyed,
         EndOperation
  <2>6. CASE (\E p \in Plugins : RemovePlugin(p)) \/ (\E q \in Runtimes : RetireRuntime(q))
    BY <2>2, <2>6 DEF RemovePlugin, RetireRuntime
  <2>7. CASE \E p \in Plugins, g \in Gens :
                ReconcileSkips(p, g) \/ ReconcileForgets(p, g) \/ ReconcileReuses(p, g)
                  \/ \E q \in Runtimes, usable \in BOOLEAN : ReconcileStarts(p, g, q, usable)
    BY <2>2, <2>7 DEF ReconcileSkips, ReconcileForgets, ReconcileReuses, ReconcileStarts
  <2> QED
    BY <1>2, <2>1, <2>3, <2>4, <2>5, <2>6, <2>7 DEF OtherStep, OperationStep
<1>3. CASE UNCHANGED vars
  BY <1>3 DEF vars, SupersededSessionsMarked, KeyKept
<1> QED
  BY <1>1, <1>2, <1>3 DEF Next, OtherStep

\* Sessions begin and end with their connections, and every handler a snapshot
\* names has been started.
THEOREM SessionInvariantHolds == Spec => [](SessionShape /\ NamedWasStarted)
<1>1. Init => SessionShape /\ NamedWasStarted
  BY DEF Init, SessionShape, NamedWasStarted, Started, NoHandlers
<1>2. PinInvariant /\ SessionShape /\ [Next]_vars => SessionShape'
  BY NextSessionShape
<1>3. PinInvariant /\ OwnerInvariant /\ NamedWasStarted /\ [Next]_vars => NamedWasStarted'
  BY NextNamedWasStarted
<1> QED
  BY <1>1, <1>2, <1>3, PinInvariantHolds, OwnerInvariantHolds, PTL DEF Spec

\* A runtime whose stop was deferred, and that was not reloaded in place before, is
\* never stranded: as long as it is parked, some connection still has to come back
\* and look up its key.  (A reload moves the key: the run reload_strands.)
THEOREM ParkedIsAwaited == Spec => []PendingStopAwaited
<1>1. Init => PendingStopAwaited
  BY DEF Init, PendingStopAwaited
<1>2. PinInvariant /\ OwnerInvariant /\ SessionShape /\ NamedWasStarted
        /\ PendingStopAwaited /\ [Next]_vars => PendingStopAwaited'
  <2> SUFFICES ASSUME PinInvariant, OwnerInvariant, SessionShape, NamedWasStarted,
                      PendingStopAwaited, [Next]_vars
               PROVE  PendingStopAwaited'
    OBVIOUS
  <2>1. \A r \in pendingStops' : KeyKept(r)' => \E c \in Conns, p \in Plugins : Awaits(r, c, p)'
    BY NextAwaited
  <2> QED
    BY <2>1 DEF PendingStopAwaited, Awaits
<1> QED
  BY <1>1, <1>2, PinInvariantHolds, OwnerInvariantHolds, SessionInvariantHolds, PTL DEF Spec

\* ForceCloseDraining reaches every session that a superseded runtime takes part in,
\* whenever that session joined it, unless the runtime was reloaded in place.
THEOREM SupersededSessionsAreMarked == Spec => []SupersededSessionsMarked
<1>1. Init => SupersededSessionsMarked
  BY DEF Init, SupersededSessionsMarked
<1>2. PinInvariant /\ OwnerInvariant /\ SessionShape /\ SupersededGone /\ SupersededSessionsMarked
        /\ [Next]_vars => SupersededSessionsMarked'
  BY NextSessionsMarked
<1> QED
  BY <1>1, <1>2, PinInvariantHolds, OwnerInvariantHolds, SessionInvariantHolds, NoRuntimeForgotten,
     PTL DEF Spec

-----------------------------------------------------------------------------
(* The manager implements RuntimePool.                                      *)

PoolStep == [Pool!PoolNext]_(Pool!poolVars)

\* Using, at one position of one chain.
LEMMA UsingAt ==
  /\ \A c \in Conns, p \in Plugins :
        Using[<<c, p>>] = IF stage[c][p] \in Holding THEN snap[c][p] ELSE NoRuntime
  /\ Using = [u \in Conns \X Plugins |-> Using[u]]
BY DEF Using

\* Whoever changes no reservation changes nothing that is used.
LEMMA UsingSame ==
  ASSUME \A c \in Conns, p \in Plugins :
             /\ stage'[c][p] \in Holding <=> stage[c][p] \in Holding
             /\ stage[c][p] \in Holding => snap'[c][p] = snap[c][p]
  PROVE  Using' = Using
<1>1. ASSUME NEW u \in Conns \X Plugins
      PROVE  (IF stage'[u[1]][u[2]] \in Holding THEN snap'[u[1]][u[2]] ELSE NoRuntime)
               = (IF stage[u[1]][u[2]] \in Holding THEN snap[u[1]][u[2]] ELSE NoRuntime)
  <2>1. u[1] \in Conns /\ u[2] \in Plugins
    OBVIOUS
  <2> QED
    BY <2>1
<1> QED
  BY <1>1 DEF Using

\* A step that moves no reservation, no mark and no runtime is a stutter.
LEMMA PoolStutter ==
  ASSUME Using' = Using, UNCHANGED <<rtState, hdraining, closing>>
  PROVE  PoolStep
BY DEF PoolStep, Pool!poolVars

\* loadLocked starts a runtime while the manager is not closing.
LEMMA PoolStarts ==
  ASSUME NEW p \in Plugins, NEW r \in Runtimes, StartCandidate(p, r), ~closing,
         Using' = Using, UNCHANGED <<hdraining, closing>>
  PROVE  PoolStep
<1>1. Pool!Start(r)
  BY DEF StartCandidate, Pool!Start
<1> QED
  BY <1>1 DEF PoolStep, Pool!PoolNext

\* Nobody is inside a runtime without references.
LEMMA UnreferencedUnused ==
  ASSUME PinInvariant, NEW r \in Runtimes, ~(refs[r] > 0), NEW u \in Conns \X Plugins
  PROVE  Using[u] # r
<1>1. PICK c \in Conns, p \in Plugins : u = <<c, p>>
  OBVIOUS
<1>2. stage[c][p] \in Holding => snap[c][p] # r
  BY UnreferencedUnheld
<1> QED
  BY <1>1, <1>2, UsingAt, RuntimesAssumption

\* The end of a reservation or of a session decides the stops that are due.
LEMMA PoolQueues ==
  ASSUME PinInvariant, OwnerInvariant, NEW key, QueuePendingStop(Due(key)),
         Using' = Using, UNCHANGED <<hdraining, closing>>
  PROVE  PoolStep
<1>1. \A r \in Due(key) : r \in Runtimes /\ r \in pendingStops /\ ~(refs[r] > 0)
  BY DEF Due, Referenced, PinInvariant, TypeOK
<1>2. \A r \in Due(key) : rtState[r] = "started"
  BY <1>1 DEF OwnerInvariant, KeptOnce, KeptOnceAt, Kept, AwaitsStop
<1>3. \A r \in Due(key) : \A u \in Conns \X Plugins : Using[u] # r
  BY <1>1, UnreferencedUnused
<1>4. rtState' = [r \in Runtimes |-> IF r \in Due(key) THEN "stopping" ELSE rtState[r]]
  BY DEF QueuePendingStop
<1>5. Pool!DecideStops(Due(key)) /\ Due(key) \in SUBSET Runtimes
  BY <1>1, <1>2, <1>3, <1>4 DEF Pool!DecideStops
<1> QED
  BY <1>5 DEF PoolStep, Pool!PoolNext

\* A connection enters and leaves runtimes, and the last one out decides a stop.
LEMMA ConnServes ==
  ASSUME PinInvariant, OwnerInvariant, NamedWasStarted, NEW c \in Conns, Accept(c) \/ ConnStep(c)
  PROVE  PoolStep
<1> USE DEF PinInvariant
<1>0. stage \in [Conns -> [Plugins -> Stages]] /\ snap \in [Conns -> [Plugins -> MaybeRuntime]]
  BY DEF TypeOK
<1>1. CASE Accept(c) \/ ConnectionEnds(c)
  <2>1. \A p \in Plugins : stage[c][p] \notin Holding
    BY <1>1 DEF Accept, ConnectionEnds, ChainShape, Holding
  <2>2. UNCHANGED <<rtState, hdraining, closing, stage>> /\ \A d \in Conns : d # c => snap'[d] = snap[d]
    BY <1>0, <1>1 DEF Accept, ConnectionEnds
  <2> QED
    BY <2>1, <2>2, UsingSame, PoolStutter
<1>2. CASE StartSession(c) \/ EnterCore(c) \/ FinishSession(c) \/ CoreReturns(c)
  <2>1. UNCHANGED <<rtState, hdraining, closing, stage, snap>>
    BY <1>2 DEF StartSession, EnterCore, FinishSession, CoreReturns
  <2> QED
    BY <2>1, UsingSame, PoolStutter
<1>3. ASSUME NEW p \in Plugins,
             SkipHandler(c, p) \/ ClaimContinuation(c, p, "run")
               \/ ClaimContinuation(c, p, "core") \/ ClaimWithoutStream(c, p)
      PROVE  PoolStep
  <2>1. UNCHANGED <<rtState, hdraining, closing, stage, snap>>
    BY <1>3 DEF SkipHandler, ClaimContinuation, ClaimWithoutStream
  <2> QED
    BY <2>1, UsingSame, PoolStutter
<1>4. ASSUME NEW p \in Plugins, NEW v \in Stages, stage' = [stage EXCEPT ![c][p] = v]
      PROVE  \A d \in Conns, q \in Plugins :
                 stage'[d][q] = IF d = c /\ q = p THEN v ELSE stage[d][q]
  BY <1>0, <1>4
<1>5. ASSUME NEW p \in Plugins, ReserveHandler(c, p) PROVE PoolStep
  <2> DEFINE r == snap[c][p]
             u == <<c, p>>
  <2>1. /\ r \in Runtimes /\ r \notin hdraining /\ rtState[r] # "free"
        /\ UNCHANGED <<rtState, hdraining, closing, snap>>
        /\ stage' = [stage EXCEPT ![c][p] = "reserved"]
    BY <1>0, <1>5 DEF ReserveHandler, IsNext, Draining, NamedWasStarted, Started, MaybeRuntime
  <2>2. stage[c][p] = "idle"
    <3>0. at[c] \in Plugins \cup {NoPlugin}
      BY DEF TypeOK
    <3>1. at[c] \in Nat /\ p \in Nat /\ at[c] < p
      BY <1>5, <3>0, PluginsAssumption DEF ReserveHandler, IsNext, NoPlugin
    <3>2. stage[c][p] # "idle" => p <= at[c]
      BY DEF ChainShape
    <3> QED
      BY <3>1, <3>2
  <2>3. \A d \in Conns, q \in Plugins :
            stage'[d][q] = IF d = c /\ q = p THEN "reserved" ELSE stage[d][q]
    BY <1>4, <2>1 DEF Stages
  <2>4. Using[u] = NoRuntime
    BY <2>2, UsingAt DEF Holding
  <2>5. Using' = [Using EXCEPT ![u] = r]
    <3>1. ASSUME NEW d \in Conns, NEW q \in Plugins
          PROVE  (IF stage'[d][q] \in Holding THEN snap'[d][q] ELSE NoRuntime)
                   = IF <<d, q>> = u THEN r ELSE Using[<<d, q>>]
      <4>1. CASE d = c /\ q = p
        BY <2>1, <2>3, <4>1 DEF Holding
      <4>2. CASE ~(d = c /\ q = p)
        <5>1. <<d, q>> # u /\ stage'[d][q] = stage[d][q] /\ snap'[d][q] = snap[d][q]
          BY <2>1, <2>3, <4>2
        <5> QED
          BY <5>1, UsingAt
      <4> QED
        BY <4>1, <4>2
    <3>2. Using' = [w \in Conns \X Plugins |-> IF w = u THEN r ELSE Using[w]]
      <4>1. ASSUME NEW w \in Conns \X Plugins
            PROVE  (IF stage'[w[1]][w[2]] \in Holding THEN snap'[w[1]][w[2]] ELSE NoRuntime)
                     = IF w = u THEN r ELSE Using[w]
        <5>1. w[1] \in Conns /\ w[2] \in Plugins /\ w = <<w[1], w[2]>>
          OBVIOUS
        <5> QED
          BY <3>1, <5>1
      <4> QED
        BY <4>1 DEF Using
    <3> QED
      BY <3>2, UsingAt
  <2> HIDE DEF r
  <2>6. Pool!Enter(u, r) /\ u \in Conns \X Plugins
    BY <2>1, <2>4, <2>5 DEF Pool!Enter
  <2> QED
    BY <2>1, <2>6 DEF PoolStep, Pool!PoolNext
<1>6. ASSUME NEW p \in Plugins, InvokeHandler(c, p) \/ HandlerReturns(c, p) PROVE PoolStep
  <2>1. /\ stage[c][p] \in Holding /\ UNCHANGED <<rtState, hdraining, closing, snap>>
        /\ \/ stage' = [stage EXCEPT ![c][p] = "invoked"]
           \/ stage' = [stage EXCEPT ![c][p] = "returned"]
    BY <1>6 DEF InvokeHandler, HandlerReturns, Holding
  <2>2. \A d \in Conns, q \in Plugins : stage'[d][q] \in Holding <=> stage[d][q] \in Holding
    BY <1>4, <2>1 DEF Stages, Holding
  <2> QED
    BY <2>1, <2>2, UsingSame, PoolStutter
<1>7. ASSUME NEW p \in Plugins, ReleaseHandler(c, p) PROVE PoolStep
  <2> DEFINE u == <<c, p>>
  <2>1. /\ stage[c][p] = "returned" /\ UNCHANGED <<rtState, hdraining, closing, snap>>
        /\ stage' = [stage EXCEPT ![c][p] = "released"]
    BY <1>7 DEF ReleaseHandler
  <2>2. snap[c][p] \in Runtimes
    BY <2>1 DEF ChainShape
  <2>3. \A d \in Conns, q \in Plugins :
            stage'[d][q] = IF d = c /\ q = p THEN "released" ELSE stage[d][q]
    BY <1>4, <2>1 DEF Stages
  <2>4. Using[u] # NoRuntime
    BY <2>1, <2>2, UsingAt, RuntimesAssumption DEF Holding
  <2>5. Using' = [Using EXCEPT ![u] = NoRuntime]
    <3>1. ASSUME NEW d \in Conns, NEW q \in Plugins
          PROVE  (IF stage'[d][q] \in Holding THEN snap'[d][q] ELSE NoRuntime)
                   = IF <<d, q>> = u THEN NoRuntime ELSE Using[<<d, q>>]
      <4>1. CASE d = c /\ q = p
        BY <2>1, <2>3, <4>1 DEF Holding
      <4>2. CASE ~(d = c /\ q = p)
        <5>1. <<d, q>> # u /\ stage'[d][q] = stage[d][q] /\ snap'[d][q] = snap[d][q]
          BY <2>1, <2>3, <4>2
        <5> QED
          BY <5>1, UsingAt
      <4> QED
        BY <4>1, <4>2
    <3>2. Using' = [w \in Conns \X Plugins |-> IF w = u THEN NoRuntime ELSE Using[w]]
      <4>1. ASSUME NEW w \in Conns \X Plugins
            PROVE  (IF stage'[w[1]][w[2]] \in Holding THEN snap'[w[1]][w[2]] ELSE NoRuntime)
                     = IF w = u THEN NoRuntime ELSE Using[w]
        <5>1. w[1] \in Conns /\ w[2] \in Plugins /\ w = <<w[1], w[2]>>
          OBVIOUS
        <5> QED
          BY <3>1, <5>1
      <4> QED
        BY <4>1 DEF Using
    <3> QED
      BY <3>2, UsingAt
  <2>6. Pool!Leave(u) /\ u \in Conns \X Plugins
    BY <2>1, <2>4, <2>5 DEF Pool!Leave
  <2> QED
    BY <2>6 DEF PoolStep, Pool!PoolNext
<1>8. ASSUME NEW p \in Plugins, LeaveHandler(c, p) \/ FinishParticipant(c, p) PROVE PoolStep
  <2>1. /\ QueuePendingStop(Due(HandlerKey(snap[c][p]))) /\ UNCHANGED <<hdraining, closing, snap>>
        /\ \/ stage' = stage
           \/ stage[c][p] = "released" /\ stage' = [stage EXCEPT ![c][p] = "idle"]
    BY <1>8 DEF LeaveHandler, FinishParticipant
  <2>2. \A d \in Conns, q \in Plugins : stage'[d][q] \in Holding <=> stage[d][q] \in Holding
    BY <1>4, <2>1 DEF Stages, Holding
  <2>3. Using' = Using
    BY <2>1, <2>2, UsingSame
  <2> QED
    BY <2>1, <2>3, PoolQueues
<1> QED
  BY <1>1, <1>2, <1>3, <1>5, <1>6, <1>7, <1>8 DEF ConnStep

\* The operations, the cleanup goroutines and Close start, supersede and stop.
LEMMA OtherServes ==
  ASSUME PinInvariant, OwnerInvariant, OtherStep
  PROVE  PoolStep
<1> USE DEF PinInvariant
<1>0. Using' = Using
  BY OtherKeepsFrames, UsingSame
<1>1. ASSUME UNCHANGED <<rtState, hdraining, closing>> PROVE PoolStep
  BY <1>0, <1>1, PoolStutter
<1>2. ASSUME NEW p \in Plugins, NEW r \in Runtimes, StartCandidate(p, r), ~closing,
             UNCHANGED <<hdraining, closing>>
      PROVE  PoolStep
  BY <1>0, <1>2, PoolStarts
<1>3. ASSUME NEW r \in Runtimes, rtState[r] = "stopping", rtState' = [rtState EXCEPT ![r] = "stopped"],
             UNCHANGED <<hdraining, closing>>
      PROVE  PoolStep
  <2>1. Pool!Stopped(r)
    BY <1>0, <1>3 DEF Pool!Stopped
  <2> QED
    BY <2>1 DEF PoolStep, Pool!PoolNext
<1>4. CASE OperationStep
  <2>1. CASE EnableCommits \/ EnableFails \/ ReconcileCollects \/ Publish \/ EndOperation
    BY <1>1, <2>1 DEF EnableCommits, EnableFails, ReconcileCollects, Publish, EndOperation
  <2>2. ASSUME NEW p \in Plugins, RemovePlugin(p) PROVE PoolStep
    BY <1>1, <2>2 DEF RemovePlugin
  <2>3. ASSUME NEW r \in Runtimes, Supersede(r) PROVE PoolStep
    <3>1. rtState[r] = "started" /\ UNCHANGED <<rtState, closing>> /\ hdraining' = hdraining \cup {r}
      BY <2>3 DEF Supersede, OwnerInvariant, KeptOnce, KeptOnceAt, Kept, InHand
    <3>2. Pool!Supersede(r)
      BY <1>0, <3>1 DEF Pool!Supersede
    <3> QED
      BY <3>2 DEF PoolStep, Pool!PoolNext
  <2>4. ASSUME NEW r \in Runtimes, RetireRuntime(r) PROVE PoolStep
    <3>1. CASE Referenced(r, Identity(r))
      BY <1>1, <2>4, <3>1 DEF RetireRuntime
    <3>2. CASE ~Referenced(r, Identity(r))
      <4>1. /\ r \in retiring /\ rtState' = [rtState EXCEPT ![r] = "stopping"]
            /\ UNCHANGED <<hdraining, closing>> /\ ~(refs[r] > 0)
        BY <2>4, <3>2 DEF RetireRuntime, Referenced
      <4>2. rtState[r] = "started"
        BY <4>1 DEF OwnerInvariant, KeptOnce, KeptOnceAt, Kept, InHand
      <4>3. rtState' = [q \in Runtimes |-> IF q \in {r} THEN "stopping" ELSE rtState[q]]
        BY <4>1 DEF TypeOK
      <4>4. \A u \in Conns \X Plugins : Using[u] # r
        BY <4>1, UnreferencedUnused
      <4>5. Pool!DecideStops({r})
        BY <1>0, <4>1, <4>2, <4>3, <4>4 DEF Pool!DecideStops
      <4> QED
        BY <4>5 DEF PoolStep, Pool!PoolNext
    <3> QED
      BY <3>1, <3>2
  <2>5. ASSUME NEW p \in Plugins, NEW g \in Gens, ReconcileSkips(p, g) \/ ReconcileForgets(p, g) \/ ReconcileReuses(p, g)
        PROVE  PoolStep
    BY <1>1, <2>5 DEF ReconcileSkips, ReconcileForgets, ReconcileReuses
  <2>6. ASSUME NEW p \in Plugins, NEW g \in Gens, NEW r \in Runtimes, NEW usable \in BOOLEAN,
               ReconcileStarts(p, g, r, usable)
        PROVE  PoolStep
    BY <1>2, <2>6 DEF ReconcileStarts
  <2>7. CASE RuntimeDestroyed
    <3>1. destroying \in Runtimes /\ rtState[destroying] = "stopping"
      BY <2>7 DEF RuntimeDestroyed, TypeOK, MaybeRuntime, OwnerInvariant, StoppedOnce
    <3> QED
      BY <1>3, <2>7, <3>1 DEF RuntimeDestroyed
  <2> QED
    BY <1>4, <2>1, <2>2, <2>3, <2>4, <2>5, <2>6, <2>7 DEF OperationStep
<1>5. CASE AdminStep
  <2>1. ASSUME NEW p \in Plugins, NEW r \in Runtimes, Load(p, r) \/ EnableStarts(p, r)
        PROVE  PoolStep
    BY <1>2, <2>1 DEF Load, EnableStarts
  <2>2. ASSUME NEW p \in Plugins,
               (\E on \in BOOLEAN : SetDesired(p, on)) \/ ReloadConfig(p) \/ EnableReuses(p) \/ LoadForgets(p)
                 \/ Withdraw(p) \/ Quarantine(p) \/ Isolate(p)
        PROVE  PoolStep
    BY <1>1, <2>2 DEF SetDesired, ReloadConfig, EnableReuses, LoadForgets, Withdraw, Quarantine, Isolate
  <2>3. CASE ReconcileBegins
    BY <1>1, <2>3 DEF ReconcileBegins
  <2> QED
    BY <1>5, <2>1, <2>2, <2>3 DEF AdminStep
<1>6. CASE CloseBegins
  <2>1. Pool!Close
    BY <1>0, <1>6 DEF CloseBegins, Pool!Close
  <2> QED
    BY <2>1 DEF PoolStep, Pool!PoolNext
<1>7. CASE CloseStep
  <2>1. CASE CloseTakes \/ CloseTakesPending \/ CloseEnds
    BY <1>1, <2>1 DEF CloseTakes, CloseTakesPending, CloseEnds
  <2>2. ASSUME NEW r \in Runtimes, CloseStops(r) PROVE PoolStep
    <3>1. /\ closing /\ r \in closeQ /\ rtState' = [rtState EXCEPT ![r] = "stopped"]
          /\ UNCHANGED <<hdraining, closing>>
      BY <2>2 DEF CloseStops, StopShape
    <3>2. rtState[r] = "started"
      BY <3>1 DEF OwnerInvariant, KeptOnce, KeptOnceAt, Kept, AwaitsStop
    <3>3. Pool!CloseStops(r)
      BY <1>0, <3>1, <3>2 DEF Pool!CloseStops
    <3> QED
      BY <3>3 DEF PoolStep, Pool!PoolNext
  <2> QED
    BY <1>7, <2>1, <2>2 DEF CloseStep
<1>8. ASSUME NEW r \in Runtimes, CleanupStops(r) PROVE PoolStep
  <2>1. rtState[r] = "stopping"
    BY <1>8 DEF CleanupStops, OwnerInvariant, StoppedOnce
  <2> QED
    BY <1>3, <1>8, <2>1 DEF CleanupStops
<1> QED
  BY <1>4, <1>5, <1>6, <1>7, <1>8 DEF OtherStep

\* Whatever operations, connections, reloads and shutdowns overlap, the manager
\* serves its runtimes as RuntimePool promises: each is started and stopped once,
\* no stop is decided while an invocation is inside (except by Close), and none
\* enters a runtime after it was superseded.  For any plugins, connections,
\* runtimes and instance ids.
THEOREM ManagerServesRuntimes == Spec => RuntimesServed
<1>1. Init => Pool!PoolInit
  <2> SUFFICES ASSUME Init PROVE Pool!PoolInit
    OBVIOUS
  <2>1. ASSUME NEW u \in Conns \X Plugins
        PROVE  (IF stage[u[1]][u[2]] \in Holding THEN snap[u[1]][u[2]] ELSE NoRuntime) = NoRuntime
    <3>1. u[1] \in Conns /\ u[2] \in Plugins
      OBVIOUS
    <3> QED
      BY <3>1 DEF Init, Holding
  <2>2. Using = [u \in Conns \X Plugins |-> NoRuntime]
    BY <2>1 DEF Using
  <2> QED
    BY <2>2 DEF Init, Pool!PoolInit
<1>2. PinInvariant /\ OwnerInvariant /\ NamedWasStarted /\ [Next]_vars
        => [Pool!PoolNext]_(Pool!poolVars)
  <2> SUFFICES ASSUME PinInvariant, OwnerInvariant, NamedWasStarted, [Next]_vars
               PROVE  PoolStep
    BY DEF PoolStep
  <2>1. CASE UNCHANGED vars
    <3>1. UNCHANGED <<rtState, hdraining, closing, stage, snap>>
      BY <2>1 DEF vars
    <3> QED
      BY <3>1, UsingSame, PoolStutter
  <2> QED
    BY <2>1, ConnServes, OtherServes DEF Next, OtherStep
<1> QED
  BY <1>1, <1>2, PinInvariantHolds, OwnerInvariantHolds, SessionInvariantHolds, PTL
     DEF Spec, RuntimesServed, Pool!PoolSpec

=============================================================================
