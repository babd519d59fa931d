--------------------------- MODULE TakeoverRetirement ---------------------------
(***************************************************************************)
(* The hot path of the plugin manager against its retirement path          *)
(* (internal/pluginmanager/manager.go, manager_close.go).                  *)
(*                                                                         *)
(* A connection reads the dispatch snapshot once, with no lock, and then    *)
(* walks the chain of takeover handlers in it; every handler may pass the   *)
(* connection on through a one-shot continuation.  Meanwhile Load, Enable,  *)
(* Disable, Delete, Reconcile, a quarantine and Close replace the snapshot  *)
(* and destroy the runtimes behind the handlers they took out of it.  The   *)
(* only thing between the two is a reservation (runtimeRefs) taken under    *)
(* sessionMu, two drain marks, and the map of pending runtime stops.        *)
(*                                                                         *)
(* An action is one critical section of sessionMu (or one atomic store);    *)
(* the operations of the manager run under m.mu, one at a time, as the      *)
(* sequence of their sections.  A plugin registers at most one takeover     *)
(* handler (buildHandlers), so a handler is identified with its runtime.    *)
(* Plugins are numbered in dispatch order (priority, then plugin id).       *)
(***************************************************************************)
EXTENDS Naturals, FiniteSets

CONSTANTS
    Plugins,           \* plugin ids, numbered in dispatch order
    Conns,             \* connections that may be in HandleConnection at once
    Runtimes,          \* loadedPlugin values the process may ever create
    NoRuntime,         \* Go's nil *loadedPlugin
    MaxGen,            \* bound on the desired generation of a plugin
    UniqueInstanceID,  \* RuntimeInstanceID is set (sandbox), not "" (others)
    MayClose           \* bound: whether the instance has a Close at all

ASSUME PluginsAssumption == Plugins \subseteq Nat \ {0} /\ IsFiniteSet(Plugins)
ASSUME ConnsAssumption == IsFiniteSet(Conns)
ASSUME RuntimesAssumption == NoRuntime \notin Runtimes
ASSUME BoundsAssumption ==
    /\ MaxGen \in Nat
    /\ UniqueInstanceID \in BOOLEAN
    /\ MayClose \in BOOLEAN

VARIABLES
    \* the plugins table (only what decides a load)
    desiredGen,    \* plugins.desired_generation
    desiredOn,     \* plugins.desired_state = enabled
    \* Manager
    loaded,        \* m.loaded
    displaced,     \* m.displaced, by plugin
    snapshot,      \* m.snapshot
    drainingIDs,   \* m.drainingIDs
    pendingStops,  \* values of m.pendingRuntimeStops; the key is Identity(r)
    cleanup,       \* runtimes being stopped by runtimeCleanupWG goroutines
    closing,       \* m.closing
    \* loadedPlugin and upstreamHandler
    rtState,       \* life of the runtime instance
    owner,         \* record.ID
    recGen,        \* record.DesiredGeneration: moves with a config reload
    keyGen,        \* handler.runtime.desiredGeneration: fixed by loadLocked
    dropped,       \* history: runtimes let go of without being retired
    hdraining,     \* runtimes whose handler.draining is set
    refs,          \* handler.runtimeRefs
    \* the operation that holds m.mu
    phase, target, cand, replaced, rows, next, oldQ, dropQ, retiring, destroying,
    closeQ,        \* runtimes m.close has still to stop
    closeAt,       \* progress of m.close
    \* one connection in HandleConnection
    pc, snap, at,  \* where it is, its snapshot, the last chain position visited
    stage, flow,   \* per chain position: the invocation and its continuation
    entered,       \* history: rtState of the runtime when it was reserved
    sessions,      \* m.connectionSessions
    parts, sdrain  \* session.participants, session.draining

dbVars == <<desiredGen, desiredOn>>
mgrVars == <<loaded, displaced, snapshot>>
rtVars == <<owner, recGen, keyGen, dropped>>
opVars == <<phase, target, cand, replaced, rows, next, oldQ, dropQ, retiring, destroying>>
closeVars == <<closing, closeQ, closeAt>>
stopVars == <<rtState, pendingStops, cleanup>>
frameVars == <<pc, snap, at, stage, flow, entered>>
sessVars == <<sessions, parts, sdrain>>
drainVars == <<drainingIDs, hdraining>>

vars == <<desiredGen, desiredOn, loaded, displaced, snapshot, drainingIDs, pendingStops,
          cleanup, closing, rtState, owner, recGen, keyGen, dropped, hdraining, refs, phase,
          target, cand, replaced, rows, next, oldQ, dropQ, retiring, destroying, closeQ, closeAt,
          pc, snap, at, stage, flow, entered, sessions, parts, sdrain>>

MaybeRuntime == Runtimes \cup {NoRuntime}
Gens == 0 .. MaxGen
NoPlugin == 0
NoHandlers == [p \in Plugins |-> NoRuntime]

Stages == {"idle", "reserved", "invoked", "returned", "released"}
Flows == {"none", "available", "running", "runningAfterReturn", "used", "expired"}
RuntimeStates == {"free", "started", "stopping", "stopped"}
Phases == {"idle", "enable", "reenable", "reconcile", "supersede", "remove", "retire"}

\* An invocation holds a reservation of its handler from reserveUpstreamHandler
\* to releaseUpstreamHandler.
Holding == {"reserved", "invoked", "returned"}
ContinuationRunning == {"running", "runningAfterReturn"}

TypeOK ==
    /\ desiredGen \in [Plugins -> Gens]
    /\ desiredOn \in [Plugins -> BOOLEAN]
    /\ loaded \in [Plugins -> MaybeRuntime]
    /\ displaced \in [Plugins -> SUBSET Runtimes]
    /\ snapshot \in [Plugins -> MaybeRuntime]
    /\ drainingIDs \subseteq Plugins
    /\ pendingStops \subseteq Runtimes
    /\ cleanup \subseteq Runtimes
    /\ closing \in BOOLEAN
    /\ rtState \in [Runtimes -> RuntimeStates]
    /\ owner \in [Runtimes -> Plugins \cup {NoPlugin}]
    /\ recGen \in [Runtimes -> Gens]
    /\ keyGen \in [Runtimes -> Gens]
    /\ dropped \subseteq Runtimes
    /\ hdraining \subseteq Runtimes
    /\ refs \in [Runtimes -> Nat]
    /\ phase \in Phases
    /\ target \in Plugins \cup {NoPlugin}
    /\ cand \in MaybeRuntime
    /\ replaced \in MaybeRuntime
    /\ rows \in SUBSET (Plugins \X Gens)
    /\ next \in [Plugins -> MaybeRuntime]
    /\ oldQ \subseteq Runtimes
    /\ dropQ \subseteq Plugins
    /\ retiring \subseteq Runtimes
    /\ destroying \in MaybeRuntime
    /\ closeQ \subseteq Runtimes
    /\ closeAt \in {"open", "begun", "destroy", "pending", "done"}
    /\ pc \in [Conns -> {"idle", "loaded", "run", "handler", "core", "finish", "finishing"}]
    /\ snap \in [Conns -> [Plugins -> MaybeRuntime]]
    /\ at \in [Conns -> Plugins \cup {NoPlugin}]
    /\ stage \in [Conns -> [Plugins -> Stages]]
    /\ flow \in [Conns -> [Plugins -> Flows]]
    /\ entered \in [Conns -> [Plugins -> RuntimeStates]]
    /\ sessions \subseteq Conns
    /\ parts \in [Conns -> SUBSET Plugins]
    /\ sdrain \in [Conns -> SUBSET Plugins]

Init ==
    /\ desiredGen = [p \in Plugins |-> 0]
    /\ desiredOn = [p \in Plugins |-> FALSE]
    /\ loaded = NoHandlers
    /\ displaced = [p \in Plugins |-> {}]
    /\ snapshot = NoHandlers
    /\ drainingIDs = {}
    /\ pendingStops = {}
    /\ cleanup = {}
    /\ closing = FALSE
    /\ rtState = [r \in Runtimes |-> "free"]
    /\ owner = [r \in Runtimes |-> NoPlugin]
    /\ recGen = [r \in Runtimes |-> 0]
    /\ keyGen = [r \in Runtimes |-> 0]
    /\ dropped = {}
    /\ hdraining = {}
    /\ refs = [r \in Runtimes |-> 0]
    /\ phase = "idle"
    /\ target = NoPlugin
    /\ cand = NoRuntime
    /\ replaced = NoRuntime
    /\ rows = {}
    /\ next = NoHandlers
    /\ oldQ = {}
    /\ dropQ = {}
    /\ retiring = {}
    /\ destroying = NoRuntime
    /\ closeQ = {}
    /\ closeAt = "open"
    /\ pc = [c \in Conns |-> "idle"]
    /\ snap = [c \in Conns |-> NoHandlers]
    /\ at = [c \in Conns |-> NoPlugin]
    /\ stage = [c \in Conns |-> [p \in Plugins |-> "idle"]]
    /\ flow = [c \in Conns |-> [p \in Plugins |-> "none"]]
    /\ entered = [c \in Conns |-> [p \in Plugins |-> "free"]]
    /\ sessions = {}
    /\ parts = [c \in Conns |-> {}]
    /\ sdrain = [c \in Conns |-> {}]

-----------------------------------------------------------------------------
(* Runtime identities and references.                                       *)

\* loadedRuntimeIdentity: the artifact is determined by the generation.
Instance(r) == IF UniqueInstanceID THEN r ELSE NoRuntime
Identity(r) == <<owner[r], recGen[r], Instance(r)>>
\* handler.runtime, the key loadLocked stored in the handler.
HandlerKey(r) == <<owner[r], keyGen[r], Instance(r)>>

\* mutant: only registered participants count, not reservations.
ReferencedBySession(r, key) ==
    \E c \in sessions : \E p \in parts[c] : HandlerKey(snap[c][p]) = key
\* activeRuntimeReferencesWithoutLock(loaded, key) > 0.
Referenced(r, key) ==
    \/ refs[r] > 0
    \/ \E c \in sessions : \E p \in parts[c] : HandlerKey(snap[c][p]) = key

\* takePendingRuntimeStopIfDrained(key) and the goroutine that
\* queuePendingRuntimeStopIfDrained starts for what it took.
Due(key) == {r \in pendingStops : Identity(r) = key /\ ~Referenced(r, key)}
QueuePendingStop(due) ==
    /\ pendingStops' = pendingStops \ due
    /\ cleanup' = cleanup \cup due
    /\ rtState' = [r \in Runtimes |-> IF r \in due THEN "stopping" ELSE rtState[r]]

-----------------------------------------------------------------------------
(* HandleConnection and the dispatch chain.                                 *)

\* mutant: the drain mark of the handler itself is not consulted.
DrainingAsPlugin(p, r) == p \in drainingIDs
\* The reservation test of reserveUpstreamHandler.
Draining(p, r) == p \in drainingIDs \/ r \in hdraining

\* p is the next handler of the loop in connectionDispatch.run.
IsNext(c, p) ==
    /\ at[c] < p
    /\ snap[c][p] # NoRuntime
    /\ \A q \in Plugins : (at[c] < q /\ q < p) => snap[c][q] = NoRuntime

\* p is the innermost handler invocation of the connection.
Innermost(c, p) == \A q \in Plugins : p < q => stage[c][q] = "idle"

\* HandleConnection: m.snapshot.Load(), before the session exists.
Accept(c) ==
    /\ pc[c] = "idle"
    /\ pc' = [pc EXCEPT ![c] = "loaded"]
    /\ snap' = [snap EXCEPT ![c] = snapshot]
    /\ UNCHANGED <<at, stage, flow, entered, refs>>
    /\ UNCHANGED <<dbVars, mgrVars, rtVars, opVars, closeVars, stopVars, sessVars, drainVars>>

\* startConnectionSession, then dispatch.run(0, ...).
StartSession(c) ==
    /\ pc[c] = "loaded"
    /\ pc' = [pc EXCEPT ![c] = "run"]
    /\ sessions' = sessions \cup {c}
    /\ UNCHANGED <<snap, at, stage, flow, entered, refs, parts, sdrain>>
    /\ UNCHANGED <<dbVars, mgrVars, rtVars, opVars, closeVars, stopVars, drainVars>>

\* reserveUpstreamHandler answers false: the loop goes on with the next handler.
SkipHandler(c, p) ==
    /\ pc[c] = "run"
    /\ IsNext(c, p)
    /\ Draining(p, snap[c][p])
    /\ at' = [at EXCEPT ![c] = p]
    /\ UNCHANGED <<pc, snap, stage, flow, entered, refs>>
    /\ UNCHANGED <<dbVars, mgrVars, rtVars, opVars, closeVars, stopVars, sessVars, drainVars>>

\* reserveUpstreamHandler answers true.
ReserveHandler(c, p) ==
    /\ pc[c] = "run"
    /\ IsNext(c, p)
    /\ ~Draining(p, snap[c][p])
    /\ refs' = [refs EXCEPT ![snap[c][p]] = @ + 1]
    /\ at' = [at EXCEPT ![c] = p]
    /\ pc' = [pc EXCEPT ![c] = "handler"]
    /\ stage' = [stage EXCEPT ![c][p] = "reserved"]
    /\ entered' = [entered EXCEPT ![c][p] = rtState[snap[c][p]]]
    /\ UNCHANGED <<snap, flow>>
    /\ UNCHANGED <<dbVars, mgrVars, rtVars, opVars, closeVars, stopVars, sessVars, drainVars>>

\* mutant: a handler reserved before the drain joins unmarked.
JoinUnmarked(c, p) == {}
\* addConnectionParticipant: a session that joins a draining handler is marked.
JoinDraining(c, p) == IF Draining(p, snap[c][p]) THEN {p} ELSE {}

\* addConnectionParticipant and the call of handler.invoke with a fresh flow.
InvokeHandler(c, p) ==
    /\ stage[c][p] = "reserved"
    /\ stage' = [stage EXCEPT ![c][p] = "invoked"]
    /\ flow' = [flow EXCEPT ![c][p] = "available"]
    /\ parts' = [parts EXCEPT ![c] = @ \cup {p}]
    /\ sdrain' = [sdrain EXCEPT ![c] = @ \cup JoinDraining(c, p)]
    /\ UNCHANGED <<pc, snap, at, entered, refs, sessions>>
    /\ UNCHANGED <<dbVars, mgrVars, rtVars, opVars, closeVars, stopVars, drainVars>>

\* The loop runs out of handlers: run calls core.
EnterCore(c) ==
    /\ pc[c] = "run"
    /\ \A p \in Plugins : ~IsNext(c, p)
    /\ pc' = [pc EXCEPT ![c] = "core"]
    /\ UNCHANGED <<snap, at, stage, flow, entered, refs>>
    /\ UNCHANGED <<dbVars, mgrVars, rtVars, opVars, closeVars, stopVars, sessVars, drainVars>>

\* Flow.Next (to = "run") and Flow.Core (to = "core").  claim looks only at the
\* state of the flow: a goroutine the handler left behind may be the caller.
ClaimContinuation(c, p, to) ==
    /\ flow[c][p] = "available"
    /\ flow' = [flow EXCEPT ![c][p] = "running"]
    /\ pc' = [pc EXCEPT ![c] = to]
    /\ UNCHANGED <<snap, at, stage, entered, refs>>
    /\ UNCHANGED <<dbVars, mgrVars, rtVars, opVars, closeVars, stopVars, sessVars, drainVars>>

\* Next or Core with a nil stream: claim, the error return, and complete.
ClaimWithoutStream(c, p) ==
    /\ flow[c][p] = "available"
    /\ flow' = [flow EXCEPT ![c][p] = "used"]
    /\ UNCHANGED <<pc, snap, at, stage, entered, refs>>
    /\ UNCHANGED <<dbVars, mgrVars, rtVars, opVars, closeVars, stopVars, sessVars, drainVars>>

\* mutant: an unclaimed continuation does not expire.
AfterHandlerReturnKeeps(state) ==
    IF state = "running" THEN "runningAfterReturn" ELSE state
\* connectionFlow.handlerReturned.
AfterHandlerReturn(state) ==
    CASE state = "available" -> "expired"
      [] state = "running"   -> "runningAfterReturn"
      [] OTHER               -> state

\* handler.invoke returns (a panic is recovered into an error return); with the
\* continuation still running the session's streams are closed and run waits.
HandlerReturns(c, p) ==
    /\ stage[c][p] = "invoked"
    /\ stage' = [stage EXCEPT ![c][p] = "returned"]
    /\ flow' = [flow EXCEPT ![c][p] = AfterHandlerReturn(@)]
    /\ UNCHANGED <<pc, snap, at, entered, refs>>
    /\ UNCHANGED <<dbVars, mgrVars, rtVars, opVars, closeVars, stopVars, sessVars, drainVars>>

\* A run (or core) returns to its caller: connectionFlow.complete of the
\* enclosing invocation, or the end of HandleConnection.  outer[q] is the stage
\* of the invocations that are left.
ReturnToCaller(c, outer) ==
    LET live == {q \in Plugins : outer[q] # "idle"}
        caller(q) == q \in live /\ \A s \in live : s <= q
    IN /\ flow' = [flow EXCEPT ![c] = [q \in Plugins |->
                     IF caller(q) /\ flow[c][q] \in ContinuationRunning
                     THEN "used" ELSE flow[c][q]]]
       /\ pc' = [pc EXCEPT ![c] = IF live = {} THEN "finish" ELSE "handler"]

CoreReturns(c) ==
    /\ pc[c] = "core"
    /\ ReturnToCaller(c, stage[c])
    /\ UNCHANGED <<snap, at, stage, entered, refs>>
    /\ UNCHANGED <<dbVars, mgrVars, rtVars, opVars, closeVars, stopVars, sessVars, drainVars>>

\* releaseUpstreamHandler, the section under sessionMu; flow.wait() is over.
ReleaseHandler(c, p) ==
    /\ pc[c] = "handler"
    /\ Innermost(c, p)
    /\ stage[c][p] = "returned"
    /\ flow[c][p] \notin ContinuationRunning
    /\ refs' = [refs EXCEPT ![snap[c][p]] = @ - 1]
    /\ stage' = [stage EXCEPT ![c][p] = "released"]
    /\ UNCHANGED <<pc, snap, at, flow, entered>>
    /\ UNCHANGED <<dbVars, mgrVars, rtVars, opVars, closeVars, stopVars, sessVars, drainVars>>

\* releaseUpstreamHandler, the pending stop; run returns to its caller.
LeaveHandler(c, p) ==
    /\ stage[c][p] = "released"
    /\ QueuePendingStop(Due(HandlerKey(snap[c][p])))
    /\ stage' = [stage EXCEPT ![c][p] = "idle"]
    /\ ReturnToCaller(c, [stage[c] EXCEPT ![p] = "idle"])
    /\ UNCHANGED <<snap, at, entered, refs>>
    /\ UNCHANGED <<dbVars, mgrVars, rtVars, opVars, closeVars, sessVars, drainVars>>

\* mutant: the session is still registered while its participants are looked up.
FinishSessionLate(c) ==
    /\ pc[c] = "finish"
    /\ pc' = [pc EXCEPT ![c] = "finishing"]
    /\ UNCHANGED <<snap, at, stage, flow, entered, refs, sessVars>>
    /\ UNCHANGED <<dbVars, mgrVars, rtVars, opVars, closeVars, stopVars, drainVars>>
\* finishConnectionSession, the section under sessionMu.
FinishSession(c) ==
    /\ pc[c] = "finish"
    /\ pc' = [pc EXCEPT ![c] = "finishing"]
    /\ sessions' = sessions \ {c}
    /\ UNCHANGED <<snap, at, stage, flow, entered, refs, parts, sdrain>>
    /\ UNCHANGED <<dbVars, mgrVars, rtVars, opVars, closeVars, stopVars, drainVars>>

\* finishConnectionSession, its loop over the participants.
FinishParticipant(c, p) ==
    /\ pc[c] = "finishing"
    /\ p \in parts[c]
    /\ parts' = [parts EXCEPT ![c] = @ \ {p}]
    /\ QueuePendingStop(Due(HandlerKey(snap[c][p])))
    /\ UNCHANGED <<frameVars, refs, sessions, sdrain>>
    /\ UNCHANGED <<dbVars, mgrVars, rtVars, opVars, closeVars, drainVars>>

\* HandleConnection returns; the slot is free for another connection.
ConnectionEnds(c) ==
    /\ pc[c] = "finishing"
    /\ parts[c] = {}
    /\ pc' = [pc EXCEPT ![c] = "idle"]
    /\ snap' = [snap EXCEPT ![c] = NoHandlers]
    /\ at' = [at EXCEPT ![c] = NoPlugin]
    /\ flow' = [flow EXCEPT ![c] = [p \in Plugins |-> "none"]]
    /\ entered' = [entered EXCEPT ![c] = [p \in Plugins |-> "free"]]
    /\ sdrain' = [sdrain EXCEPT ![c] = {}]
    /\ UNCHANGED <<stage, refs, sessions, parts>>
    /\ UNCHANGED <<dbVars, mgrVars, rtVars, opVars, closeVars, stopVars, drainVars>>

\* stopPendingRuntime, the end of the cleanup goroutine: Drain, Destroy, Stop.
CleanupStops(r) ==
    /\ r \in cleanup
    /\ cleanup' = cleanup \ {r}
    /\ rtState' = [rtState EXCEPT ![r] = "stopped"]
    /\ UNCHANGED <<pendingStops, refs>>
    /\ UNCHANGED <<dbVars, mgrVars, rtVars, opVars, closeVars, frameVars, sessVars, drainVars>>

-----------------------------------------------------------------------------
(* Desired state and config reload.                                         *)

\* SetDesired up to UpsertDesired (also RollbackArtifact, RollbackConfigSnapshot):
\* m.mu is not held.
SetDesired(p, on) ==
    /\ ~closing
    /\ desiredGen[p] < MaxGen
    /\ desiredGen' = [desiredGen EXCEPT ![p] = @ + 1]
    /\ desiredOn' = [desiredOn EXCEPT ![p] = on]
    /\ UNCHANGED <<refs, mgrVars, rtVars, opVars, closeVars, stopVars, frameVars, sessVars, drainVars>>

\* reloadLoadedRuntime, the tail of SetDesired(enabled), when the artifact has not
\* changed and the row is still the one written: loaded.record moves to the new
\* generation, handler.runtime does not.  Every runtime adapter has a ReloadConfig.
ReloadConfig(p) ==
    /\ phase = "idle"
    /\ desiredOn[p]
    /\ loaded[p] # NoRuntime
    /\ recGen' = [recGen EXCEPT ![loaded[p]] = desiredGen[p]]
    /\ UNCHANGED <<owner, keyGen, dropped, refs>>
    /\ UNCHANGED <<dbVars, mgrVars, opVars, closeVars, stopVars, frameVars, sessVars, drainVars>>

-----------------------------------------------------------------------------
(* The operations under m.mu.                                               *)

\* appendUniqueLoadedPlugin and retireLoadedPluginLocked ignore nil.
Just(r) == {r} \ {NoRuntime}

\* loadLocked when the loaded runtime has the generation of the row.
Reusable(p, g) == loaded[p] # NoRuntime /\ recGen[loaded[p]] = g

\* loadLocked with a reusable runtime whose host is in a crash loop deletes it from
\* m.loaded and goes on as if nothing were loaded: nobody retires the old runtime.
\* So whoever starts a runtime where one could be reused forgets that one, and the
\* replaced runtime (previous) is nil.
Forgotten(p, g) == IF Reusable(p, g) THEN {loaded[p]} ELSE {}
Previous(p, g) == IF Reusable(p, g) THEN NoRuntime ELSE loaded[p]

\* loadLocked when a runtime is started and MarkRuntimeIfDesiredGeneration
\* accepts it; otherwise the candidate is stopped, and nothing has changed but what
\* the crash-loop branch forgot (LoadForgets, ReconcileForgets).
StartCandidate(p, r) ==
    /\ rtState[r] = "free"
    /\ rtState' = [rtState EXCEPT ![r] = "started"]
    /\ owner' = [owner EXCEPT ![r] = p]
    /\ recGen' = [recGen EXCEPT ![r] = desiredGen[p]]
    /\ keyGen' = [keyGen EXCEPT ![r] = desiredGen[p]]
    /\ dropped' = dropped \cup Forgotten(p, desiredGen[p])

\* markDrainingLocked for the plugins ps: sessions that have them in their chain.
MarkSessions(ps) ==
    sdrain' = [c \in Conns |-> IF c \in sessions THEN sdrain[c] \cup (parts[c] \cap ps)
                               ELSE sdrain[c]]

\* Load: a published runtime it replaces is kept in m.displaced, any other is
\* retired at once.  (Loading what is already loaded, with a healthy host, changes
\* nothing.)
Load(p, r) ==
    /\ phase = "idle"
    /\ ~closing
    /\ desiredGen[p] > 0
    /\ StartCandidate(p, r)
    /\ loaded' = [loaded EXCEPT ![p] = r]
    /\ LET keep == snapshot[p] # NoRuntime /\ displaced[p] = {}
       IN /\ displaced' = [displaced EXCEPT ![p] = IF keep THEN Just(Previous(p, desiredGen[p])) ELSE @]
          /\ retiring' = IF keep THEN {} ELSE Just(Previous(p, desiredGen[p]))
    /\ phase' = "retire"
    /\ UNCHANGED <<snapshot, pendingStops, cleanup, target, cand, replaced, rows, next, oldQ, dropQ,
                   destroying, refs>>
    /\ UNCHANGED <<dbVars, closeVars, frameVars, sessVars, drainVars>>

\* Enable up to loadLocked, with a runtime to reuse.  The row was read before
\* m.mu was taken, so its generation may have been overtaken.
EnableReuses(p) ==
    /\ phase = "idle"
    /\ ~closing
    /\ loaded[p] # NoRuntime
    /\ Reusable(p, desiredGen[p]) => desiredOn[p]
    /\ phase' = "reenable"
    /\ target' = p
    /\ cand' = loaded[p]
    /\ UNCHANGED <<replaced, rows, next, oldQ, dropQ, retiring, destroying, refs>>
    /\ UNCHANGED <<dbVars, mgrVars, rtVars, closeVars, stopVars, frameVars, sessVars, drainVars>>

\* Enable up to loadLocked, with a new runtime.
EnableStarts(p, r) ==
    /\ phase = "idle"
    /\ ~closing
    /\ desiredOn[p]
    /\ StartCandidate(p, r)
    /\ loaded' = [loaded EXCEPT ![p] = r]
    /\ phase' = "enable"
    /\ target' = p
    /\ cand' = r
    /\ replaced' = Previous(p, desiredGen[p])
    /\ UNCHANGED <<displaced, snapshot, pendingStops, cleanup, rows, next, oldQ, dropQ, retiring,
                   destroying, refs>>
    /\ UNCHANGED <<dbVars, closeVars, frameVars, sessVars, drainVars>>

\* Load and Enable: loadLocked fails after its crash-loop branch (a backoff, a gate,
\* a start or an overtaken row); its handlers stay published.
LoadForgets(p) ==
    /\ phase = "idle"
    /\ ~closing
    /\ Reusable(p, desiredGen[p])
    /\ loaded' = [loaded EXCEPT ![p] = NoRuntime]
    /\ dropped' = dropped \cup {loaded[p]}
    /\ UNCHANGED <<displaced, snapshot, owner, recGen, keyGen, refs>>
    /\ UNCHANGED <<dbVars, opVars, closeVars, stopVars, frameVars, sessVars, drainVars>>

\* Enable: markEnabled succeeds, clearDrainingLocked, the runtimes to retire.
EnableCommits ==
    /\ phase \in {"enable", "reenable"}
    /\ recGen[cand] = desiredGen[target]
    /\ drainingIDs' = drainingIDs \ {target}
    /\ oldQ' = displaced[target] \cup Just(replaced)
    /\ displaced' = [displaced EXCEPT ![target] = {}]
    /\ next' = [snapshot EXCEPT ![target] = cand]
    /\ phase' = "supersede"
    /\ target' = NoPlugin
    /\ cand' = NoRuntime
    /\ replaced' = NoRuntime
    /\ UNCHANGED <<loaded, snapshot, hdraining, rows, dropQ, retiring, destroying, refs>>
    /\ UNCHANGED <<dbVars, rtVars, closeVars, stopVars, frameVars, sessVars>>

\* rollbackLoadedCandidateLocked: nothing to undo when the candidate is what was
\* loaded before and the plugin is published.
NothingToRollBack ==
    displaced[target] = {} /\ phase = "reenable" /\ snapshot[target] # NoRuntime

\* m.displaced never holds two runtimes of a plugin (Load keeps the first).
Restored == IF displaced[target] # {} THEN CHOOSE r \in displaced[target] : TRUE
            ELSE replaced

\* mutant: the candidate itself is not retired.
StaleWithoutCandidate == (displaced[target] \cup Just(replaced)) \ {Restored}
\* The runtimes rollbackLoadedCandidateLocked retires.
RolledBack == (displaced[target] \cup Just(replaced) \cup Just(cand)) \ {Restored}

\* Enable: no extension point registered, or markEnabled refused.
EnableFails ==
    /\ phase \in {"enable", "reenable"}
    /\ IF NothingToRollBack
       THEN UNCHANGED <<loaded, displaced, retiring>>
       ELSE /\ loaded' = [loaded EXCEPT ![target] = Restored]
            /\ displaced' = [displaced EXCEPT ![target] = {}]
            /\ retiring' = RolledBack
    /\ phase' = "retire"
    /\ target' = NoPlugin
    /\ cand' = NoRuntime
    /\ replaced' = NoRuntime
    /\ UNCHANGED <<snapshot, rows, next, oldQ, dropQ, destroying, refs>>
    /\ UNCHANGED <<dbVars, rtVars, closeVars, stopVars, frameVars, sessVars, drainVars>>

\* markLoadedRuntimeDrainingLocked for one runtime of Enable's or Reconcile's list:
\* handler.draining, then the sessions found by loadedRuntimeIdentity.
Supersede(r) ==
    /\ phase = "supersede"
    /\ r \in oldQ
    /\ oldQ' = oldQ \ {r}
    /\ retiring' = retiring \cup {r}
    /\ hdraining' = hdraining \cup {r}
    /\ sdrain' = [c \in Conns |->
                    IF c \in sessions
                    THEN sdrain[c] \cup {p \in parts[c] : HandlerKey(snap[c][p]) = Identity(r)}
                    ELSE sdrain[c]]
    /\ UNCHANGED <<drainingIDs, phase, target, cand, replaced, rows, next, dropQ, destroying,
                   refs, sessions, parts>>
    /\ UNCHANGED <<dbVars, mgrVars, rtVars, closeVars, stopVars, frameVars>>

\* Reconcile: a loaded plugin outside the new dispatch is drained and retired.
\* (m.loaded is read under m.mu only, so its delete at the end is folded in.)
RemovePlugin(p) ==
    /\ phase = "supersede"
    /\ oldQ = {}
    /\ p \in dropQ
    /\ dropQ' = dropQ \ {p}
    /\ drainingIDs' = drainingIDs \cup {p}
    /\ MarkSessions({p})
    /\ retiring' = retiring \cup Just(loaded[p])
    /\ loaded' = [loaded EXCEPT ![p] = NoRuntime]
    /\ UNCHANGED <<displaced, snapshot, hdraining, phase, target, cand, replaced, rows, next, oldQ,
                   destroying, refs, sessions, parts>>
    /\ UNCHANGED <<dbVars, rtVars, closeVars, stopVars, frameVars>>

\* publish, for Enable and for Reconcile.
Publish ==
    /\ phase = "supersede"
    /\ oldQ = {}
    /\ dropQ = {}
    /\ snapshot' = next
    /\ next' = NoHandlers
    /\ phase' = "retire"
    /\ UNCHANGED <<loaded, displaced, target, cand, replaced, rows, oldQ, dropQ, retiring,
                   destroying, refs>>
    /\ UNCHANGED <<dbVars, rtVars, closeVars, stopVars, frameVars, sessVars, drainVars>>

\* deferRuntimeRetirementIfActive stores by key: a runtime that was parked under the
\* same key is forgotten.
Displacing(r) == {s \in pendingStops : Identity(s) = Identity(r)}

\* retireLoadedPluginLocked: a runtime still referenced is parked, any other is
\* destroyed now.
RetireRuntime(r) ==
    /\ phase = "retire"
    /\ destroying = NoRuntime
    /\ r \in retiring
    /\ retiring' = retiring \ {r}
    /\ IF Referenced(r, Identity(r))
       THEN /\ pendingStops' = (pendingStops \ Displacing(r)) \cup {r}
            /\ dropped' = dropped \cup Displacing(r)
            /\ UNCHANGED <<rtState, destroying>>
       ELSE /\ destroying' = r
            /\ rtState' = [rtState EXCEPT ![r] = "stopping"]
            /\ UNCHANGED <<pendingStops, dropped>>
    /\ UNCHANGED <<cleanup, phase, target, cand, replaced, rows, next, oldQ, dropQ, refs>>
    /\ UNCHANGED <<dbVars, mgrVars, owner, recGen, keyGen, closeVars, frameVars, sessVars, drainVars>>

\* drainAndDestroyRuntimeInstance and stopRuntimeAdapter return.
RuntimeDestroyed ==
    /\ destroying # NoRuntime
    /\ rtState' = [rtState EXCEPT ![destroying] = "stopped"]
    /\ destroying' = NoRuntime
    /\ UNCHANGED <<pendingStops, cleanup, phase, target, cand, replaced, rows, next, oldQ, dropQ,
                   retiring, refs>>
    /\ UNCHANGED <<dbVars, mgrVars, rtVars, closeVars, frameVars, sessVars, drainVars>>

\* The operation returns and m.mu is released.
EndOperation ==
    /\ phase = "retire"
    /\ retiring = {}
    /\ destroying = NoRuntime
    /\ phase' = "idle"
    /\ UNCHANGED <<target, cand, replaced, rows, next, oldQ, dropQ, retiring, destroying, refs>>
    /\ UNCHANGED <<dbVars, mgrVars, rtVars, closeVars, stopVars, frameVars, sessVars, drainVars>>

\* Disable and Delete: out of the snapshot, drained as a plugin, then retired.
\* (The drain mark right after the snapshot store is not a step of its own: a
\* reservation between the two is one taken before both.)
Withdraw(p) ==
    /\ phase = "idle"
    /\ desiredGen[p] \in 1 .. MaxGen - 1
    /\ desiredGen' = [desiredGen EXCEPT ![p] = @ + 1]
    /\ desiredOn' = [desiredOn EXCEPT ![p] = FALSE]
    /\ snapshot' = [snapshot EXCEPT ![p] = NoRuntime]
    /\ drainingIDs' = drainingIDs \cup {p}
    /\ MarkSessions({p})
    /\ retiring' = displaced[p] \cup Just(loaded[p])
    /\ displaced' = [displaced EXCEPT ![p] = {}]
    /\ loaded' = [loaded EXCEPT ![p] = NoRuntime]
    /\ phase' = "retire"
    /\ UNCHANGED <<hdraining, target, cand, replaced, rows, next, oldQ, dropQ, destroying, refs,
                   sessions, parts>>
    /\ UNCHANGED <<rtVars, closeVars, stopVars, frameVars>>

\* quarantinePluginLocked, for an advisory, a vulnerability, a policy or repeated
\* traps: out of the snapshot and drained, whether or not something is loaded; what
\* is stays in m.loaded.
Quarantine(p) ==
    /\ phase = "idle"
    /\ desiredGen[p] > 0
    /\ snapshot' = [snapshot EXCEPT ![p] = NoRuntime]
    /\ drainingIDs' = drainingIDs \cup {p}
    /\ MarkSessions({p})
    /\ UNCHANGED <<loaded, displaced, hdraining, refs, sessions, parts>>
    /\ UNCHANGED <<dbVars, rtVars, opVars, closeVars, stopVars, frameVars>>

\* quarantineSandboxProcess and isolateCrashedPluginHost, for a crash reported by a
\* runtime of p, whichever one is loaded now (with nothing loaded the first returns
\* and the second is a Quarantine): deleted from m.loaded and not retired.
Isolate(p) ==
    /\ phase = "idle"
    /\ loaded[p] # NoRuntime
    /\ snapshot' = [snapshot EXCEPT ![p] = NoRuntime]
    /\ drainingIDs' = drainingIDs \cup {p}
    /\ MarkSessions({p})
    /\ loaded' = [loaded EXCEPT ![p] = NoRuntime]
    /\ dropped' = dropped \cup {loaded[p]}
    /\ UNCHANGED <<displaced, owner, recGen, keyGen, hdraining, refs, sessions, parts>>
    /\ UNCHANGED <<dbVars, opVars, closeVars, stopVars, frameVars>>

\* Reconcile: DesiredEnabled.
ReconcileBegins ==
    /\ phase = "idle"
    /\ ~closing
    /\ rows' = {<<p, desiredGen[p]>> : p \in {q \in Plugins : desiredOn[q]}}
    /\ phase' = "reconcile"
    /\ UNCHANGED <<target, cand, replaced, next, oldQ, dropQ, retiring, destroying, refs>>
    /\ UNCHANGED <<dbVars, mgrVars, rtVars, closeVars, stopVars, frameVars, sessVars, drainVars>>

\* Reconcile, one row: the gate, loadLocked or markEnabled refuses it.
ReconcileSkips(p, g) ==
    /\ phase = "reconcile"
    /\ <<p, g>> \in rows
    /\ rows' = rows \ {<<p, g>>}
    /\ UNCHANGED <<phase, target, cand, replaced, next, oldQ, dropQ, retiring, destroying, refs>>
    /\ UNCHANGED <<dbVars, mgrVars, rtVars, closeVars, stopVars, frameVars, sessVars, drainVars>>

\* Reconcile, one row: loadLocked fails after its crash-loop branch.
ReconcileForgets(p, g) ==
    /\ phase = "reconcile"
    /\ <<p, g>> \in rows
    /\ ~closing
    /\ Reusable(p, g)
    /\ rows' = rows \ {<<p, g>>}
    /\ loaded' = [loaded EXCEPT ![p] = NoRuntime]
    /\ dropped' = dropped \cup {loaded[p]}
    /\ UNCHANGED <<displaced, snapshot, owner, recGen, keyGen, phase, target, cand, replaced, next,
                   oldQ, dropQ, retiring, destroying, refs>>
    /\ UNCHANGED <<dbVars, closeVars, stopVars, frameVars, sessVars, drainVars>>

\* Reconcile, one row: the loaded runtime is enabled again.
ReconcileReuses(p, g) ==
    /\ phase = "reconcile"
    /\ <<p, g>> \in rows
    /\ ~closing
    /\ Reusable(p, g)
    /\ g = desiredGen[p]
    /\ rows' = rows \ {<<p, g>>}
    /\ next' = [next EXCEPT ![p] = loaded[p]]
    /\ drainingIDs' = drainingIDs \ {p}
    /\ UNCHANGED <<hdraining, phase, target, cand, replaced, oldQ, dropQ, retiring, destroying, refs>>
    /\ UNCHANGED <<dbVars, mgrVars, rtVars, closeVars, stopVars, frameVars, sessVars>>

\* Reconcile, one row: a new runtime; it is dispatched unless it registered
\* nothing or markEnabled refused it.
ReconcileStarts(p, g, r, usable) ==
    /\ phase = "reconcile"
    /\ <<p, g>> \in rows
    /\ ~closing
    /\ g = desiredGen[p]
    /\ StartCandidate(p, r)
    /\ loaded' = [loaded EXCEPT ![p] = r]
    /\ oldQ' = oldQ \cup Just(Previous(p, g))
    /\ rows' = rows \ {<<p, g>>}
    /\ next' = IF usable THEN [next EXCEPT ![p] = r] ELSE next
    /\ drainingIDs' = IF usable THEN drainingIDs \ {p} ELSE drainingIDs
    /\ UNCHANGED <<displaced, snapshot, pendingStops, cleanup, hdraining, phase, target, cand,
                   replaced, dropQ, retiring, destroying, refs>>
    /\ UNCHANGED <<dbVars, closeVars, frameVars, sessVars>>

\* Reconcile after its loop: every displaced runtime is old, every loaded plugin
\* outside the new dispatch is removed.
ReconcileCollects ==
    /\ phase = "reconcile"
    /\ rows = {}
    /\ oldQ' = oldQ \cup UNION {displaced[p] : p \in Plugins}
    /\ displaced' = [p \in Plugins |-> {}]
    /\ dropQ' = {p \in Plugins : loaded[p] # NoRuntime /\ next[p] = NoRuntime}
    /\ phase' = "supersede"
    /\ UNCHANGED <<loaded, snapshot, target, cand, replaced, rows, next, retiring, destroying, refs>>
    /\ UNCHANGED <<dbVars, rtVars, closeVars, stopVars, frameVars, sessVars, drainVars>>

-----------------------------------------------------------------------------
(* Close, with a context that does not expire.                              *)

CloseBegins ==
    /\ MayClose
    /\ closeAt = "open"
    /\ closing' = TRUE
    /\ closeAt' = "begun"
    /\ UNCHANGED <<closeQ, refs>>
    /\ UNCHANGED <<dbVars, mgrVars, rtVars, opVars, stopVars, frameVars, sessVars, drainVars>>

\* close, the section under m.mu.
CloseTakes ==
    /\ closeAt = "begun"
    /\ phase = "idle"
    /\ snapshot' = NoHandlers
    /\ LET ps == {p \in Plugins : loaded[p] # NoRuntime}
       IN /\ drainingIDs' = drainingIDs \cup ps
          /\ MarkSessions(ps)
          /\ closeQ' = {loaded[p] : p \in ps} \cup UNION {displaced[p] : p \in Plugins}
    /\ loaded' = NoHandlers
    /\ displaced' = [p \in Plugins |-> {}]
    /\ closeAt' = "destroy"
    /\ UNCHANGED <<closing, hdraining, refs, sessions, parts>>
    /\ UNCHANGED <<dbVars, rtVars, opVars, stopVars, frameVars>>

\* The drain, destroy and stop phases reach one runtime, referenced or not.
CloseStops(r) ==
    /\ closeAt \in {"destroy", "pending"}
    /\ r \in closeQ
    /\ closeQ' = closeQ \ {r}
    /\ rtState' = [rtState EXCEPT ![r] = "stopped"]
    /\ UNCHANGED <<closing, closeAt, pendingStops, cleanup, refs>>
    /\ UNCHANGED <<dbVars, mgrVars, rtVars, opVars, frameVars, sessVars, drainVars>>

\* stopPendingRuntimeProcesses takes the whole map of pending stops.
CloseTakesPending ==
    /\ closeAt = "destroy"
    /\ closeQ = {}
    /\ closeQ' = pendingStops
    /\ pendingStops' = {}
    /\ closeAt' = "pending"
    /\ UNCHANGED <<closing, rtState, cleanup, refs>>
    /\ UNCHANGED <<dbVars, mgrVars, rtVars, opVars, frameVars, sessVars, drainVars>>

\* mutant: Close does not wait for the cleanup goroutines.
CloseEndsEarly ==
    /\ closeAt = "pending"
    /\ closeQ = {}
    /\ closeAt' = "done"
    /\ UNCHANGED <<closing, closeQ, refs>>
    /\ UNCHANGED <<dbVars, mgrVars, rtVars, opVars, stopVars, frameVars, sessVars, drainVars>>
\* runtimeCleanupWG.Wait returns, and with it close.
CloseEnds ==
    /\ closeAt = "pending"
    /\ closeQ = {}
    /\ cleanup = {}
    /\ closeAt' = "done"
    /\ UNCHANGED <<closing, closeQ, refs>>
    /\ UNCHANGED <<dbVars, mgrVars, rtVars, opVars, stopVars, frameVars, sessVars, drainVars>>

-----------------------------------------------------------------------------
ConnStep(c) ==
    \/ StartSession(c)
    \/ EnterCore(c)
    \/ CoreReturns(c)
    \/ FinishSession(c)
    \/ ConnectionEnds(c)
    \/ \E p \in Plugins :
          \/ SkipHandler(c, p)
          \/ ReserveHandler(c, p)
          \/ InvokeHandler(c, p)
          \/ ClaimContinuation(c, p, "run")
          \/ ClaimContinuation(c, p, "core")
          \/ ClaimWithoutStream(c, p)
          \/ HandlerReturns(c, p)
          \/ ReleaseHandler(c, p)
          \/ LeaveHandler(c, p)
          \/ FinishParticipant(c, p)

\* The steps an operation takes once it holds m.mu.
OperationStep ==
    \/ EnableCommits
    \/ EnableFails
    \/ \E p \in Plugins, g \in Gens :
          \/ ReconcileSkips(p, g)
          \/ ReconcileForgets(p, g)
          \/ ReconcileReuses(p, g)
          \/ \E r \in Runtimes, usable \in BOOLEAN : ReconcileStarts(p, g, r, usable)
    \/ ReconcileCollects
    \/ \E r \in Runtimes : Supersede(r) \/ RetireRuntime(r)
    \/ \E p \in Plugins : RemovePlugin(p)
    \/ Publish
    \/ RuntimeDestroyed
    \/ EndOperation

AdminStep ==
    \/ \E p \in Plugins :
          \/ \E on \in BOOLEAN : SetDesired(p, on)
          \/ ReloadConfig(p)
          \/ EnableReuses(p)
          \/ LoadForgets(p)
          \/ \E r \in Runtimes : Load(p, r) \/ EnableStarts(p, r)
          \/ Withdraw(p)
          \/ Quarantine(p)
          \/ Isolate(p)
    \/ ReconcileBegins

CloseStep ==
    \/ CloseTakes
    \/ \E r \in Runtimes : CloseStops(r)
    \/ CloseTakesPending
    \/ CloseEnds

Next ==
    \/ \E c \in Conns : Accept(c) \/ ConnStep(c)
    \/ \E r \in Runtimes : CleanupStops(r)
    \/ OperationStep
    \/ AdminStep
    \/ CloseBegins
    \/ CloseStep

Spec == Init /\ [][Next]_vars

\* Connections that have begun end (the premise of a drain), a goroutine the Go
\* runtime schedules runs, an operation under m.mu goes on to its end, and so does
\* a Close.  Nobody has to call the admin operations, or Close.
Fairness ==
    /\ \A c \in Conns : WF_vars(ConnStep(c))
    /\ \A r \in Runtimes : WF_vars(CleanupStops(r))
    /\ WF_vars(OperationStep)
    /\ WF_vars(CloseStep)

FairSpec == Spec /\ Fairness

-----------------------------------------------------------------------------
(* Properties.                                                              *)

\* The invocations that hold a reservation of runtime r.
Holders(r) == {h \in Conns \X Plugins : stage[h[1]][h[2]] \in Holding /\ snap[h[1]][h[2]] = r}

\* handler.runtimeRefs counts exactly the invocations between
\* reserveUpstreamHandler and releaseUpstreamHandler, on every path out of run.
ReferencesCounted == \A r \in Runtimes : refs[r] = Cardinality(Holders(r))

\* No retirement (Load, Enable, Disable, Delete, Reconcile, a rollback, a deferred
\* stop) takes a runtime away under a handler invocation that found it running;
\* only Close does, by design.
InvocationPinsRuntime ==
    \A c \in Conns, p \in Plugins :
        (stage[c][p] \in Holding /\ entered[c][p] = "started" /\ ~closing)
            => rtState[snap[c][p]] = "started"

\* The shape of a chain walk that the reference count rests on: invocations exist
\* only inside a session, at positions already visited, of runtimes; a continuation
\* is on offer only while its handler executes; and an operation between loadLocked
\* and markEnabled has a plugin.
ChainShape ==
    /\ \A c \in Conns, p \in Plugins :
          /\ pc[c] \notin {"run", "handler", "core"} => stage[c][p] = "idle"
          /\ stage[c][p] # "idle" => p <= at[c] /\ snap[c][p] \in Runtimes
          /\ flow[c][p] = "available" => stage[c][p] = "invoked"
    /\ phase \in {"enable", "reenable"} => target \in Plugins

\* Whoever is carrying out a stop does so on a runtime already taken out of
\* service, or for Close.
StopShape ==
    /\ \A r \in cleanup : rtState[r] \in {"stopping", "stopped"}
    /\ destroying # NoRuntime => rtState[destroying] \in {"stopping", "stopped"}
    /\ closeAt # "open" => closing

\* The inductive invariant behind InvocationPinsRuntime.
PinInvariant ==
    /\ TypeOK
    /\ ChainShape
    /\ ReferencesCounted
    /\ StopShape
    /\ InvocationPinsRuntime

\* A runtime that an upgrade superseded (markLoadedRuntimeDrainingLocked) is never
\* entered again once its stop has been decided, however old the snapshot that
\* still names it: handler.draining is set before the last reference test.
SupersededNeverReentered ==
    \A r \in hdraining : rtState[r] \in {"stopping", "stopped"} => Holders(r) = {} \/ closing

\* What a connection is inside of, at a position of its chain.
Using == [u \in Conns \X Plugins |->
            IF stage[u[1]][u[2]] \in Holding THEN snap[u[1]][u[2]] ELSE NoRuntime]

Pool == INSTANCE RuntimePool WITH
            Users <- Conns \X Plugins, life <- rtState, superseded <- hdraining, using <- Using

\* The manager keeps the promise of RuntimePool: reserveUpstreamHandler tests the
\* drain marks in the section that counts the reservation, and whoever decides a
\* stop does so in the section that found no reservation left.
RuntimesServed == Pool!PoolSpec

\* A continuation runs only inside the invocation it was given to: never after
\* releaseUpstreamHandler has given the runtime free (claim, handlerReturned, wait).
ContinuationInsideInvocation ==
    \A c \in Conns, p \in Plugins :
        flow[c][p] \in ContinuationRunning => stage[c][p] \in {"invoked", "returned"}

\* The places a runtime that was started can be found in.
Places(r) ==
    {<<"loaded", p>> : p \in {q \in Plugins : loaded[q] = r}}
        \cup {<<"displaced", p>> : p \in {q \in Plugins : r \in displaced[q]}}
        \cup {<<"op", 1>> : x \in {r} \cap oldQ}
        \cup {<<"op", 2>> : x \in {r} \cap retiring}
        \cup {<<"op", 3>> : x \in {r} \cap {replaced}}
        \cup {<<"stop", 1>> : x \in {r} \cap pendingStops}
        \cup {<<"stop", 2>> : x \in {r} \cap cleanup}
        \cup {<<"stop", 3>> : x \in {r} \cap {destroying}}
        \cup {<<"stop", 4>> : x \in {r} \cap closeQ}

\* A started runtime has exactly one owner that will stop it, and a stopped one
\* none: the manager neither forgets a runtime nor stops it twice, whatever
\* operations, drains and shutdowns overlap.  Three places let a runtime go without
\* stopping it, and nothing else does: the isolation of a crashed plugin, the
\* crash-loop branch of loadLocked, and a retirement whose key is taken by an
\* earlier one (the instance id is empty).  Such a runtime has no owner.
OneOwner ==
    \A r \in Runtimes :
        Cardinality(Places(r)) =
            IF rtState[r] \in {"started", "stopping"} /\ r \notin dropped THEN 1 ELSE 0

\* The identity of the runtime is still the key its handlers carry: no config
\* reload has moved it since it was loaded.
KeyKept(r) == recGen[r] = keyGen[r]

\* A parked runtime that was never reloaded in place is never stranded: some
\* connection still has to come back and look up its key (the release or the end of
\* the session).  (What happens to a reloaded one is EveryParkedRuntimeStops.)
PendingStopAwaited ==
    \A r \in pendingStops : KeyKept(r) =>
        \E c \in Conns, p \in Plugins :
            /\ snap[c][p] # NoRuntime
            /\ stage[c][p] # "idle" \/ p \in parts[c]
            /\ HandlerKey(snap[c][p]) = Identity(r)

\* ForceCloseDraining reaches every session that a superseded runtime takes part in,
\* unless that runtime was reloaded in place: markLoadedRuntimeDrainingLocked looks
\* the sessions up by loadedRuntimeIdentity, whose generation a reload has moved away
\* from the one their handlers carry.
SupersededSessionsMarked ==
    \A c \in sessions : \A p \in parts[c] :
        (snap[c][p] \in hdraining /\ KeyKept(snap[c][p])) => p \in sdrain[c]

\* When Close has returned, the only runtimes left running are those the manager had
\* let go of (see OneOwner): Close has no list they are in.
CloseStopsEverything ==
    closeAt = "done" => \A r \in Runtimes : rtState[r] \in {"free", "stopped"} \/ r \in dropped

\* A deferred retirement is carried out once the connections have ended, unless the
\* runtime was reloaded in place or another one took its key.
ParkedRuntimeStops ==
    \A r \in Runtimes :
        (r \in pendingStops /\ KeyKept(r)) ~> (rtState[r] = "stopped" \/ r \in dropped)

\* docs/plugin-system-design.md 773 and the m07 plan 27: a replaced runtime is kept
\* until its last session has ended and then stopped, a reloaded one too.
EveryParkedRuntimeStops ==
    \A r \in Runtimes : (r \in pendingStops) ~> (rtState[r] = "stopped" \/ r \in dropped)

\* docs/plugin-system-design.md 4815, 4818: a connection no longer enters a plugin
\* instance after it was destroyed.
NoUseAfterDestroy ==
    \A c \in Conns, p \in Plugins :
        (stage[c][p] = "invoked" /\ ~closing) => rtState[snap[c][p]] # "stopped"
=============================================================================
