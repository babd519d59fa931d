--------------------------- MODULE BackgroundTasks ---------------------------
(***************************************************************************)
(* The background task of one plugin and the lease that lets one node run  *)
(* it (internal/pluginmanager/operations.go, the lease statements of       *)
(* repository.go).  A runtime p is a PluginOperations: an upgrade gives a  *)
(* node a second one, and both use the node's name as the owner of the     *)
(* lease.  A goroutine of launchTask is a slot of its runtime: the body of *)
(* runTask runs in it, once or in the scheduler's loop.                    *)
(***************************************************************************)
EXTENDS Naturals, FiniteSets

CONSTANTS
    Nodes,      \* gateway processes sharing the database
    Runtimes,   \* PluginOperations of the plugin, over all nodes
    NodeOf,     \* the node of each runtime
    Administered, \* nodes whose tasks are stopped, triggered... (a bound)
    Slots,      \* goroutines a runtime may have at a time (a bound)
    SpecOf,     \* the TaskSpec in the manifest of each runtime
    TTL,        \* taskLeaseTTL
    MaxTime,    \* bound of the clock
    MaxStops,   \* bound of the stops a manager performs
    MaxCrashes, \* bound of the process deaths
    MaxRuns,    \* bound of the timers and triggers that start a run
    NoLease,    \* no row in plugin_task_leases
    None

ASSUME BackgroundTasksAssumption ==
    /\ NodeOf \in [Runtimes -> Nodes]
    /\ Administered \subseteq Nodes
    /\ TTL \in Nat \ {0}
    /\ MaxTime \in Nat /\ MaxStops \in Nat /\ MaxCrashes \in Nat
    /\ MaxRuns \in Nat
    /\ None \notin Runtimes /\ None \notin Slots
    /\ NoLease \notin [owner : Nodes, exp : Nat]
    /\ SpecOf \in [Runtimes ->
        [policy : {"per_node", "singleton", "sharded"}, runOnStart : BOOLEAN,
         periodic : BOOLEAN, attempts : Nat \ {0}]]

VARIABLES
    now,        \* Unix seconds
    lease,      \* the row of the task in plugin_task_leases
    stopped,    \* PluginOperations.stopped; its taskCtx is cancelled with it
    on,         \* taskRuntime.schedulerOn
    running,    \* taskRuntime.running
    cancel,     \* taskRuntime.cancel: the slot whose context it cancels
    slot,       \* the goroutines
    active,     \* Operations.plugins of each node
    closed,     \* Operations.closed of each node
    mgr,        \* where the manager of each node stands in stopTasks
    gcSeen,     \* RunGC listed the row as expired and has not deleted it yet
    undercut,   \* a live row was deleted under the run that holds it
    stops, crashes, runs

memory == <<stopped, on, running, cancel, slot, active, closed, mgr>>
taskVars == <<now, lease, memory, gcSeen, undercut, stops, crashes, runs>>

Lease == [owner : Nodes, exp : Nat]
Pc == {"off", "wait", "run", "acquire", "setup", "body", "finish"}
Goroutine == [pc : Pc, loop : BOOLEAN, attempt : Nat, canceled : BOOLEAN,
              leased : BOOLEAN, exp : Nat]

Off == [pc |-> "off", loop |-> FALSE, attempt |-> 0, canceled |-> FALSE,
        leased |-> FALSE, exp |-> 0]

NoStop == [op |-> "idle", rt |-> None]

taskLeaseRequired(policy) == policy \in {"singleton", "sharded"}

ctxDone(p) == stopped[p] \/ closed[NodeOf[p]]

InBody(p, s) == slot[p][s].pc = "body"

Busy(p) == {s \in Slots : slot[p][s].pc # "off"}

-----------------------------------------------------------------------------
(* The statements on plugin_task_leases.                                   *)

expiresAt == now + TTL

\* The transaction takes a row that is absent, expired or the node's own.
AcquireTaskLease(n) ==
    lease # NoLease => lease.owner = n \/ lease.exp <= now

RenewAnyLease(n) ==
    lease # NoLease /\ lease.exp > now

RenewTaskLease(n) ==
    lease # NoLease /\ lease.owner = n /\ lease.exp > now

\* DELETE ... AND owner_node_id = ?: whatever its expiry.
ReleaseTaskLease(n) ==
    IF lease # NoLease /\ lease.owner = n THEN NoLease ELSE lease

\* A run that still counts on its lease.
Holds(p, s) ==
    /\ slot[p][s].pc \in {"setup", "body"}
    /\ slot[p][s].leased /\ ~slot[p][s].canceled /\ slot[p][s].exp > now

-----------------------------------------------------------------------------
TaskInit ==
    /\ now = 0 /\ lease = NoLease
    /\ stopped = [p \in Runtimes |-> FALSE]
    /\ on = [p \in Runtimes |-> FALSE]
    /\ running = [p \in Runtimes |-> FALSE]
    /\ cancel = [p \in Runtimes |-> None]
    /\ slot = [p \in Runtimes |-> [s \in Slots |-> Off]]
    /\ active = [n \in Nodes |-> None]
    /\ closed = [n \in Nodes |-> FALSE]
    /\ mgr = [n \in Nodes |-> NoStop]
    /\ gcSeen = FALSE /\ undercut = FALSE
    /\ stops = 0 /\ crashes = 0 /\ runs = 0

(* The goroutines: runTask.                                                *)

\* runTask returned: the loop goes back to its timer, a single run ends.
Return(g) == IF g.loop THEN [Off EXCEPT !.pc = "wait", !.loop = TRUE] ELSE Off

\* launchTask: a goroutine is added under taskLifecycleMu unless the runtime
\* has stopped or the node's operations have closed.
launchTask(p, s) ==
    slot[p][s].pc = "off" /\ ~ctxDone(p)

\* The loop's timer fired, or its context is done, or the scheduler is off.
TimerFires(p, s) ==
    /\ slot[p][s].pc = "wait"
    /\ IF ctxDone(p) \/ ~on[p]
       THEN slot' = [slot EXCEPT ![p][s] = Off] /\ UNCHANGED runs
       ELSE /\ runs < MaxRuns /\ runs' = runs + 1
            /\ slot' = [slot EXCEPT ![p][s].pc = "run"]
    /\ UNCHANGED <<now, lease, stopped, on, running, cancel, active, closed,
                   mgr, gcSeen, undercut, stops, crashes>>

\* The test under the task's lock: stopped, or a run is on its way.
MayNotRun(p) == stopped[p] \/ running[p]

\* runTask up to its first unlock.
runTask(p, s) ==
    /\ slot[p][s].pc = "run"
    /\ IF MayNotRun(p)
       THEN /\ slot' = [slot EXCEPT ![p][s] = Return(@)]
            /\ UNCHANGED running
       ELSE /\ running' = [running EXCEPT ![p] = TRUE]
            /\ slot' = [slot EXCEPT ![p][s].pc =
                    IF taskLeaseRequired(SpecOf[p].policy) THEN "acquire" ELSE "setup"]
    /\ UNCHANGED <<now, lease, stopped, on, cancel, active, closed, mgr, 
                   gcSeen, undercut, stops, crashes, runs>>

\* The lease is taken, held by another node, or the database fails.
acquireLease(p, s) ==
    /\ slot[p][s].pc = "acquire"
    /\ \/ /\ AcquireTaskLease(NodeOf[p])
          /\ lease' = [owner |-> NodeOf[p], exp |-> expiresAt]
          /\ slot' = [slot EXCEPT ![p][s] =
                [@ EXCEPT !.pc = "setup", !.leased = TRUE, !.exp = expiresAt]]
          /\ UNCHANGED running
       \/ /\ slot' = [slot EXCEPT ![p][s] = Return(@)]
          /\ running' = [running EXCEPT ![p] = FALSE]
          /\ UNCHANGED lease
    /\ UNCHANGED <<now, stopped, on, cancel, active, closed, mgr, 
                   gcSeen, undercut, stops, crashes, runs>>

FreshContext(p) == FALSE

\* runCtx is derived from the runtime's context, whatever happened to it
\* since the test.
runCtx(p) == ctxDone(p)

\* runCtx, the cancel function of the task and the first attempt.
setupRun(p, s) ==
    /\ slot[p][s].pc = "setup"
    /\ slot' = [slot EXCEPT ![p][s] =
            [@ EXCEPT !.pc = "body", !.canceled = runCtx(p), !.attempt = 1]]
    /\ cancel' = [cancel EXCEPT ![p] = s]
    /\ UNCHANGED <<now, lease, stopped, on, running, active, closed, mgr, 
                   gcSeen, undercut, stops, crashes, runs>>

\* The task's function returned; it is tried again after an error unless
\* its context is done or the attempts are used up.
attemptReturns(p, s) ==
    /\ InBody(p, s)
    /\ \/ slot' = [slot EXCEPT ![p][s].pc = "finish"]
       \/ /\ slot[p][s].attempt < SpecOf[p].attempts /\ ~slot[p][s].canceled
          /\ slot' = [slot EXCEPT ![p][s].attempt = @ + 1]
    /\ UNCHANGED <<now, lease, stopped, on, running, cancel, active, closed, mgr,
                   gcSeen, undercut, stops, crashes, runs>>

LeaseMissed(g) == g

LeaseLost(g) == [g EXCEPT !.canceled = TRUE]

\* The renewer, from half of the TTL on: it extends the row, or finds it
\* lost (or cannot reach the database) and cancels the run.
renewTaskLease(p, s) ==
    /\ InBody(p, s) /\ slot[p][s].leased /\ ~slot[p][s].canceled
    /\ now + TTL >= slot[p][s].exp + TTL \div 2
    /\ \/ /\ RenewTaskLease(NodeOf[p])
          /\ lease' = [lease EXCEPT !.exp = expiresAt]
          /\ slot' = [slot EXCEPT ![p][s].exp = expiresAt]
       \/ /\ slot' = [slot EXCEPT ![p][s] = LeaseLost(@)]
          /\ UNCHANGED lease
    /\ UNCHANGED <<now, stopped, on, running, cancel, active, closed, mgr, 
                   gcSeen, undercut, stops, crashes, runs>>

\* The run is over: the lease is released (the statement may fail, its error
\* is dropped) and the task is free for the next one.
finishTaskRun(p, s) ==
    /\ slot[p][s].pc = "finish"
    /\ \/ /\ slot[p][s].leased
          /\ lease' = ReleaseTaskLease(NodeOf[p])
          /\ undercut' = (undercut \/ \E q \in Runtimes, t \in Slots :
                /\ Holds(q, t) /\ NodeOf[q] = NodeOf[p] /\ lease # lease')
       \/ UNCHANGED <<lease, undercut>>
    /\ running' = [running EXCEPT ![p] = FALSE]
    /\ cancel' = [cancel EXCEPT ![p] = None]
    /\ slot' = [slot EXCEPT ![p][s] = Return(@)]
    /\ UNCHANGED <<now, stopped, on, active, closed, mgr, gcSeen,
                   stops, crashes, runs>>

-----------------------------------------------------------------------------
(* The manager of a node; its operations run one after the other.          *)

TaskManagerIdle(n) == mgr[n].op = "idle"

Cancelled(p, goroutines) ==
    [s \in Slots |-> IF goroutines[s].pc = "body"
                     THEN [goroutines[s] EXCEPT !.canceled = TRUE] ELSE goroutines[s]]

\* startTask does nothing when the scheduler is on.
startTask(p) == ~closed[NodeOf[p]] /\ ~on[p]

\* ActivateRuntime: a stopped runtime gets a new context, and startTask
\* launches the run on start and the loop unless the scheduler is on.  The
\* manager has stopped the tasks of the runtime that it replaces.
ActivateRuntime(p) ==
    /\ TaskManagerIdle(NodeOf[p])
    /\ active[NodeOf[p]] \notin {None, p} => stopped[active[NodeOf[p]]]
    /\ active' = [active EXCEPT ![NodeOf[p]] = p]
    /\ stopped' = [stopped EXCEPT ![p] = FALSE]
    /\ IF ~startTask(p)
       THEN UNCHANGED <<on, slot>>
       ELSE /\ on' = [on EXCEPT ![p] = TRUE]
            /\ \E once, loop \in Slots :
                /\ once # loop
                /\ SpecOf[p].runOnStart => slot[p][once].pc = "off"
                /\ SpecOf[p].periodic => slot[p][loop].pc = "off"
                /\ slot' = [slot EXCEPT ![p] = [s \in Slots |->
                    IF s = once /\ SpecOf[p].runOnStart THEN [Off EXCEPT !.pc = "run"]
                    ELSE IF s = loop /\ SpecOf[p].periodic
                    THEN [Off EXCEPT !.pc = "wait", !.loop = TRUE]
                    ELSE slot[p][s]]]
    /\ UNCHANGED <<now, lease, running, cancel, closed, mgr, gcSeen, undercut,
                   stops, crashes, runs>>

\* stopTasks under taskLifecycleMu: every context of the runtime is done.
stopTasks(p) ==
    /\ TaskManagerIdle(NodeOf[p]) /\ stops < MaxStops
    /\ stopped' = [stopped EXCEPT ![p] = TRUE]
    /\ slot' = [slot EXCEPT ![p] = Cancelled(p, @)]
    /\ mgr' = [mgr EXCEPT ![NodeOf[p]] = [op |-> "mark", rt |-> p]]
    /\ stops' = stops + 1
    /\ UNCHANGED <<now, lease, on, running, cancel, active, closed, gcSeen,
                   undercut, crashes, runs>>

\* The scheduler goes off under the task's own lock.
stopMarks(n) ==
    LET p == mgr[n].rt IN
    /\ mgr[n].op = "mark"
    /\ on' = [on EXCEPT ![p] = FALSE]
    /\ cancel' = [cancel EXCEPT ![p] = None]
    /\ slot' = IF cancel[p] \in Slots
               THEN [slot EXCEPT ![p][cancel[p]].canceled = TRUE] ELSE slot
    /\ mgr' = [mgr EXCEPT ![n].op = "wait"]
    /\ UNCHANGED <<now, lease, stopped, running, active, closed, gcSeen,
                   undercut, stops, crashes, runs>>

\* The wait for the goroutines ends with the last one or with the timeout.
stopReturns(n) ==
    /\ mgr[n].op = "wait"
    /\ mgr' = [mgr EXCEPT ![n] = NoStop]
    /\ UNCHANGED <<now, lease, stopped, on, running, cancel, slot, active, closed,
                   gcSeen, undercut, stops, crashes, runs>>

\* Operations.Close: closed, the lifecycle context, then the active tasks.
CloseOperations(n) ==
    /\ TaskManagerIdle(n) /\ ~closed[n]
    /\ closed' = [closed EXCEPT ![n] = TRUE]
    /\ stopped' = [p \in Runtimes |-> stopped[p] \/ p = active[n]]
    /\ slot' = [p \in Runtimes |->
                    IF NodeOf[p] = n THEN Cancelled(p, slot[p]) ELSE slot[p]]
    /\ mgr' = IF active[n] = None THEN mgr
              ELSE [mgr EXCEPT ![n] = [op |-> "mark", rt |-> active[n]]]
    /\ UNCHANGED <<now, lease, on, running, cancel, active, gcSeen,
                   undercut, stops, crashes, runs>>

(* Requests of the administrator, not serialised with the manager.         *)

TriggerTask(n) ==
    LET p == active[n] IN
    /\ p # None
    /\ \E s \in Slots :
        /\ launchTask(p, s) /\ runs < MaxRuns
        /\ slot' = [slot EXCEPT ![p][s] = [Off EXCEPT !.pc = "run"]]
    /\ runs' = runs + 1
    /\ UNCHANGED <<now, lease, stopped, on, running, cancel, active, closed, mgr,
                   gcSeen, undercut, stops, crashes>>

CancelTask(n) ==
    LET p == active[n] IN
    /\ p # None /\ cancel[p] # None
    /\ slot' = [slot EXCEPT ![p][cancel[p]].canceled = TRUE]
    /\ UNCHANGED <<now, lease, stopped, on, running, cancel, active, closed, mgr,
                   gcSeen, undercut, stops, crashes, runs>>

(* The garbage collector lists the leases, then deletes the expired ones.  *)

ListTaskLeases ==
    /\ ~gcSeen /\ lease # NoLease /\ lease.exp <= now
    /\ gcSeen' = TRUE
    /\ UNCHANGED <<now, lease, memory, undercut, stops, crashes, runs>>

DeleteTaskLease ==
    /\ gcSeen
    /\ gcSeen' = FALSE
    /\ lease' = NoLease
    /\ undercut' = (undercut \/ \E p \in Runtimes, s \in Slots : Holds(p, s))
    /\ UNCHANGED <<now, memory, stops, crashes, runs>>

\* The process dies; the row stays.
CrashNode(n) ==
    LET here == {p \in Runtimes : NodeOf[p] = n} IN
    /\ crashes < MaxCrashes /\ active[n] # None
    /\ crashes' = crashes + 1
    /\ stopped' = [p \in Runtimes |-> p \notin here /\ stopped[p]]
    /\ on' = [p \in Runtimes |-> p \notin here /\ on[p]]
    /\ running' = [p \in Runtimes |-> p \notin here /\ running[p]]
    /\ cancel' = [p \in Runtimes |-> IF p \in here THEN None ELSE cancel[p]]
    /\ slot' = [p \in Runtimes |-> IF p \in here THEN [s \in Slots |-> Off] ELSE slot[p]]
    /\ active' = [active EXCEPT ![n] = None]
    /\ closed' = [closed EXCEPT ![n] = FALSE]
    /\ mgr' = [mgr EXCEPT ![n] = NoStop]
    /\ UNCHANGED <<now, lease, gcSeen, undercut, stops, runs>>

TaskTick ==
    /\ now < MaxTime
    /\ now' = now + 1
    /\ UNCHANGED <<lease, memory, gcSeen, undercut, stops, crashes, runs>>

GoroutineStep(p, s) ==
    \/ TimerFires(p, s) \/ runTask(p, s) \/ acquireLease(p, s) \/ setupRun(p, s)
    \/ attemptReturns(p, s) \/ renewTaskLease(p, s) \/ finishTaskRun(p, s)

TaskNext ==
    \/ \E p \in Runtimes, s \in Slots : GoroutineStep(p, s)
    \/ \E p \in Runtimes : ActivateRuntime(p)
    \/ \E p \in Runtimes : NodeOf[p] \in Administered /\ stopTasks(p)
    \/ \E n \in Administered :
        \/ stopMarks(n) \/ stopReturns(n) \/ CloseOperations(n)
        \/ TriggerTask(n) \/ CancelTask(n) \/ CrashNode(n)
    \/ ListTaskLeases \/ DeleteTaskLease \/ TaskTick

TaskSpec == TaskInit /\ [][TaskNext]_taskVars

\* A goroutine that can move does; the task's function is only known to
\* return once its context is done.
TaskStep(p, s) ==
    \/ TimerFires(p, s) \/ runTask(p, s) \/ acquireLease(p, s) \/ setupRun(p, s)
    \/ slot[p][s].canceled /\ attemptReturns(p, s)
    \/ finishTaskRun(p, s)

TaskFairSpec ==
    /\ TaskSpec /\ WF_taskVars(TaskTick)
    /\ \A p \in Runtimes, s \in Slots : WF_taskVars(TaskStep(p, s)) /\ WF_taskVars(renewTaskLease(p, s))

-----------------------------------------------------------------------------
\* Types of the lease row, of the runtimes and of their goroutines.
TaskTypeOK ==
    /\ now \in Nat /\ lease \in Lease \cup {NoLease}
    /\ stopped \in [Runtimes -> BOOLEAN] /\ on \in [Runtimes -> BOOLEAN]
    /\ running \in [Runtimes -> BOOLEAN]
    /\ cancel \in [Runtimes -> Slots \cup {None}]
    /\ slot \in [Runtimes -> [Slots -> Goroutine]]
    /\ active \in [Nodes -> Runtimes \cup {None}] /\ closed \in [Nodes -> BOOLEAN]
    /\ mgr \in [Nodes -> {NoStop} \cup [op : {"mark", "wait"}, rt : Runtimes]]
    /\ gcSeen \in BOOLEAN /\ undercut \in BOOLEAN
    /\ stops \in Nat /\ crashes \in Nat /\ runs \in Nat

\* A run that counts on its lease has the row behind it, for at least as
\* long as it believes (AcquireTaskLease, RenewTaskLease), unless a row was
\* deleted under a live run (DeleteTaskLease of an old list, or the release
\* of another runtime of the node).
LeaseBacksRun ==
    ~undercut => \A p \in Runtimes, s \in Slots : Holds(p, s) =>
        /\ lease # NoLease
        /\ lease.owner = NodeOf[p] /\ lease.exp >= slot[p][s].exp

\* Every goroutine of a closed node ends (Operations.Close).
ClosedNodeDrains ==
    \A n \in Nodes : closed[n] ~>
        (~closed[n] \/ \A p \in Runtimes : NodeOf[p] = n => Busy(p) = {})

\* A run whose row went to another node, or away, is cancelled or ends: its
\* renewer notices (renewTaskLease).
LostLeaseEndsRun ==
    \A p \in Runtimes, s \in Slots :
        LET Lost == /\ InBody(p, s) /\ slot[p][s].leased
                    /\ (lease = NoLease \/ lease.owner # NodeOf[p])
        IN  (Lost /\ slot[p][s].exp <= MaxTime) ~> ~Lost
=============================================================================
