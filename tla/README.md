# A verification of mc-gateway

mc-gateway is a Minecraft gateway: it accepts connections (TCP, QUIC, KCP,
WebSocket), looks up a backend and relays bytes.  Around that core is a plugin
platform: plugins are uploaded or built from source, pass a release gate, run in
process, in a child process, in a sandbox or as WASM, and take over connections
on the hot path.  Nearly all concurrency, failure handling and state of the
program is in that platform (`internal/pluginmanager`), and most of this project
is about it; the rest is the edge of the gateway: the shared port, the routes and
the accounts of the administration.

## 1. Inventory

| Component | State it keeps | Operations | What is hard | What makes it correct | Module |
| --- | --- | --- | --- | --- | --- |
| Takeover dispatch and runtime retirement (`manager.go`, `manager_close.go`) | `loaded`, `displaced`, dispatch snapshot, drain marks, reference counts, pending stops | `HandleConnection`, `Next`/`Core`, `Load`, `Enable`, `Disable`, `Delete`, `Reconcile`, quarantine, isolation of a crashed plugin, `Close` | the hot path reads the snapshot with no lock; retirement is finished by whichever connection leaves last; three branches let a runtime go without retiring it | no runtime is stopped under an invocation; every runtime has one owner that stops it, but for those the three branches let go | `TakeoverRetirement`, `RuntimePool` |
| Connection sessions and streams (`manager.go`) | participants, streams, force-close flag | adopt a stream, `ForceCloseDraining`, close | a stream is adopted while a closing copies the list | a force-closed session has no open stream | `SessionStreams` |
| Connection path, extension points (`extensions.go`, `tcp.go`) | extension snapshot, route cache | filters, rewrites, status, route providers | every stage loads the snapshot anew | no bytes pass a filter that was there all the time | `ConnectionPath` |
| Desired and runtime state (`manager.go`, `repository.go`) | row of `plugins`, config snapshots, node states | `UpsertDesired`, rollback, `Enable`, reload, `Reconcile` | rows read before `m.mu` and used after it | the row claims only what a generation asked for | `DesiredState`, `DesiredRegister` |
| Tasks and leases (`operations.go`) | task state, `plugin_task_leases` | scheduler, trigger, cancel, renew, stop, GC | lease expiry against a slow holder; stop against start | a run that counts on its lease has one; a closed node drains | `BackgroundTasks` |
| Events (`operations.go`) | two queues, dead letters in memory and in the table | emit, deliver, replay, drop | failures while an administrator replays; two nodes | no failed delivery is lost uncounted | `EventDelivery` |
| Plugin storage (`operations.go`) | `plugin_data`, files, diagnostics | put, write, delete, GC | usage read before the write; row and file apart | quota | `PluginStore` |
| External clients, exporters (`operations.go`) | failure count, open window, sink | request, finish, export | refusals counted as failures | the circuit closes again | `ExternalClient` |
| Source builds, artifacts, GC (`builder.go`, `artifact.go`, `gc.go`) | build rows, artifact rows, files | create, run, cancel, retry, upload, collect | cancel racing finish; references read before deletion; a client that leaves; files rewritten in place by several writers | a build moves along its arrows and ends; no referenced file is deleted; a row has its files | `SourceBuild`, `ArtifactStore` |
| Plugin host (`plugin_host_supervisor.go`, `plugin_host.go`) | processes, sockets, metadata, crash row; takeover sessions | start, sweep, crash, stop; open, wait, complete | exit racing stop; a sweep in a shared directory; a decision across two processes | the sweep spares its own hosts; a takeover settles | `HostProcesses`, `HostTakeover` |
| Sandbox runtime (`sandbox_runtime.go`) | child process, control requests, streams, secrets | start, init, register, dry run, call, stop, crash, rotate | three goroutines see the end of one process; a removal may fail | nothing is removed after Stop; an old secret expires | `SandboxRuntime`, `SandboxSecrets` |
| WASM runtime (`wasm_runtime.go`) | instance state, active calls, traps | dispatch, trap, reload, drain, stop | the quarantine callback takes `m.mu` | drained means idle; a trapping module leaves the dispatch | `WasmRuntime` |
| Ingress (`ingress_lifecycle.go`) | listeners by plugin, reserved ports | start, drain, disable, close | listening happens outside the lock | no open listener is forgotten | `IngressListeners` |
| Governance (`governance.go`) | reviews, overrides, advisories, grades | gate, scan, quarantine | the gate reads tables that others write | what is published was reviewed; what is hit is withdrawn | `ReleaseGate`, `MiddlewareOrder` |
| Promotion, repositories (`future.go`, CLI) | bundles, index cache, imports | check, apply, sync, import, transfer | checks and writes are apart | nothing unchecked is written | `Promotion` |
| Trust roots, keys (`supply_chain_trust.go`, CLI) | `plugin_trust_roots`, key file | rotate, revoke, verify | check and upsert are two statements; truncate and write | a revoked key verifies nothing, unless a rotation overtook the revocation | `TrustStore` |
| Service mode (`future.go`) | `plugin_service_state`, mode of a node | desire, apply, restart | statements and memory move one after the other | no alert means the mode is the desired one | `ServiceMode` |
| Shared port (`tcphttpmux`) | queue, wait group | accept, peek, deliver, serve | the end of Serve against deliveries | every connection has a handler, is closed or is queued | `SharedPort` |
| Admin: accounts, routes | `users`, sessions; `routes`, snapshot | CRUD, login; write, refresh | requests of several steps overlap | an administrator is left; connections follow the table | `AdminAccounts`, `RouteTable` |
| Listeners, HTTP decoding, audit, most of the CLI, SDK, examples | none of their own | | | not modelled (section 8) | |

Components interact through the `Manager`: the front end calls it from one
goroutine per connection; admin handlers call the operations, most of them under
`m.mu`; runtimes call back (trap quarantine, host exit); the database is shared
with other nodes and survives a restart, after which `Reconcile` rebuilds
everything else.  `PROJECT.json` lists the hazards that follow, each at its line,
with the properties that would catch it.

## 2. How the project is organised

A module per component, each with its own variables, initial predicate,
next-state relation and specification.  Components that share no variable are
checked in one run by an MC module in which a behaviour follows one of them,
chosen in the initial state (`part`); the others stay as they are.  `VIEW`
leaves out the variables of the parts that are not followed: they never change
and no property of the followed part reads them.

| MC module | Parts | Runs |
| --- | --- | --- |
| `MCTakeoverRetirement` | `TakeoverRetirement`, `RuntimePool` | `takeover_upgrade`, `takeover_drains`, `reload_strands`, `stale_snapshot_enters` |
| `MCBackgroundTasks` | `BackgroundTasks`: the schedules of the two MC modules below | |
| `MCDesiredState` | `DesiredState`, `DesiredRegister` | `lifecycle` |
| `MCEndings` | tasks, host takeovers, sandbox, gate, WASM, builds, each under its fairness | `endings` |
| `MCComponents` | tasks, builds, artifacts, gate, promotion, trust roots and key file, secrets, mode, middleware order, host processes, path, streams, accounts, routes, port, ingress, events, store, external clients | `components` |
| `MCReleaseGate`; `ExternalClient`, `WasmRuntime`, `SourceBuild`, `TrustStore` themselves | one part | `hit_leaves_dispatch`; `circuit_stays_open`, `trap_during_reload`, `build_left_running`, `revoked_root_returns` |

What is left of the plan: composing `TakeoverRetirement` with `DesiredState` and
`BackgroundTasks` (they meet in `m.mu`), and the expiry of Close's context.  Every
safety property of the passing runs is a theorem as well, and so is the safety half
of most of the liveness properties (section 9).

## 3. Runs

| Run | Instance | Shows |
| --- | --- | --- |
| `takeover_upgrade` | 1 plugin, 2 connections, 2 runtimes with the empty instance id | the pool of runtimes is implemented: stops are decided once, with nobody inside, and a superseded runtime is not entered again; one owner, or let go |
| `takeover_drains` | 1 plugin, 1 connection, 2 runtimes with unique ids, Close, fair | the pin, one-shot continuations, no stranded stop, every session of a superseded runtime marked, a parked runtime is stopped (these three for runtimes that were not reloaded in place), Close leaves nothing running that was not let go |
| `lifecycle` | 2 nodes, 2 requests, 2 artifacts, 3 generations, 4 requests begun, 1 fault | the register is implemented; an enabled row names the artifact its generation asked for; what is published is held by someone who retires it |
| `endings` | one instance of each part, fair; builds with disconnections and restarts | runs without a lease, closed nodes, takeovers, boxes, hit rows, trapping modules and builds come to their end, and builds along their arrows |
| `components` | see below | every other safety property, one part of the system at a time |
| `reload_strands` | as `takeover_drains` | violated: after a reload a parked runtime's key matches no handler |
| `stale_snapshot_enters` | 1 plugin, 1 connection | violated: a destroyed runtime is entered through an old snapshot |
| `circuit_stays_open` | 2 requests, fair ticks | violated: each refusal moves the window |
| `hit_leaves_dispatch` | 1 plugin, 1 notice, fair | violated: a refused Enable marks a published plugin failed, and no scan looks at it again |
| `trap_during_reload` | 2 callers, config.validate, fair | violated: the callback of the trap waits for the lock its own goroutine holds |
| `build_left_running` | 1 request, 1 build, a client that leaves, fair | violated: the row of a build whose client left says running for ever |
| `revoked_root_returns` | 1 key, 2 requests | violated: the upsert of a rotation brings back a root revoked after its check |

The parts of `components`, and what each shows:

| Part | Instance | Property |
| --- | --- | --- |
| tasks | 2 nodes, one of them upgrading from a scheduled task to one that runs on start, 2 goroutines for each runtime, a stop and a crash | `LeaseBacksRun` |
| builds | 1 source, 1 request, 1 build, the collector, disconnections, restarts | `GCKeepsSourcesInFlight` |
| binaries, sources | 2 writers; two uploads and a build of one entry, or uploads of one source | `RowHasItsEntry` |
| gate | 1 plugin of high risk, 2 configurations, 2 requests | `PublishedIsReviewed` |
| promotion | 2 plugins, an exported and an edited bundle, 1 request | `PromotedWasChecked` |
| roots, signing | 2 keys; 2 requests, or 2 commands with validity windows over 2 days | `RevokedIsFinal` |
| secrets | 1 sandbox, 1 resolution, 2 versions, TTL and grace period of 2 | `OldSecretExpires` |
| mode | 2 nodes, 2 overlapping calls | `NoAlertMeansDesired` |
| order | every relation on 3 names | `CycleIsFound` |
| hosts | 2 hosts, 2 gateways after each other, 2 crashes | `SweepSparesSupervised` |
| path | 2 plugins, one failing closed, 1 connection, 3 switches | `FiltersCover` |
| streams | 2 streams beside the client's, 2 closings | `ForcedSessionIsClosed` |
| accounts | 2 users, 2 calls, 2 sessions | `LastAdminStays` |
| routes | 2 writers, 2 hosts | `SnapshotFollowsTable` |
| port | 3 clients, a queue of one | `RoutedBeforeReturn` |
| ingress | 3 sockets, 2 ports | `OpenListenerIsKnown` |
| events | 2 gateways, queues and memory of one | `FailedIsAccounted` |
| store | 4 items of three kinds, 2 callers, the collector | `QuotaHeldAlone` |
| external | 2 requests, 2 sinks | fires the actions `circuit_stays_open` is about |

The violations are disagreements between the documents or comments and the code;
the findings in `PROJECT.json` quote the lines.

Deadlock is not checked: every model rests when its bounds are used up and
nothing is asked for, and so does the gateway.

### Bounds

Every bound is a named constant.  `Max...` constants count operations, faults,
generations, or ticks of a clock; they bound the length of a behaviour.  The
others bound how much happens at once.  Two of a kind are what a race takes: two
requests, two nodes, two closings, two runtimes of an upgrade, two connections
of which one leaves while the other holds.  Three is used where the third makes
the case: three clients for a queue of one, three sockets for a start that
replaces a start that replaced, three names for a cycle beside a name reached twice, three
WASM callers to reach the threshold.  Clocks end after the longest
interval that matters (`TTL`, `Window`, `Backoff`, `Grace`) has passed at least
once.

### Fairness

`endings`, `takeover_drains` and the violations of temporal properties run
under weak fairness of goroutines that have work: a request that has begun goes
on with its next statement, a renewer ticks, a waiter that has something to read
reads it, a process that was told to die dies, the clock goes on.  No fairness
is put on what people and plugins decide: nobody has to send a request, enable a
plugin, connect, or answer.  Where code outside the gateway has to return for
anything to end, the code's own timeout is the reason: builders run under a
context with a timeout, sandbox stops kill after theirs, WASM calls are
interrupted.  The relay of a taken-over connection is taken to end only once the
gateway has closed the connection's stream (`ContinuationStep`): until then the
plugin may keep its end open.  `takeover_drains` assumes that a connection that has begun ends,
which is what a drain presupposes; a client that stays for ever promises nothing.

## 4. TakeoverRetirement

An action is one critical section of `sessionMu`, or one atomic store.  The
operations of the manager hold `m.mu` from start to end, so at most one is in
progress; `phase` says how far it is and `cand`, `replaced`, `rows`, `next`,
`oldQ`, `dropQ`, `retiring`, `destroying` are its local variables.  A connection
is a slot `c`: `snap[c]` is the snapshot it read, `stage[c][p]` the invocation of
plugin `p`'s handler in its chain and `flow[c][p]` the state of that invocation's
continuation.

| Code | Model |
| --- | --- |
| `m.snapshot.Load()` in `HandleConnection` | `Accept` |
| `startConnectionSession` | `StartSession` |
| `reserveUpstreamHandler` false / true | `SkipHandler` / `ReserveHandler` |
| `addConnectionParticipant`, `handler.invoke` | `InvokeHandler` |
| `connectionFlow.Next`, `Core`, `claim` | `ClaimContinuation`, `ClaimWithoutStream` |
| `handlerReturned`, `complete`, `wait` | `HandlerReturns`, `ReturnToCaller`, guard of `ReleaseHandler` |
| `releaseUpstreamHandler` (two critical sections) | `ReleaseHandler`, `LeaveHandler` |
| `finishConnectionSession` (one section, then one per participant) | `FinishSession`, `FinishParticipant`, `ConnectionEnds` |
| `queuePendingRuntimeStopIfDrained`, its goroutine | `QueuePendingStop(Due(key))`, `CleanupStops` |
| `UpsertDesired` without `m.mu` | `SetDesired` |
| `reloadLoadedRuntime` | `ReloadConfig` |
| `loadLocked`: reuse, crash-loop branch, start | `Reusable`, `Forgotten`, `Previous`; `LoadForgets` when nothing is started after it |
| `Load`, `Enable` | `Load`, `EnableReuses`/`EnableStarts`, `EnableCommits`/`EnableFails`, `Supersede`, `Publish` |
| `Disable`, `Delete`; `quarantinePluginLocked` | `Withdraw`; `Quarantine` |
| `quarantineSandboxProcess`, `isolateCrashedPluginHost` | `Isolate` |
| `Reconcile` | `ReconcileBegins`, `ReconcileSkips`/`Reuses`/`Starts`/`Forgets`, `ReconcileCollects`, `Supersede`, `RemovePlugin`, `Publish` |
| `retireLoadedPluginLocked`, `deferRuntimeRetirementIfActive` | `RetireRuntime`, `RuntimeDestroyed`, `EndOperation` |
| `Close`, `close`, `stopPendingRuntimeProcesses` | `CloseBegins`, `CloseTakes`, `CloseStops`, `CloseTakesPending`, `CloseEnds` |

Abstractions.  A plugin has at most one takeover handler (`buildHandlers`), so a
handler is its runtime.  Gates, adapters, configuration checks and the database
may refuse: that is a nondeterministic choice.  The artifact of a runtime is
determined by the generation it was loaded for.  Locks nest as in the code, and
since `m.mu` is held throughout, a store the hot path cannot see before the next
`sessionMu` section is folded into that section.  `RuntimeInstanceID` is unique
for sandbox runtimes and empty for the others (`UniqueInstanceID`).  Any loaded
runtime can be reloaded in place.  Whether a host is in a crash loop, or a sandbox
process has crashed, is a nondeterministic choice.  A crash of the process leaves
only the row, so a restart is `Init` with other generations.

Three places take a runtime out of every list without stopping it, and the ghost
`dropped` collects what they let go: the isolation of a crashed plugin deletes
whatever the plugin has loaded by then, a live successor too (`manager.go:2116`,
`future.go:579`); the crash-loop branch of `loadLocked` (`manager.go:2624`); and a
retirement that parks a second runtime under the key of the first, which the empty
instance id allows (`manager.go:1446`).  `OneOwner` and `CloseStopsEverything`
except what is in `dropped`, and nothing else.  `KeyKept` says that a reload has not
moved the runtime's record away from the key its handlers carry; the properties
about parked runtimes and marked sessions are about those, and `reload_strands` is
about the others.

`View` in `MCTakeoverRetirement` leaves out what no step of `takeover_upgrade`
reads.

`RuntimePool` is what connections may rely on: a runtime is started once, its stop
is decided once and only while nobody is inside, only what was decided is stopped
(Close excepted), and a runtime that an upgrade has superseded is not entered again.
It does not promise that what is entered still runs: `stale_snapshot_enters` shows
why.  The mapping (`Pool` in `TakeoverRetirement`) reads `rtState` as the life of a
runtime, `hdraining` as what is superseded, and takes the users from the invocations
of all connections (`Using`).  `RuntimesServed` is the pool's specification as a
property of `takeover_upgrade`.

Bounds: `Plugins`, `Conns`, `Runtimes`, `MaxGen`.  Two connections are needed for
one to leave while another still holds, two runtimes for an upgrade.  Nested
invocations take two plugins: the runs have one, and every invariant of both runs is
proved for any number (section 9).  A slot is reused
after its connection ends, so the number of connections over time is not bounded.  Deadlock is not checked: when the runtimes and generations are used up
and Close has returned, the model may stop.

Fairness (`FairSpec`): a connection that has begun goes on and ends, which is what
a drain presupposes (a client may stay for ever; then nothing is promised);
goroutines are scheduled; an operation under `m.mu` and a Close go on to their
end.  Nobody has to call an operation.

## 5. SourceBuild

No lock protects this part.  Every admin request is a goroutine and they share the
SQLite database, which `admindb.Open` gives a single connection, and the artifact
directory.  So an action is one SQL statement or one change of the directory,
with the code up to the next one.  `builds` and `artifacts` are the tables
`plugin_builds` and `plugin_artifacts`, `files` the directory, `row` and
`snapshots` what names an artifact, `lastRowID` the connection's
`last_insert_rowid()`; `req[w]` is the local state of a request, with the context
of its HTTP request in `ctx`, and `gc` that of `RunGC`.

| Code | Model |
| --- | --- |
| `UploadArtifact`, `UploadSource`: unpack, then `SaveArtifact` | `StartUpload`, `SaveUpload` |
| `CreateBuild`: INSERT, then `lastInsertID` and `Build` | `InsertBuild`, `ReadRowID` |
| `RunBuild`: read, `MarkBuildRunning`, read again | `StartRun`, `ReadBuild`, `MarkBuildRunning`, `RereadBuild` |
| the builder and `StoreBuiltBinary`; `SaveArtifact`; `FinishBuild` | `BuildSucceeds`/`BuildFails`; `SaveBinary`; `FinishBuild` |
| `CancelBuild`, `RetryBuild` | `CancelBuild`, `StartRetry` |
| `SetDesired`: gate, then `UpsertDesired` in one transaction | `StartDesired`, `UpsertDesired` |
| a blocked supply chain assessment | `Reject` |
| `ReferencedArtifactIDs`: four queries | `GCReadsRow`, `GCReadsSnapshots`, `GCReadsInFlight`, `GCReadsOutputs` |
| `RunGC`: list, then `os.RemoveAll` and an UPDATE for each candidate | `GCLists`, `GCRemoves`/`GCSkips`, `GCMarksDeleted`, `GCEnds` |
| no builder, platform or policy for the build | `BuildRefused` |
| `r.Context()` cancelled | `Disconnect`, `GCDisconnect`; then `RequestFails` or the dropped errors of `RunBuild` |
| kill and restart | `Crash` |

Abstractions.  Artifacts are identified by digest and the builders are run with
`-trimpath` and `-buildvcs=false`, so a source has one binary.  The statuses
validated, loadable and loaded are one, `usable`: nothing here tells them apart.
There is one plugin row, and the active and last-loaded artifacts the collector
also reads are earlier desired ones, which the snapshots name.  `OtherInsert`
stands for every INSERT of other requests (audit rows above all); it lets
`last_insert_rowid()` take any value of `OtherRowIDs`, more than the code can.
The builder reads the source directory at one moment.  A statement fails only
because its context is cancelled; a builder or a policy may refuse at any time.
The order in which the collector takes its candidates is arbitrary.

Bounds: `Sources`, `Requests`, `MaxBuilds`, and `Operations`, the kinds of
request that arrive in an instance.  Two requests are enough for every race in
which one holds a copy of a row that the other changes; two builds allow a retry;
one binary can be desired, in a snapshot and deleted at once.  `endings` has two
requests that build: one row with clients that leave and a process that dies, or two
rows whose clients stay.  `components` has one request and the collector, with
disconnections and restarts.  Requests and collections recur without bound.  Deadlock is not checked: when no build row is left and nothing is asked for, the system rests.

Fairness (`FairSpec`): a request that has begun issues its next statement, and a
builder ends, since its context has a timeout.  No one has to send a request.

`FollowsBuildMoves` names every way a status may move.  They are those of the code:
the design (`docs/plugin-system-design.md:3219-3225`) has an arrow from failed back
to queued, where `RetryBuild` inserts a row of its own, and none out of canceled,
where `FinishBuild` writes succeeded or failed over it.  `RunningFinishes` excepts
the builds in `orphaned`, those of which a `RunBuild` lost its client or its
process; `build_left_running` shows what becomes of them.

## 6. The other components

### BackgroundTasks

A runtime is a `PluginOperations`; an upgrade gives a node two of them, under one
lease owner, the node.  A goroutine of `launchTask` is a slot.  One action is one
statement on the lease row or one critical section.

| Code | Model |
| --- | --- |
| `launchTask`, the timer of the scheduler loop | `launchTask`, `TimerFires` |
| `runTask` up to the lease, the acquisition, the context of the run, the attempts, the end | `runTask`, `acquireLease`, `setupRun`, `attemptReturns`, `finishTaskRun` |
| `renewTaskLease` goroutine | `renewTaskLease` |
| `ActivateRuntime`, `stopTasks` (mark, cancel, wait), `Operations.Close` | `ActivateRuntime`, `stopTasks`, `stopMarks`, `stopReturns`, `CloseOperations` |
| `TriggerTask`, `CancelTask` | the same names |
| `RunGC` over expired leases: list, then delete | `ListTaskLeases`, `DeleteTaskLease` |
| process death | `CrashNode` |

`LeaseBacksRun` excepts states after `undercut`, a ghost that becomes true when a
row is deleted under a run that still counts on it: the collector deletes by name
what it listed as expired before a renewal, and the release of one runtime of a
node deletes the row its successor on the node has acquired.  Both are real; the
property says they are the only ways.

### DesiredState and DesiredRegister

A step is one SQL statement or one section of memory work under `m.mu`; requests
without `m.mu` interleave between the statements of those that hold it.
`req[r]` is a request with the row it read, `loaded`, `published` and `displaced`
the memory of a node.  `SetDesired`, `RollbackArtifact`, `RollbackConfigSnapshot`
and `UpsertSecret` begin a change; `Upsert`, `ReadBack` and the reload steps carry
it out; `Enable` goes through `Reread`, `EvaluateReleaseGate`, a load step,
`MarkEnabled`, `Publish`; `Load`, `Reconcile`, `DisableOrDelete`, `UpsertAdvisory`,
`HostCrashes` and `TrapQuarantine` are the other operations; `Restart` clears a
node's memory and boots it into `Reconcile`.  `LoadForgets` is the crash-loop branch
of `loadLocked`, after which a load can fail in its backoff with the old handlers
still published: `orphan` records that, until something is published or withdrawn,
and `PublishedIsHeld` excepts it.

`DesiredRegister` is what others may rely on: an update replaces the desired
state and takes the next generation, earlier generations stay as they were, and a
claim "enabled" is about the artifact of the current generation.  The mapping
(`Register` in `DesiredState`) reads the desired columns, the snapshots, and, when
the row says enabled, the applied generation with the active artifact.
`RegisterRefined` is the register's specification as a property of `lifecycle`.

### EventDelivery, PluginStore, ExternalClient

`EventDelivery` has the two queues with their limits, one consumer for each on
every node, retries that are used up, and dead letters that are saved in the
table or, when that fails, kept in memory (`SaveSubscriberDeadLetter`,
`storeSubscriberDeadLetter`), while `ReplaySubscriberDeadLetters` and
`DropSubscriberDeadLetters` run on both nodes and the database fails.  A replay
takes its entries one by one: each is delivered again and then marked, or, when its
subscriber is gone, returns to the memory of the node and keeps its record
(`ReplayJob`).  A delivery that failed is in a pending record, in a node's memory, in a replay at work,
delivered, or was dropped in a way that is counted.

`PluginStore` takes every statement and file operation as a step, with the
collector's lists between.  `Usage` counts the bytes the rows of a kind account
for.  `QuotaHeldAlone` excepts overlapping writes and failed
usage queries (`crowded`): the code reads usage first and takes an error for no
usage, so the quota does not hold there.

`ExternalClient` is the circuit breaker and one exporter.  The counter stops at
the threshold, where the code only compares.

### HostProcesses and HostTakeover

`HostProcesses` follows gateways one after another in one runtime directory.  A
process has an OS state, a socket, metadata and an age; `Spawn` includes the sweep
of the start (`SweepMetadata`, `SweepSocket`, `SweepProcessTable`), `Collect` the
exit that is waited for, `Refresh...` the summaries that move the row, `Isolate`
what a crash loop leads to.  Process IDs are not reused.

`HostTakeover` is the session of one takeover across two processes: the gateway's
caller (`SendWait`, `Answer...`, `SendComplete`), the host's wait and complete
requests, the handler, the one-shot flow and three one-element channels.
`Abandon` is a caller whose connection to the host broke before it knew the
decision; then nothing is promised of the host's side.  After the completion a
continuation waits for the relay of the replaced stream (`RelayDone`), and ends
after it.

### ConnectionPath, SessionStreams, SharedPort, IngressListeners

`ConnectionPath` asks the handlers of each stage in order, from the snapshot that
stage loaded, while plugins come and go; `through` and `passed` are history, the
plugins that were published ever since and the filters that let the connection
pass.  A handler's answer is any of those the code distinguishes, with panics,
errors and timeouts decided by the fail policy.  The route cache is cleared in a
step of its own after the publication.

`SessionStreams` has the critical sections of `sessionMu` as steps.  `SharedPort`
takes Serve's deferred calls in their order; the goroutine of a connection is in
`routing` from accept to hand-off.  `IngressListeners` splits a start into the
check, the listening outside the lock and the registration.

### AdminAccounts, RouteTable

The database has one connection, so a transaction is one step.  Hashing a
password, revoking sessions and refreshing the snapshot are steps of their own.
`behind` records that a refresh failed after its commit, which the handler
reports.

### SandboxRuntime, SandboxSecrets, WasmRuntime

`SandboxRuntime` has the caller of `Start` and `Stop`, the goroutines that serve
the child's three start-up requests in order, the one that waits for the exit,
calls, streams with their watchers, and the quarantine of a crashed box by a later
diagnostics pass.  What the child answers, and when it exits, is free.  A dry run of
a configuration starts a process of its own beside the loaded one.  The removal of
the root directory may fail, which nobody is told (`Removals`); a start that is
refused removes it too (`StartRefused`).  `endings` has one box, since boxes meet
only in what is loaded; the theorems are about any number.
`SandboxSecrets` reads row, material and clock in separate steps around rotations.

`WasmRuntime` is one instance: `BeginDispatch`, `Record`, `Callback` (which needs
`m.mu`), `FinishDispatch`, and `ReloadWasm`, `DisableWasm`, `DrainReturns`,
`StopWasm` under `m.mu`.  `Validates` says that the manifest names
config.validate; `endings` runs without it, `trap_during_reload` with it.

### ReleaseGate, MiddlewareOrder

`ReleaseGate` keeps the tables the gate reads (reviews, overrides, grades,
notices), the row and what is loaded and live.  A verdict is a function of the
tables (`Issues`, `GateOpen`), built from one operator per check; checks of a
manifest are constant sets.  A conflict with another plugin takes two of them: the
runs have one, so `Conflicts` is empty there, and the theorem covers it.  `Enable` is
read, gate, load and publish; `RefreshRow` is the row that `SetDesired` reads again; `Scan`,
`ListPlugins` and `QuarantineAffected` are what a notice starts.
`MiddlewareOrder` is the walk of `middlewareCycle`, for every relation on the
names, against the definition of a cycle (`Cyclic`).

### Promotion, TrustStore, ArtifactStore, ServiceMode

`Promotion`: a request checks the items of a bundle one by one and then writes
them one by one; drills, repository syncs, imports and transfers are further
requests; administrators, the collector and policies act in between.
`TrustStore`: the table of the gateway and the file of `plugin sign`, whose
commands load, change, truncate and write, and may die between; `Verifies` has the
key that is named, chosen or given inline.  `racedRoots` are the roots whose
revocation met a rotation past its check, `spoiled` a file that two commands had
open at once or one left truncated.
`ArtifactStore`: the writes of an upload or a build in the order of the code, by the
kind of the package, with a failure after any of them.  A package is created or
truncated and then written piece by piece, each writer at its own offset; an upload
writes the package itself, builds share one `.tmp` and rename it.  A file is
`spoiled` once two writers had it open at the same time or one gave up.
`ServiceMode`: the row that all nodes share, the mode each keeps, and calls of
`ApplyPluginServiceMode` that overlap and fail at any statement.  `m.serviceMode` is
a plain field, written and read without a lock; the model takes each write as a step,
and torn ones are left out.  `overtaken` are the nodes whose mode is not from the latest active one.

## 7. What the models showed beside the properties

Behaviours of the code met while modelling; the first group follows from steps of
the models above and contradicts a document or a test's expectation, the second
is where a property had to be limited.

* `FinishBuild` (`repository.go:656`) updates by id and overwrites a cancellation;
  `docs/plugin-system-design.md:3221-3223` have cancelled as a final state.  3224
  leads from failed back to queued, which no statement does.
* `RunGC` (`gc.go:99`) removes a source that was queued after the references were
  read; `manager_test.go:372` expects queued sources to be kept.
* A retry reads its identifier with a second statement (`repository.go:2794`) and
  can run another request's build.
* A restart during `RunBuild` leaves a row that says running for ever, as does a
  client that leaves (`build_left_running`, `manager.go:649`).
* The isolation of a crashed plugin and the crash-loop branch of `loadLocked` take
  a runtime out of `m.loaded` and stop nothing; with the empty instance id of
  in-process runtimes a second parked runtime takes the place of the first in
  `pendingRuntimeStops`.  None of the three is stopped by a later operation or by
  Close: `OneOwner` says that these are the only ways.
* When the load after the crash-loop branch fails in its backoff, the handlers of
  the forgotten host stay published (`PublishedIsHeld`).
* A reload moves the identity of the loaded runtime away from the one its handlers
  carry, so neither a deferred stop (`reload_strands`) nor the drain mark of a later
  upgrade finds the sessions of that runtime: `PendingStopAwaited`,
  `ParkedRuntimeStops` and `SupersededSessionsMarked` are about runtimes whose key is
  kept.
* An Enable overtaken by a Disable reads the disabled row back and publishes it
  (`repository.go:189`, `manager.go:1017`).
* A config reload applies a configuration no review has seen (`manager.go:2953`,
  against `docs/plugin-system-design.md:3266`): `PublishedIsReviewed` is about
  entering the dispatch.
* The singleton check is skipped for plugins without ingress
  (`governance.go:1630`).
* A sandbox child is bound to the context of the request that started it
  (`sandbox_runtime.go:888`): when that request ends, so does the child
  (`RequestEnds`).
* The quarantine of a crashed sandbox process acts on whatever the plugin has
  loaded by then, also on a successor, which goes on running without an owner.
* The root of a sandbox has the mode 0555 when it is removed, and the error of the
  removal is dropped (`sandbox_runtime.go:1981`).
* A late trap sets a stopped WASM instance back to draining
  (`wasm_runtime.go:1141`); `DrainedIsIdle` holds nevertheless.
* A resolution in flight puts the answer of a removed plugin back into the route
  cache after it was cleared.
* A start of an ingress listener that passed its test before Close registers
  after it; connections queued for the web server when it ends are not closed.
* The upsert of a rotation brings back a root that another request revoked after
  the check (`revoked_root_returns`); two `plugin sign` commands, or one that dies,
  lose a revocation in the file; `--public-key` asks no store.  `RevokedIsFinal` says
  that there is nothing else.
* A node can run in another mode than the desired one and show no alert: another
  process moved the shared row; a refused call put back the mode it read before
  another call moved the row (`future.go:273`); the select after the update failed
  (`repository.go:393`).  `NoAlertMeansDesired` excepts these.
* Two writers of one package leave a mixed file for good, with both rows saved
  (`artifact.go:1629`, `artifact.go:1714`); while an upload rewrites an entry, or
  after it broke off, the row is ahead of it.  `RowHasItsEntry` excepts these.

## 8. Not modelled

* Close's context expiring inside a phase: it abandons calls into plugin code, and
  what those do then is not in the source.
* A second start of the feed schedulers while the first runs: only tests do it.
* The listeners for QUIC, KCP, WebSocket and the PROXY header, and the relay of
  bytes: I/O loops with no state of their own around the handler that is modelled.
* Services, audit and database set-up: append-only records and configuration read
  at the start.
* HTTP decoding and response shaping around modelled operations.
* The command line, except the key file and the transfers: scaffolding, packing,
  linting and conformance checks are sequential file work.
* Cgroups and namespaces, which the kernel keeps; signatures; the bytes of a
  package, a module or a handshake; metrics, traces and logs, which nothing reads
  back.
* What the service mode does besides the mode itself: the crash policy is a pair of
  constants of `HostProcesses`, and nothing decides by the list of nodes.  The reload that
  tells a sandboxed plugin of a rotated secret: `OldSecretExpires` is about what a
  resolution hands out.
* Plugin API, SDK and examples, which are interfaces and samples.

## 9. Proofs

TLC checks small instances; the theorems hold for every value of the constants
that satisfies the named assumptions, which TLC evaluates in the runs.  Every
proof has one step for each action, and under it one for each conjunct the action
can disturb.

### TakeoverRetirementProofs

`TakeoverRetirementProofs` proves, for any plugins, connections and runtimes, for
unique and for empty instance ids, with and without Close, from the assumptions `PluginsAssumption` (plugins
are numbered by a finite set of positive naturals), `ConnsAssumption` (finitely
many connections at a time), `RuntimesAssumption` and `BoundsAssumption`:

* `TypeCorrect`, `ReferenceCountsExact`, `InvocationsPinRuntimes` and the inductive
  invariant they follow from, `PinInvariantHolds`;
* `ManagerServesRuntimes`, the refinement of `RuntimePool`; `SupersededNotReentered`
  and `ContinuationsStayInside`;
* `OwnerInvariantHolds`, `NoRuntimeForgotten`, and from them `OneOwnerAlways` and
  `CloseLeavesNothing`;
* `ParkedIsAwaited`, `SupersededSessionsAreMarked`.

`InvocationPinsRuntime` is not inductive.  A step that stops a runtime tests
`runtimeRefs = 0`, so the proof needs the count to be exact (`ReferencesCounted`);
exactness needs that a reservation is taken at a position not yet visited and
given back once (`ChainShape`), and that whoever finishes a stop works on a runtime
already out of service (`StopShape`).  The argument has one step per action.

`OneOwner` says two things, and each takes its own invariant.  That a runtime has
at most one owner is `OwnerInvariant`: the tables and the lists of the operation, of
the cleanup goroutines and of Close are disjoint, a runtime is filed under its
plugin, and a stop in progress is in the hands of one goroutine.  That it has at
least one, unless it was let go, is `NoneForgotten` (`NoRuntimeForgotten`); it comes
with `DroppedForGood`, what was let go is never taken up again and never stopped, and
`SupersededGone`.  `CloseStopsEverything` follows from both: once Close is past its
last list there is no place left.

For the refinement every action is shown to be a step of the pool or a stutter
(`ConnServes`, `OtherServes`).  An entry is one of the pool because the drain mark is
tested in the section that counts the reservation; a decision to stop is one because
no reference means no user (`UnreferencedUnused`, from `PinInvariant`); and what a
goroutine stops is decided and not yet stopped, because a stop is in the hands of one
goroutine (`OwnerInvariant`).

`SupersededNeverReentered`, its state form, follows from the order of
`hdraining` and the last test of the references.  The two properties about sessions rest on `SessionShape` (a
connection has participants only while its session lasts), `NamedWasStarted`
(what a snapshot names was started) and `KeyStays`: once a runtime is no longer the
loaded one, no reload moves its record, so a key that was kept then stays kept.

### SourceBuildProofs

`SourceBuildProofs` proves, from `SourceBuildAssumption` alone, for any sources,
requests and number of builds:

* `BuildInvariantHolds`, the inductive invariant; from it
  `SucceededBuildsNameTheirBinary`, `BuildsFollowTheirMoves`,
  `CollectorKeepsDesired` and `CollectorKeepsSources`;
* `RunningBuildsHaveRunners`: a running row has a `RunBuild` that can still finish it,
  or lost one with its client or its process.

None of the properties is inductive, because `FinishBuild` and `os.RemoveAll` ask
the database nothing: they are right only if the locals they rely on are.
`RequestConsistent` says what a request's copy of a row still guarantees at each
statement, and `ReferencesCollected` what the collector's set of references
guarantees after each query.  Both survive the steps of others because the tables
only grow and a row never changes its source (`RowsStay`), and because no status
leads back to queued or running (`Protected`).  The last theorem is an invariant of
its own: `orphaned` takes a build in at the moment one of its runners loses its
context, and `FinishBuild` by anyone else writes a final status, so a running row
that is not in it has a runner left.

### BackgroundTasksProofs

`LeasesBackRuns`: `LeaseBacksRun` for any nodes, runtimes, goroutines and times,
from `BackgroundTasksAssumption`.  The invariant adds the shape of a goroutine
(`GoroutineShape`): it has no lease before it has acquired one, is cancelled only
once it has a context, and believes in no lease beyond a TTL from now.  The last
part is why an acquisition or a renewal, which write a TTL from now, can never
shorten what another goroutine of the node counts on.  `SingletonsRunOnce` draws the
conclusion the lease is for: runs that count on it are all on the node of its owner.

`ClosedNodeGoesDown` is the safety half of `ClosedNodeDrains`.  `StepsLeft` counts
the steps of `runTask` a goroutine has before it; on a closed node every change of
its place makes that number smaller, and every step of its own is a change.  That
needs `DoneIsCancelled`: a body whose context is done has been cancelled, so it is
not tried again, and the active runtime is one of its node, so no trigger launches a
goroutine on a closed one.

### EdgeProofs

Eight parts, each with its own invariant and assumption.

| Theorem | Invariant, and why it is needed |
| --- | --- |
| `RoutesFollowTable` | `RouteInvariant`: who is past the lock holds it, so what was read to be published is still the table |
| `ForcedClosingIsComplete` | `StreamInvariant`: the flag is up before the list is copied, so a stream that is not on the list is closed by whoever brought it |
| `ListenersAreKnown` | `IngressInvariant`: a socket listens only from the listening of its start on, and no entry means no socket |
| `AdministrationStaysOpen` | `AdminInvariant`: sessions, logins and inserts presuppose an enabled administrator or bring one |
| `FiltersAlwaysCover` | `PathInvariant`: each stage has asked, or has yet to ask, every plugin published all along (`FilteredSoFar`), whichever snapshot it loaded |
| `ServeLeavesNothingBetween` | `PortInvariant`: a connection is counted until it is handed over, and the queue keeps its length at all times |
| `FailedIsAccountedAlways` | `EventInv`: an event waits in one place (`WaitsOnce`) and a consumer's job is new until it fails (`DeliveredOnce`), so a consumer that is declined forgets nothing that failed; a number names the record of one delivery (`RecordsNumbered`, `NumbersRight`), so a mark closes only that; and a job about to mark is answered or in the memory of its node (`HeadsWork`) |
| `QuotaHeldAloneAlways` | `StoreInv`: a write that is alone with its kind has read no less than what is there, and once past its check it fits beside the other items, however many of those are deleted since (`Fits`) |

### DesiredStateProofs

From `LifecycleAssumption`, for any nodes, requests, artifacts and bounds:
`LifecycleInvariant`, and from it `RowImplementsRegister` (the refinement of
`DesiredRegister`), `EnabledNamesItsArtifactHolds` and `PublishedIsHeldAlways`.

The statements of a request rely on a row it read long before, so the invariant
has, beside the tables (`TableOK`: every generation before the current one has its
snapshot) and the memory of each node (`MemoryOK`: a runtime was started from a
generation that asked for its artifact), what a request still knows at each point
(`Knows`), when it has the lock of its node (`Locks`), and that what is published is
displaced, being replaced by the holder of the lock, or loaded, unless `loadLocked`
forgot it (`HeldOK`).  `TableKept` says what the statements of others
leave alone: generations only grow and snapshots do not change, so what was known
of a generation stays true.  For the refinement each statement is shown to be an
update, a claim, a withdrawal or a stutter of the register; that a claim is of the
current generation is the WHERE clause of `MarkRuntimeIfDesiredGeneration`.

### RuntimeProofs

| Theorem | Invariant, and why it is needed |
| --- | --- |
| `DrainedIsIdleAlways` | `WasmInv`: the counter of active calls is the number of callers inside, from the dispatch to its end, and a drained instance lets nobody in, also when a late trap has moved its state |
| `TrapsAreCarried` | `TrapInv`: a call before its callback has quarantined the instance, and only one does; the administrator is inside the module only for the validation of a reload, under its lock.  This is the safety half of `TrapsLeaveDispatch`, and names the one case (`trap_during_reload`) in which lock and call wait for each other |
| `StopLeavesNothingAlways` | `SandboxInv`: `done` is closed by the goroutine that reaped the child, after it removed the files, and nobody writes them again, whether or not the removal worked; Stop returns after `done`, whoever killed the child |
| `StreamsAreCounted`, `EndingsAreServed` | `StreamInv`: the counter is the number of streams bound to the process and not released; a stream has a watcher until it is released; a caller past the start has a child.  So a process that is ending with files or streams left has its killer, its reaper or a watcher at work, and never goes back: the safety half of `EndedBoxIsCleaned` |
| `TakeoversNotStuck`, `TakeoversRunOut` | `TakeoverInv`: for each session, how far its flow, its action, its completion, the gateway's caller and the host's map can be apart; a channel is full exactly between its two ends.  So one of the parties always has a step, and each step takes from what the session has left (`SessionLeft`): the safety half of `TakeoverSettles` |

### GovernanceProofs

| Theorem | Invariant, and why it is needed |
| --- | --- |
| `SweepSparesSupervisedAlways` | `SupervisedIsMarked`: a supervised host that is not being started has answered on its socket and has its metadata, which is what the sweep looks at |
| `PublishedIsReviewedAlways` | `GateInv`: what a request has gated is still approved when it loads (reviews are only added), and it loads what it gated |
| `OldSecretExpiresAlways` | `SecretInv`: versions are replaced in order (`ReplacedInOrder`), and an answer in the making lapses in time for the version it read (`AnswersLapse`) as a given one does (`GrantsLapse`) |
| `RevokedIsFinalAlways` | `TrustInv`: a root revoked with no rotation past its check says so in its row and no request is about to overwrite it (`RootsStayRevoked`); as long as the file is not spoiled one command is at work, and a revoked key says so in the file or, while that is empty, in the command's copy (`KeysStayRevoked`) |
| `RowHasItsEntryAlways` | `ArtifactInv`: what an upload or a build has written by each of its stages, whatever another one of the entry does (`UploadsLeaveFiles`), and that a file that is neither spoiled nor being written is of one piece (`FileSound`) |
| `PromotedWasCheckedAlways` | `PromoInv`: a request has checked every item before its position, and a request that writes has checked them all |
| `AlertIsShown` | `ModeInv`: a node that nobody overtook runs in the active mode of the row or in process (`FollowsRow`), and a call that is refused goes on with the mode the row still names unless another call moved it (`RefusedIsCurrent`), so a refusal that keeps the old mode leaves its alert.  For any number of nodes and overlapping calls |

### MiddlewareOrderProofs

`MiddlewareCycleIsRight`: for any set of names, finite or not, and any relation on
them, the walk reports a cycle only where there is one and ends clear only where
there is none.  `PathShape` says that the calls in progress are distinct, are the
names marked on the way in, and follow edges, which makes the closing edge a
cycle; `VisitedShape` says that a finished name's successors are finished and that
no cycle touches a finished name, which makes a clear end right.

### Only model-checked

* Liveness under fairness (`ParkedRuntimeStops`, `LostLeaseEndsRun`,
  `ClosedNodeDrains`, `TakeoverSettles`, `EndedBoxIsCleaned`, `HitRowIsQuarantined`,
  `TrapsLeaveDispatch`, `RunningFinishes`), since the prover handles neither fairness
  nor ENABLED.  For six of them the safety half is proved, so that only the fairness
  of the named steps is left to TLC: somebody is always at work (`ParkedIsAwaited`,
  `TakeoversNotStuck`, `EndingsAreServed`, `TrapsAreCarried`,
  `RunningBuildsHaveRunners`), or every step leads on (`ClosedNodeGoesDown`,
  `TakeoversRunOut`, `EndingsAreServed`).  `LostLeaseEndsRun` and
  `HitRowIsQuarantined` have no such half: they rest on a ticker that comes round.
* What a recursive definition computes would need induction over data, which the
  installed provers cannot do; no module here is recursive, and sums are
  cardinalities.
