----------------------------- MODULE DesiredState -----------------------------
(***************************************************************************)
(* The desired and the runtime state of one plugin: its row of the plugins *)
(* table, the snapshots UpsertDesired keeps, the plugin_node_states rows,  *)
(* and on every node the loaded, published and displaced runtimes          *)
(* (internal/pluginmanager/manager.go, repository.go, future.go).          *)
(*                                                                         *)
(* The table is shared by the nodes and by requests that do not hold m.mu, *)
(* so a step is one statement or one section of memory work under m.mu.    *)
(***************************************************************************)
EXTENDS Naturals, Sequences, FiniteSets

CONSTANTS
    Artifacts, Configs, NoArtifact,
    Nodes,          \* gateway nodes on one database
    Requests,       \* goroutines that serve administrators, or the node itself
    MaxGen,         \* bound of the generations
    MaxBegun,       \* bound of the requests
    MaxFaults,      \* bound of the restarts, host crashes and advisories
    NoRequest, NoRuntime

VARIABLES
    row,            \* the plugin's row
    snapshots,      \* plugin_config_snapshots; snapshots[g] is generation g
    nodeRow,        \* plugin_node_states
    loaded,         \* m.loaded; born is the generation loadLocked gave it
    published,      \* the runtime whose handlers the snapshot holds
    displaced,      \* m.displaced
    orphan,         \* history: loadLocked forgot the published runtime of the node
    mu,             \* holder of m.mu
    booting,        \* nodes whose startup Reconcile has not run
    revoked,        \* artifacts an advisory names
    req, begun, faults

lifecycleVars ==
    <<row, snapshots, nodeRow, loaded, published, displaced, orphan, mu, booting, revoked, req, begun, faults>>
tableVars == <<row, snapshots, revoked>>
memoryVars == <<loaded, published, displaced, orphan>>

ASSUME LifecycleAssumption ==
    /\ NoArtifact \notin Artifacts /\ NoRequest \notin Requests
    /\ NoRuntime \notin [art : Artifacts, gen : Nat, born : Nat]
    /\ Artifacts # {} /\ Configs # {} /\ MaxGen \in Nat /\ MaxBegun \in Nat /\ MaxFaults \in Nat

States == {"enabled", "disabled", "deleted"}
RuntimeStates == {"disabled", "loaded", "enabled", "failed", "draining"}
Wishes == [art : Artifacts, state : States, cfg : Configs]
Rows == [art : Artifacts, state : States, cfg : Configs, gen : Nat,
         runtime : RuntimeStates, active : Artifacts \cup {NoArtifact}, applied : Nat]
Runtimes == [art : Artifacts, gen : Nat, born : Nat]

Wish(x) == [art |-> x.art, state |-> x.state, cfg |-> x.cfg]

\* The desired state of generation g.
Asked(g) == IF g \in DOMAIN snapshots THEN snapshots[g] ELSE Wish(row)

Idle == [op |-> "none"]

\* A node that is up, and a goroutine free to serve it.
Ready(r, n) == req[r] = Idle /\ n \notin booting

Free(n) == mu[n] = NoRequest
Holds(r, n) == mu[n] = r
Enters(r, n) == Free(n) \/ Holds(r, n)
Leave(r, n) == IF Holds(r, n) THEN [mu EXCEPT ![n] = NoRequest] ELSE mu

Goto(r, pc) == req' = [req EXCEPT ![r].pc = pc]

\* The request returns; the deferred unlock releases m.mu.
Finish(r) ==
    /\ req' = [req EXCEPT ![r] = Idle]
    /\ mu' = Leave(r, req[r].node)

\* What a request keeps of a row it read.
Read == [art |-> row.art, gen |-> row.gen, applied |-> row.applied]

New(op, n, pc, rec, want) ==
    [op |-> op, node |-> n, pc |-> pc, next |-> "done", rec |-> rec, want |-> want,
     old |-> NoRuntime]

LifecycleInit ==
    /\ row \in [art : Artifacts, state : {"disabled"}, cfg : Configs, gen : {1},
                runtime : {"disabled"}, active : {NoArtifact}, applied : {0}]
    /\ snapshots = <<>>
    /\ nodeRow = [n \in Nodes |-> NoRuntime]
    /\ loaded = [n \in Nodes |-> NoRuntime]
    /\ published = [n \in Nodes |-> NoRuntime]
    /\ displaced = [n \in Nodes |-> {}] /\ orphan = [n \in Nodes |-> FALSE]
    /\ mu = [n \in Nodes |-> NoRequest]
    /\ booting = {} /\ revoked = {}
    /\ req = [r \in Requests |-> Idle] /\ begun = 0 /\ faults = 0

-----------------------------------------------------------------------------
(* Statements of the repository.                                           *)

\* One transaction: the old desired state becomes a snapshot.
UpsertDesired(want) ==
    /\ row.gen < MaxGen
    /\ row' = [row EXCEPT !.art = want.art, !.state = want.state, !.cfg = want.cfg, !.gen = @ + 1]
    /\ snapshots' = Append(snapshots, Wish(row))

Marked(runtime, active, applied) ==
    [row EXCEPT !.runtime = runtime, !.active = active, !.applied = applied]

\* UPDATE ... WHERE desired_generation = gen
UpdateById(gen) == TRUE
SameGeneration(gen) == row.gen = gen
MarkRuntimeIfDesiredGeneration(gen, runtime, active, applied) ==
    row' = IF SameGeneration(gen) THEN Marked(runtime, active, applied) ELSE row

\* Plugin hides a deleted row.
Visible == row.state # "deleted"

-----------------------------------------------------------------------------
(* SetDesired, the rollbacks, and what follows an UpsertDesired.           *)

\* A dry run that fails ends the request before it changes anything.
SetDesired(r, n, want) ==
    /\ Ready(r, n)
    /\ req' = [req EXCEPT ![r] = New("set", n, "upsert", NoRuntime, want)]
    /\ UNCHANGED <<tableVars, nodeRow, memoryVars, mu, booting, faults>>

\* The current row is read, another artifact or a snapshot put into it, and
\* the gate asked; the update follows without another look at the row.
RollbackArtifact(r, n, a) ==
    /\ Ready(r, n) /\ Visible /\ a \notin revoked
    /\ req' = [req EXCEPT ![r] = New("rollback", n, "upsert", NoRuntime, [Wish(row) EXCEPT !.art = a])]
    /\ UNCHANGED <<tableVars, nodeRow, memoryVars, mu, booting, faults>>

RollbackConfigSnapshot(r, n, g, fullDesired) ==
    /\ Ready(r, n) /\ Visible
    /\ LET want == IF fullDesired THEN snapshots[g] ELSE [Wish(row) EXCEPT !.cfg = snapshots[g].cfg]
       IN  /\ want.art \notin revoked
           /\ req' = [req EXCEPT ![r] = New("rollback", n, "upsert", NoRuntime, want)]
    /\ UNCHANGED <<tableVars, nodeRow, memoryVars, mu, booting, faults>>

Upsert(r) ==
    /\ req[r] # Idle /\ req[r].pc = "upsert"
    /\ UpsertDesired(req[r].want)
    /\ IF req[r].op \in {"rollback", "delete"}
       THEN /\ Finish(r)
            /\ nodeRow' = IF req[r].op = "delete" THEN [nodeRow EXCEPT ![req[r].node] = NoRuntime]
                          ELSE nodeRow
       ELSE /\ req' = [req EXCEPT
                    ![r].pc = "readback", ![r].want = NoRuntime,
                    ![r].next = IF @ = "done" /\ req[r].want.state = "enabled" THEN "reload" ELSE @]
            /\ UNCHANGED <<mu, nodeRow>>
    /\ UNCHANGED <<revoked, memoryVars, booting, faults>>

\* The transaction fails.
UpsertFails(r) ==
    /\ req[r] # Idle /\ req[r].pc = "upsert"
    /\ Finish(r)
    /\ UNCHANGED <<tableVars, nodeRow, memoryVars, booting, faults>>

\* UpsertDesired returns the row as it is after the commit.
ReadBack(r) ==
    /\ req[r] # Idle /\ req[r].pc = "readback"
    /\ IF Visible
       THEN /\ req' = [req EXCEPT ![r].rec = Read,
                                  ![r].pc = IF req[r].op = "disable" THEN "remove" ELSE "record"]
            /\ UNCHANGED mu
       ELSE Finish(r)
    /\ UNCHANGED <<tableVars, nodeRow, memoryVars, booting, faults>>

\* recordPluginNodeRuntimeStateLocked: a loaded runtime is reported as
\* enabled; without one the node reports what the shared row says.
NodeReport(n) ==
    IF loaded[n] # NoRuntime
    THEN [art |-> loaded[n].art, runtime |-> "enabled", applied |-> loaded[n].gen]
    ELSE [art |-> row.active, runtime |-> row.runtime, applied |-> row.applied]

\* The node's report; m.mu is taken for it unless it is held.
RecordNodeState(r) ==
    /\ req[r] # Idle /\ req[r].pc = "record" /\ Enters(r, req[r].node)
    /\ nodeRow' = IF Visible THEN [nodeRow EXCEPT ![req[r].node] = NodeReport(req[r].node)] ELSE nodeRow
    /\ IF req[r].next = "done" THEN Finish(r) ELSE Goto(r, req[r].next) /\ UNCHANGED mu
    /\ UNCHANGED <<tableVars, memoryVars, booting, faults>>

-----------------------------------------------------------------------------
(* reloadLoadedRuntime: SetDesired of an enabled plugin, and the rotation  *)
(* of a secret that allows hot reload.                                     *)

\* Skipped when nothing or another artifact is loaded, or the row moved on.
ReloadsAnyArtifact(r) ==
    /\ loaded[req[r].node] # NoRuntime
    /\ Visible => row.gen = req[r].rec.gen
ReloadApplies(r) ==
    /\ loaded[req[r].node] # NoRuntime
    /\ loaded[req[r].node].art = req[r].rec.art
    /\ Visible => row.gen = req[r].rec.gen /\ row.art = req[r].rec.art

\* A reload that the runtime refuses ends SetDesired, and Enable with it.
ReloadStarts(r) ==
    /\ req[r] # Idle /\ req[r].pc = "reload" /\ Free(req[r].node)
    /\ LET n == req[r].node IN
       \/ /\ ~ReloadApplies(r)
          /\ IF req[r].op = "enable" THEN Goto(r, "reread") ELSE req' = [req EXCEPT ![r] = Idle]
          /\ UNCHANGED <<mu, loaded>>
       \/ /\ ReloadApplies(r)
          /\ req' = [req EXCEPT ![r] = Idle]
          /\ UNCHANGED <<mu, loaded>>
       \/ /\ ReloadApplies(r)
          /\ loaded' = [loaded EXCEPT ![n].gen = req[r].rec.gen]
          /\ mu' = [mu EXCEPT ![n] = r]
          /\ Goto(r, "reloaded")
    /\ UNCHANGED <<tableVars, nodeRow, published, displaced, orphan, booting, faults>>

ReloadMarks(r) ==
    /\ req[r] # Idle /\ req[r].pc = "reloaded"
    /\ LET n == req[r].node
           rt == loaded[n]
       IN  /\ MarkRuntimeIfDesiredGeneration(rt.gen, "enabled", rt.art, rt.gen)
           /\ nodeRow' = IF SameGeneration(rt.gen) /\ Visible THEN [nodeRow EXCEPT ![n] = NodeReport(n)] ELSE nodeRow
           /\ IF req[r].op = "enable" THEN Goto(r, "reread") /\ mu' = Leave(r, n) ELSE Finish(r)
    /\ UNCHANGED <<snapshots, revoked, memoryVars, booting, faults>>

\* UpsertSecret of a hot secret reloads whatever the row says.
UpsertSecret(r, n) ==
    /\ Ready(r, n) /\ Visible
    /\ req' = [req EXCEPT ![r] = New("secret", n, "reload", Read, NoRuntime)]
    /\ UNCHANGED <<tableVars, nodeRow, memoryVars, mu, booting, faults>>

-----------------------------------------------------------------------------
(* Enable and Reconcile.                                                   *)

Enable(r, n) ==
    /\ Ready(r, n) /\ Visible
    /\ req' = [req EXCEPT ![r] =
            IF row.state = "enabled" THEN New("enable", n, "gate", Read, NoRuntime)
            ELSE New("enable", n, "upsert", Read, [Wish(row) EXCEPT !.state = "enabled"])]
    /\ UNCHANGED <<tableVars, nodeRow, memoryVars, mu, booting, faults>>

\* SetDesired returns the refreshed row to Enable.
Reread(r) ==
    /\ req[r] # Idle /\ req[r].pc = "reread"
    /\ req' = [req EXCEPT ![r].pc = "gate", ![r].rec = IF Visible THEN Read ELSE @]
    /\ UNCHANGED <<tableVars, nodeRow, memoryVars, mu, booting, faults>>

\* A failure leaves Enable; Reconcile goes on to publish without the plugin.
Failed(r, n) ==
    /\ MarkRuntimeIfDesiredGeneration(req[r].rec.gen, "failed", NoArtifact, req[r].rec.applied)
    /\ req' = [req EXCEPT ![r].pc = "record",
                          ![r].next = IF req[r].op = "reconcile" THEN "sweep" ELSE "done"]

EvaluateReleaseGate(r) ==
    /\ req[r] # Idle /\ req[r].pc = "gate"
    /\ \/ req[r].rec.art \notin revoked /\ Goto(r, "load") /\ UNCHANGED row
       \/ req[r].rec.art \in revoked /\ Failed(r, req[r].node)
    /\ UNCHANGED <<snapshots, revoked, nodeRow, memoryVars, mu, booting, faults>>

\* The snapshot holds runtime rt; a reload does not change its handlers.
IsPublished(n, rt) == published[n] # NoRuntime /\ rt # NoRuntime /\ published[n].born = rt.born

\* The loaded runtime is of the artifact and generation that are asked for.
Reused(r) ==
    /\ loaded[req[r].node] # NoRuntime
    /\ loaded[req[r].node].art = req[r].rec.art /\ loaded[req[r].node].gen = req[r].rec.gen

AfterLoad(r) == IF req[r].op = "load" THEN "settle" ELSE "mark"

LoadReuses(r) ==
    /\ req[r] # Idle /\ req[r].pc = "load" /\ Enters(r, req[r].node) /\ Reused(r)
    /\ mu' = [mu EXCEPT ![req[r].node] = r]
    /\ Goto(r, AfterLoad(r))
    /\ UNCHANGED <<tableVars, nodeRow, memoryVars, booting, faults>>

\* Unless its host is in a crash loop: then loadLocked drops it from memory,
\* published or not, and goes on to start another under the same lock.
LoadForgets(r) ==
    /\ req[r] # Idle /\ req[r].pc = "load" /\ Enters(r, req[r].node) /\ Reused(r)
    /\ LET n == req[r].node IN
        /\ mu' = [mu EXCEPT ![n] = r]
        /\ loaded' = [loaded EXCEPT ![n] = NoRuntime]
        /\ orphan' = [orphan EXCEPT ![n] = @ \/ IsPublished(n, loaded[n])]
    /\ UNCHANGED <<tableVars, nodeRow, published, displaced, booting, req, faults>>

\* The artifact is refused, or the runtime does not start or is held back
\* after a crash loop.
LoadFails(r) ==
    /\ req[r] # Idle /\ req[r].pc = "load" /\ Enters(r, req[r].node) /\ ~Reused(r)
    /\ mu' = [mu EXCEPT ![req[r].node] = r]
    /\ Failed(r, req[r].node)
    /\ UNCHANGED <<snapshots, revoked, nodeRow, memoryVars, booting, faults>>

\* The runtime starts; it is kept only if its generation is still desired.
LoadStarts(r) ==
    /\ req[r] # Idle /\ req[r].pc = "load" /\ Enters(r, req[r].node) /\ ~Reused(r)
    /\ LET n == req[r].node
           rec == req[r].rec
       IN  IF SameGeneration(rec.gen)
           THEN /\ row' = Marked("loaded", NoArtifact, rec.applied)
                /\ loaded' = [loaded EXCEPT ![n] = [art |-> rec.art, gen |-> rec.gen, born |-> rec.gen]]
                /\ req' = [req EXCEPT ![r].old = loaded[n], ![r].pc = "record", ![r].next = AfterLoad(r)]
                /\ mu' = [mu EXCEPT ![n] = r]
           ELSE /\ IF req[r].op = "reconcile"
                   THEN Goto(r, "sweep") /\ mu' = [mu EXCEPT ![n] = r]
                   ELSE Finish(r)
                /\ UNCHANGED <<row, loaded>>
    /\ UNCHANGED <<snapshots, revoked, nodeRow, published, displaced, orphan, booting, faults>>

\* rollbackLoadedCandidateLocked: Enable's candidate is the runtime it found
\* loaded, and that one is published.
ForgetCandidate(r, n) ==
    /\ loaded' = [loaded EXCEPT ![n] = NoRuntime]
    /\ UNCHANGED displaced
Reenabled(r) == req[r].next # "mark"
RollbackCandidate(r, n) ==
    IF displaced[n] = {} /\ Reenabled(r) /\ published[n] # NoRuntime
    THEN UNCHANGED <<loaded, displaced>>
    ELSE /\ \E restore \in IF displaced[n] = {} THEN {req[r].old} ELSE displaced[n] :
                loaded' = [loaded EXCEPT ![n] = restore]
         /\ displaced' = [displaced EXCEPT ![n] = {}]

\* The plugin registered no extension point.
RegistersNothing(r) ==
    /\ req[r] # Idle /\ req[r].pc = "mark"
    /\ MarkRuntimeIfDesiredGeneration(req[r].rec.gen, "failed", NoArtifact, req[r].rec.applied)
    /\ nodeRow' = IF Visible THEN [nodeRow EXCEPT ![req[r].node] = NodeReport(req[r].node)] ELSE nodeRow
    /\ IF req[r].op = "enable"
       THEN RollbackCandidate(r, req[r].node) /\ Finish(r)
       ELSE Goto(r, "sweep") /\ UNCHANGED <<loaded, displaced, mu>>
    /\ UNCHANGED <<snapshots, revoked, published, orphan, booting, faults>>

MarkEnabled(r) ==
    /\ req[r] # Idle /\ req[r].pc = "mark"
    /\ LET n == req[r].node
           rt == loaded[n]
       IN  /\ MarkRuntimeIfDesiredGeneration(rt.gen, "enabled", rt.art, rt.gen)
           /\ IF SameGeneration(rt.gen)
              THEN /\ req' = [req EXCEPT ![r].pc = "record", ![r].next = "publish"]
                   /\ UNCHANGED <<loaded, displaced, mu>>
              ELSE IF req[r].op = "enable"
              THEN RollbackCandidate(r, n) /\ Finish(r)
              ELSE Goto(r, "sweep") /\ UNCHANGED <<loaded, displaced, mu>>
    /\ UNCHANGED <<snapshots, revoked, nodeRow, published, orphan, booting, faults>>

\* The new runtime is published; the replaced and displaced ones retire.
Publish(r) ==
    /\ req[r] # Idle /\ req[r].pc = "publish"
    /\ published' = [published EXCEPT ![req[r].node] = loaded[req[r].node]]
    /\ orphan' = [orphan EXCEPT ![req[r].node] = FALSE]
    /\ displaced' = [displaced EXCEPT ![req[r].node] = {}]
    /\ Finish(r)
    /\ booting' = booting \ {req[r].node}
    /\ UNCHANGED <<tableVars, nodeRow, loaded, faults>>

\* Reconcile lists the enabled plugins once, when the node starts.
Reconcile(r, n) ==
    /\ req[r] = Idle /\ n \in booting /\ Free(n)
    /\ \A q \in Requests : req[q] # Idle => req[q].node # n
    /\ mu' = [mu EXCEPT ![n] = r]
    /\ req' = [req EXCEPT ![r] =
            New("reconcile", n, IF row.state = "enabled" THEN "gate" ELSE "sweep", Read, NoRuntime)]
    /\ UNCHANGED <<tableVars, nodeRow, memoryVars, booting, faults>>

\* A plugin that was not retained leaves the snapshot and memory.
Sweep(r) ==
    /\ req[r] # Idle /\ req[r].pc = "sweep"
    /\ published' = [published EXCEPT ![req[r].node] = NoRuntime]
    /\ orphan' = [orphan EXCEPT ![req[r].node] = FALSE]
    /\ loaded' = [loaded EXCEPT ![req[r].node] = NoRuntime]
    /\ displaced' = [displaced EXCEPT ![req[r].node] = {}]
    /\ Finish(r)
    /\ booting' = booting \ {req[r].node}
    /\ UNCHANGED <<tableVars, nodeRow, faults>>

-----------------------------------------------------------------------------
(* Load, Disable and Delete hold m.mu throughout.                          *)

Load(r, n) ==
    /\ Ready(r, n) /\ Visible /\ Free(n)
    /\ mu' = [mu EXCEPT ![n] = r]
    /\ req' = [req EXCEPT ![r] = New("load", n, "load", Read, NoRuntime)]
    /\ UNCHANGED <<tableVars, nodeRow, memoryVars, booting, faults>>

\* What Load replaced waits as displaced while its handlers are published.
Settle(r) ==
    /\ req[r] # Idle /\ req[r].pc = "settle"
    /\ LET n == req[r].node IN
        displaced' = IF req[r].old # NoRuntime /\ published[n] # NoRuntime /\ displaced[n] = {}
                     THEN [displaced EXCEPT ![n] = {req[r].old}] ELSE displaced
    /\ Finish(r)
    /\ UNCHANGED <<tableVars, nodeRow, loaded, published, orphan, booting, faults>>

DisableOrDelete(r, n, op) ==
    /\ Ready(r, n) /\ Visible /\ Free(n)
    /\ mu' = [mu EXCEPT ![n] = r]
    /\ req' = [req EXCEPT ![r] =
            New(op, n, IF op = "delete" THEN "remove" ELSE "upsert", Read,
                [Wish(row) EXCEPT !.state = IF op = "delete" THEN "deleted" ELSE "disabled"])]
    /\ UNCHANGED <<tableVars, nodeRow, memoryVars, booting, faults>>

\* Disable is draining while connections are left.
Remove(r) ==
    /\ req[r] # Idle /\ req[r].pc = "remove"
    /\ published' = [published EXCEPT ![req[r].node] = NoRuntime]
    /\ orphan' = [orphan EXCEPT ![req[r].node] = FALSE]
    /\ loaded' = [loaded EXCEPT ![req[r].node] = NoRuntime]
    /\ displaced' = [displaced EXCEPT ![req[r].node] = {}]
    /\ IF req[r].op = "delete"
       THEN Goto(r, "upsert") /\ UNCHANGED row
       ELSE /\ \E runtime \in {"disabled", "draining"} :
                MarkRuntimeIfDesiredGeneration(req[r].rec.gen, runtime, NoArtifact, req[r].rec.gen)
            /\ req' = [req EXCEPT ![r].pc = "record", ![r].next = "done"]
    /\ UNCHANGED <<snapshots, revoked, nodeRow, mu, booting, faults>>

-----------------------------------------------------------------------------
(* Advisories, crashed hosts, restarts.                                    *)

\* UpsertAdvisory stores the advisory; quarantineAffected lists, locks and
\* quarantines what the list says, with an unguarded MarkRuntime.
UpsertAdvisory(r, n, a) ==
    /\ Ready(r, n) /\ faults < MaxFaults /\ faults' = faults + 1
    /\ revoked' = revoked \cup {a}
    /\ req' = [req EXCEPT ![r] = New("advisory", n, "list", [Read EXCEPT !.art = a], NoRuntime)]
    /\ UNCHANGED <<row, snapshots, nodeRow, memoryVars, mu, booting>>

ListPlugins(r) ==
    /\ req[r] # Idle /\ req[r].pc = "list"
    /\ req' = [req EXCEPT ![r] =
            IF Visible /\ row.runtime = "enabled" /\ row.active = @.rec.art
            THEN [@ EXCEPT !.pc = "quarantine", !.rec.applied = row.applied] ELSE Idle]
    /\ UNCHANGED <<tableVars, nodeRow, memoryVars, mu, booting, faults>>

Quarantine(r) ==
    /\ req[r] # Idle /\ req[r].pc = "quarantine" /\ Free(req[r].node)
    /\ published' = [published EXCEPT ![req[r].node] = NoRuntime]
    /\ orphan' = [orphan EXCEPT ![req[r].node] = FALSE]
    /\ row' = Marked("draining", req[r].rec.art, req[r].rec.applied)
    /\ req' = [req EXCEPT ![r] = Idle]
    /\ UNCHANGED <<snapshots, revoked, nodeRow, loaded, displaced, mu, booting, faults>>

\* refreshLoadedHostSummaries and liveSandboxRuntimeSummaries see a dead
\* process; isolateCrashedPluginHost and quarantineSandboxProcess act later
\* on whatever is loaded by then.
HostCrashes(r, n) ==
    /\ Ready(r, n) /\ Free(n) /\ loaded[n] # NoRuntime /\ faults < MaxFaults /\ faults' = faults + 1
    /\ req' = [req EXCEPT ![r] = New("crash", n, "isolate", [Read EXCEPT !.art = loaded[n].art], NoRuntime)]
    /\ UNCHANGED <<tableVars, nodeRow, memoryVars, mu, booting>>

Isolate(r) ==
    /\ req[r] # Idle /\ req[r].pc = "isolate" /\ Free(req[r].node)
    /\ LET n == req[r].node IN
        /\ published' = [published EXCEPT ![n] = NoRuntime]
        /\ orphan' = [orphan EXCEPT ![n] = FALSE]
        /\ loaded' = [loaded EXCEPT ![n] = NoRuntime]
        /\ req' = [req EXCEPT ![r].pc = "isolated", ![r].rec.applied = IF loaded[n] = NoRuntime THEN 0 ELSE loaded[n].gen]
    /\ UNCHANGED <<tableVars, nodeRow, displaced, mu, booting, faults>>

IsolateMarks(r) ==
    /\ req[r] # Idle /\ req[r].pc = "isolated"
    /\ row' = Marked("failed", req[r].rec.art,
                IF req[r].rec.applied = 0 THEN row.applied ELSE req[r].rec.applied)
    /\ req' = [req EXCEPT ![r].pc = "record", ![r].next = "done"]
    /\ UNCHANGED <<snapshots, revoked, nodeRow, memoryVars, mu, booting, faults>>

\* handleWASMRepeatedTrapQuarantine: the runtime stays loaded, out of dispatch.
TrapQuarantine(n) ==
    /\ Free(n) /\ loaded[n] # NoRuntime /\ faults < MaxFaults /\ faults' = faults + 1
    /\ published' = [published EXCEPT ![n] = NoRuntime]
    /\ orphan' = [orphan EXCEPT ![n] = FALSE]
    /\ row' = IF Visible THEN Marked("draining", loaded[n].art, row.applied) ELSE row
    /\ nodeRow' = IF Visible THEN [nodeRow EXCEPT ![n] = NodeReport(n)] ELSE nodeRow
    /\ UNCHANGED <<snapshots, revoked, loaded, displaced, mu, booting, req>>

\* A node stops and starts again: its memory and its requests are gone.
Restart(n) ==
    /\ n \notin booting /\ faults < MaxFaults /\ faults' = faults + 1
    /\ booting' = booting \cup {n}
    /\ loaded' = [loaded EXCEPT ![n] = NoRuntime]
    /\ published' = [published EXCEPT ![n] = NoRuntime]
    /\ orphan' = [orphan EXCEPT ![n] = FALSE]
    /\ displaced' = [displaced EXCEPT ![n] = {}]
    /\ mu' = [mu EXCEPT ![n] = NoRequest]
    /\ req' = [r \in Requests |-> IF req[r] # Idle /\ req[r].node = n THEN Idle ELSE req[r]]
    /\ UNCHANGED <<tableVars, nodeRow>>

-----------------------------------------------------------------------------
Begin(r, n) ==
    \/ \E want \in Wishes : want.state # "deleted" /\ SetDesired(r, n, want)
    \/ \E a \in Artifacts : RollbackArtifact(r, n, a) \/ UpsertAdvisory(r, n, a)
    \/ \E g \in DOMAIN snapshots, full \in BOOLEAN : RollbackConfigSnapshot(r, n, g, full)
    \/ Enable(r, n) \/ Load(r, n) \/ DisableOrDelete(r, n, "disable")
    \/ DisableOrDelete(r, n, "delete") \/ UpsertSecret(r, n)
    \/ HostCrashes(r, n) \/ Reconcile(r, n)

Step(r) ==
    \/ Upsert(r) \/ UpsertFails(r) \/ ReadBack(r) \/ RecordNodeState(r)
    \/ ReloadStarts(r) \/ ReloadMarks(r) \/ Reread(r) \/ EvaluateReleaseGate(r)
    \/ LoadReuses(r) \/ LoadForgets(r) \/ LoadFails(r) \/ LoadStarts(r) \/ RegistersNothing(r)
    \/ MarkEnabled(r) \/ Publish(r) \/ Sweep(r) \/ Settle(r) \/ Remove(r)
    \/ ListPlugins(r) \/ Quarantine(r) \/ Isolate(r) \/ IsolateMarks(r)

LifecycleNext ==
    \/ begun < MaxBegun /\ begun' = begun + 1 /\ \E r \in Requests, n \in Nodes : Begin(r, n)
    \/ UNCHANGED begun /\ \E r \in Requests : Step(r)
    \/ UNCHANGED begun /\ \E n \in Nodes : Restart(n) \/ TrapQuarantine(n)

LifecycleSpec == LifecycleInit /\ [][LifecycleNext]_lifecycleVars

-----------------------------------------------------------------------------
(* Properties.                                                             *)

\* The row and its snapshots as the register they implement.
Register == INSTANCE DesiredRegister WITH
    desired <- Wish(row),
    log <- snapshots,
    claim <- IF row.runtime = "enabled" THEN [gen |-> row.applied, art |-> row.active]
             ELSE [gen |-> 0, art |-> NoArtifact]

\* Whatever administrators, nodes, crashes and advisories do to one row, it
\* behaves as the register: no generation is lost or reused, none loses its
\* snapshot, and "enabled" is only ever written of the current generation
\* and its artifact (UpsertDesired, MarkRuntimeIfDesiredGeneration).
RegisterRefined == Register!RegisterSpec

\* A row that says "enabled" names the artifact which the generation it says
\* was applied asked for, although nodes write it about runtimes they
\* started from rows read long before.
EnabledNamesItsArtifact ==
    row.runtime = "enabled" =>
        row.applied \in 1..row.gen /\ row.active = Asked(row.applied).art

\* What is published is what m.loaded or m.displaced still holds, so that
\* somebody retires it: whenever m.mu is free, across failed enables, loads
\* over a published runtime, quarantines and isolated crashes. Only the host
\* in a crash loop is out of it: loadLocked drops it and may then fail, and
\* its handlers stay published with no runtime in memory (orphan).
PublishedIsHeld ==
    \A n \in Nodes :
        Free(n) /\ published[n] # NoRuntime /\ ~orphan[n] =>
            \E rt \in {loaded[n]} \cup displaced[n] : IsPublished(n, rt)

=============================================================================
