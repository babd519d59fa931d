---------------------------- MODULE HostProcesses ----------------------------
(* The plugin-host processes of one gateway and of the gateways that ran    *)
(* before it in the same runtime directory: the supervisor that starts,     *)
(* watches and stops them, the sweep every start makes of what earlier      *)
(* gateways left, and the manager's row about the plugin's host, with its   *)
(* crash count, backoff and isolation.  One plugin; a host is named by its  *)
(* process ID, and process IDs are not reused.                              *)
EXTENDS Naturals, FiniteSets

CONSTANTS
    HostBinaries,        \* the artifacts the plugin can be enabled with
    MaxHosts,        \* processes ever started
    MaxHostTime,         \* the clock, in units of the backoff
    MaxGateways,     \* gateway processes that follow each other
    Backoff, MaxHostCrashes, CrashWindow,   \* PluginHostCrashPolicy
    NoHost

ASSUME HostAssumption ==
    /\ {MaxHosts, MaxHostTime, MaxGateways, Backoff, MaxHostCrashes, CrashWindow} \subseteq Nat \ {0}
    /\ NoHost \notin 1 .. MaxHosts

Hosts == 1 .. MaxHosts

VARIABLES
    process,     \* the processes and their files in the runtime directory
    gateway,     \* which gateway process runs now
    time,
    starting,    \* the host a Start is waiting for, under m.mu
    held,        \* m.loaded[plugin]: the loaded host, in the dispatch snapshot
    ending,      \* hosts whose retirement has begun and is not recorded yet
    hostRow,     \* m.hosts[plugin]
    refresh,     \* one refreshLoadedHostSummaries in flight
    crashesSeen  \* the times of the crashes applied to the row, for the properties

hostVars == <<process, gateway, time, starting, held, ending, hostRow, refresh, crashesSeen>>

-----------------------------------------------------------------------------
Unborn == [os |-> "unborn", socket |-> FALSE, metadata |-> FALSE, old |-> FALSE,
           parent |-> 0, binary |-> CHOOSE b \in HostBinaries : TRUE,
           stopping |-> FALSE, exited |-> FALSE, crashAt |-> 0]

NoHostRow == [pid |-> NoHost, binary |-> Unborn.binary, state |-> "not_loaded", count |-> 0,
          crashAt |-> 0, backoffUntil |-> 0, crashLoop |-> FALSE, isolated |-> FALSE]

Alive(p) == p.os \in {"booting", "serving"}

(* pluginHostSocketActive: somebody accepts on the socket.                  *)
SocketActive(p) == p.os = "serving" /\ p.socket

(* A host of the running gateway whose exit has not been collected.         *)
Supervised(h) == Alive(process[h]) /\ process[h].parent = gateway

HostInit ==
    /\ process = [h \in Hosts |-> Unborn]
    /\ gateway = 1
    /\ time = 1
    /\ starting = NoHost
    /\ held = NoHost
    /\ ending = {}
    /\ hostRow = NoHostRow
    /\ refresh = [at |-> "idle", host |-> NoHost, loop |-> FALSE]
    /\ crashesSeen = {}

-----------------------------------------------------------------------------
(* The row about the plugin's host.                                         *)

(* PluginHostSupervisorProcess.Summary.                                     *)
SummaryState(p) ==
    IF p.crashAt # 0 THEN "failed"
    ELSE IF p.exited THEN "disabled"
    ELSE IF p.stopping THEN "draining"
    ELSE "enabled"

NextCrashCount(row, crashAt) ==
    IF row.crashAt > 0 /\ crashAt - row.crashAt <= CrashWindow THEN row.count + 1 ELSE 1

(* applyPluginHostSummary: what a process says of itself replaces the row.  *)
ApplySummary(row, h) ==
    LET p == process[h]
        seen == p.crashAt = row.crashAt
        count == IF seen THEN row.count ELSE NextCrashCount(row, p.crashAt)
        base == [row EXCEPT !.pid = h, !.binary = p.binary, !.state = SummaryState(p), !.crashAt = p.crashAt]
    IN  IF p.crashAt # 0
          THEN [base EXCEPT !.count = count, !.crashLoop = count >= MaxHostCrashes,
                            !.backoffUntil = IF row.backoffUntil = 0 \/ p.crashAt > row.crashAt
                                             THEN p.crashAt + Backoff ELSE row.backoffUntil]
          ELSE [base EXCEPT !.count = 0, !.crashLoop = FALSE, !.backoffUntil = 0, !.isolated = FALSE]

Noted(h) == crashesSeen \cup ({process[h].crashAt} \ {0})

(* markHostDraining.                                                        *)
MarkDraining(row) == IF row.pid = NoHost THEN row ELSE [row EXCEPT !.state = "draining"]

(* markHostStopped: an old host must not overwrite the row of its enabled    *)
(* successor.                                                               *)
StopIsStale(row, h) == row.pid \notin {NoHost, h} /\ row.state = "enabled"

MarkStopped(row, h) ==
    IF StopIsStale(row, h) THEN row ELSE [ApplySummary(row, h) EXCEPT !.state = "disabled"]

-----------------------------------------------------------------------------
(* The sweep of the runtime directory: files older than the limit whose     *)
(* socket nobody serves, sockets without metadata whose server is not our   *)
(* child, and processes without metadata whose socket is missing or old.    *)

SweepMetadata(p) ==
    IF p.metadata /\ p.old /\ ~SocketActive(p)
      THEN [p EXCEPT !.os = IF Alive(p) THEN "dead" ELSE @, !.socket = FALSE, !.metadata = FALSE]
      ELSE p

SweepSocket(p) ==
    CASE ~p.socket \/ ~p.old -> p
      [] SocketActive(p) /\ ~p.metadata /\ p.parent # gateway -> [p EXCEPT !.os = "dead", !.socket = FALSE]
      [] SocketActive(p) -> p
      [] OTHER -> [p EXCEPT !.socket = FALSE]

(* Mutant: the process table is swept without a look at the metadata.       *)
SweepAnyOld(p) == IF Alive(p) /\ (~p.socket \/ p.old) THEN [p EXCEPT !.os = "dead", !.socket = FALSE] ELSE p

SweepProcessTable(p) ==
    IF Alive(p) /\ ~p.metadata /\ (~p.socket \/ p.old)
      THEN [p EXCEPT !.os = "dead", !.socket = FALSE]
      ELSE p

Sweep == [h \in Hosts |-> SweepProcessTable(SweepSocket(SweepMetadata(process[h])))]

-----------------------------------------------------------------------------
(* loadLocked and startRuntimeInstance, up to the new process.              *)

CrashedHold == held # NoHost /\ process[held].crashAt # 0

InBackoff(row, b) == row.backoffUntil > time /\ row.binary = b

(* The loaded host serves the desired artifact and is dead: it is dropped   *)
(* and its crash is recorded before the restart is considered.              *)
DropCrashed(b) ==
    /\ starting = NoHost
    /\ CrashedHold /\ process[held].binary = b
    /\ hostRow' = ApplySummary(hostRow, held)
    /\ crashesSeen' = Noted(held)
    /\ held' = NoHost
    /\ UNCHANGED <<process, gateway, time, starting, ending, refresh>>

(* Another artifact, or the same one under a new generation, replaces what  *)
(* is loaded; the old host's state is not looked at.                        *)
Spawn(b) ==
    /\ starting = NoHost
    /\ ~InBackoff(hostRow, b)
    /\ \E h \in Hosts :
         /\ process[h].os = "unborn" /\ \A g \in Hosts : g < h => process[g].os # "unborn"
         /\ process' = [Sweep EXCEPT ![h] = [Unborn EXCEPT !.os = "booting", !.parent = gateway, !.binary = b]]
         /\ starting' = h
    /\ UNCHANGED <<gateway, time, held, ending, hostRow, refresh, crashesSeen>>

(* writePluginHostMetadata follows cmd.Start.                               *)
WriteMetadata ==
    /\ starting # NoHost /\ ~process[starting].metadata /\ ~process[starting].exited
    /\ process' = [process EXCEPT ![starting].metadata = TRUE]
    /\ UNCHANGED <<gateway, time, starting, held, ending, hostRow, refresh, crashesSeen>>

(* servePluginHostControl: the host listens on its socket.                  *)
Listen(h) ==
    /\ process[h].os = "booting"
    /\ process' = [process EXCEPT ![h].os = "serving", ![h].socket = TRUE]
    /\ UNCHANGED <<gateway, time, starting, held, ending, hostRow, refresh, crashesSeen>>

(* The metadata cannot be written, the socket does not come up in time, or  *)
(* the handshake or Init fails: the process is killed and waited for.  Only *)
(* the stop after a failed Init (process_runtime.go) sets stopping; no row   *)
(* is written about any of them.                                            *)
StartFails ==
    /\ starting # NoHost
    /\ process' = [process EXCEPT ![starting].os = "dead", ![starting].socket = FALSE,
                                  ![starting].metadata = FALSE, ![starting].exited = TRUE]
    /\ starting' = NoHost
    /\ UNCHANGED <<gateway, time, held, ending, hostRow, refresh, crashesSeen>>

(* Handshake and Init succeed: the host is loaded and published, its        *)
(* predecessor retires, and the row is about the new host (markHostStarted).*)
StartSucceeds ==
    /\ starting # NoHost
    /\ process[starting].metadata /\ SocketActive(process[starting])
    /\ held' = starting
    /\ ending' = ending \cup ({held} \ {NoHost})
    /\ hostRow' = ApplySummary(hostRow, starting)
    /\ starting' = NoHost
    /\ UNCHANGED <<process, gateway, time, refresh, crashesSeen>>

-----------------------------------------------------------------------------
(* Exit and stop.                                                           *)

Die(h) ==
    /\ Alive(process[h])
    /\ process' = [process EXCEPT ![h].os = "dead"]
    /\ UNCHANGED <<gateway, time, starting, held, ending, hostRow, refresh, crashesSeen>>

(* wait(): the files go, and an exit nobody asked for is a crash.           *)
Collect(h) ==
    /\ process[h].os = "dead" /\ process[h].parent = gateway /\ ~process[h].exited
    /\ process[h].metadata
    /\ process' = [process EXCEPT ![h].socket = FALSE, ![h].metadata = FALSE, ![h].exited = TRUE,
                                  ![h].crashAt = IF process[h].stopping THEN 0 ELSE time]
    /\ UNCHANGED <<gateway, time, starting, held, ending, hostRow, refresh, crashesSeen>>

Disable ==
    /\ starting = NoHost /\ held # NoHost
    /\ ending' = ending \cup {held}
    /\ held' = NoHost
    /\ hostRow' = MarkDraining(hostRow)
    /\ UNCHANGED <<process, gateway, time, starting, refresh, crashesSeen>>

(* PluginHostSupervisorProcess.Stop: nothing for a host that has exited;     *)
(* else the intent is recorded, and the host shuts down or is killed.       *)
BeginStop(h) ==
    /\ h \in ending /\ ~process[h].exited /\ ~process[h].stopping
    /\ process' = [process EXCEPT ![h].stopping = TRUE]
    /\ UNCHANGED <<gateway, time, starting, held, ending, hostRow, refresh, crashesSeen>>

ShutDown(h) ==
    /\ process[h].stopping /\ Alive(process[h])
    /\ process' = [process EXCEPT ![h].os = "dead"]
    /\ UNCHANGED <<gateway, time, starting, held, ending, hostRow, refresh, crashesSeen>>

RecordStopped(h) ==
    /\ h \in ending /\ process[h].exited
    /\ ending' = ending \ {h}
    /\ hostRow' = MarkStopped(hostRow, h)
    /\ crashesSeen' = IF StopIsStale(hostRow, h) THEN crashesSeen ELSE Noted(h)
    /\ UNCHANGED <<process, gateway, time, starting, held, refresh>>

-----------------------------------------------------------------------------
(* refreshLoadedHostSummaries: the loaded host is read under m.mu, its      *)
(* summary applied under hostMu, and a crashed one isolated under m.mu.     *)

RefreshList ==
    /\ refresh.at = "idle" /\ starting = NoHost /\ held # NoHost
    /\ refresh' = [refresh EXCEPT !.at = "listed", !.host = held]
    /\ UNCHANGED <<process, gateway, time, starting, held, ending, hostRow, crashesSeen>>

RefreshApply ==
    LET row == ApplySummary(hostRow, refresh.host) IN
    /\ refresh.at = "listed"
    /\ hostRow' = row
    /\ crashesSeen' = Noted(refresh.host)
    /\ refresh' = IF row.state = "failed" /\ ~(row.isolated /\ row.crashLoop)
                    THEN [refresh EXCEPT !.at = "crashed", !.loop = row.crashLoop]
                    ELSE [refresh EXCEPT !.at = "idle"]
    /\ UNCHANGED <<process, gateway, time, starting, held, ending>>

(* isolateCrashedPluginHost: whatever is loaded now leaves m.loaded and the *)
(* dispatch snapshot.                                                       *)
Isolate ==
    /\ refresh.at = "crashed" /\ starting = NoHost
    /\ held' = NoHost
    /\ refresh' = [refresh EXCEPT !.at = "marking"]
    /\ UNCHANGED <<process, gateway, time, starting, ending, hostRow, crashesSeen>>

IsolateMark ==
    /\ refresh.at = "marking"
    /\ hostRow' = [hostRow EXCEPT !.state = "failed", !.isolated = @ \/ refresh.loop]
    /\ refresh' = [refresh EXCEPT !.at = "idle"]
    /\ UNCHANGED <<process, gateway, time, starting, held, ending, crashesSeen>>

-----------------------------------------------------------------------------
(* The gateway dies and another starts: its hosts live on, and nothing of   *)
(* what it knew about them does.                                            *)
GatewayRestart ==
    /\ gateway < MaxGateways
    /\ gateway' = gateway + 1
    /\ starting' = NoHost /\ held' = NoHost /\ ending' = {}
    /\ hostRow' = NoHostRow /\ crashesSeen' = {}
    /\ refresh' = [at |-> "idle", host |-> NoHost, loop |-> FALSE]
    /\ UNCHANGED <<process, time>>

(* Files reach the age limit; a start never takes that long.                *)
GrowOld(h) ==
    /\ h # starting /\ ~process[h].old
    /\ process[h].socket \/ process[h].metadata
    /\ process' = [process EXCEPT ![h].old = TRUE]
    /\ UNCHANGED <<gateway, time, starting, held, ending, hostRow, refresh, crashesSeen>>

HostTick ==
    /\ time < MaxHostTime
    /\ time' = time + 1
    /\ UNCHANGED <<process, gateway, starting, held, ending, hostRow, refresh, crashesSeen>>

HostNext ==
    \/ \E b \in HostBinaries : DropCrashed(b) \/ Spawn(b)
    \/ WriteMetadata \/ StartFails \/ StartSucceeds
    \/ \E h \in Hosts : Listen(h) \/ Die(h) \/ Collect(h) \/ BeginStop(h) \/ ShutDown(h) \/ RecordStopped(h) \/ GrowOld(h)
    \/ Disable \/ RefreshList \/ RefreshApply \/ Isolate \/ IsolateMark
    \/ GatewayRestart \/ HostTick

HostSpec == HostInit /\ [][HostNext]_hostVars

-----------------------------------------------------------------------------

(* The sweep a start makes kills what earlier gateways left and never a     *)
(* host this gateway supervises, whatever the age of its files: a           *)
(* supervised host has its metadata, or is the one being started.           *)
SweepSparesSupervised ==
    [][starting = NoHost /\ starting' # NoHost =>
         \A h \in Hosts : Supervised(h) => process'[h] = process[h]]_hostVars

=============================================================================
