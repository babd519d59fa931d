--------------------------- MODULE GovernanceProofs ---------------------------
(* What the theorems about the parts that decide which code runs rest on -   *)
(* plugin hosts, the release gate, secrets, trust roots, stored artifacts,   *)
(* promotions, the service mode - and their proofs.                          *)
EXTENDS HostProcesses, ReleaseGate, SandboxSecrets, TrustStore, ArtifactStore, Promotion, ServiceMode,
        Integers, TLAPS

-----------------------------------------------------------------------------
(* Plugin hosts: the sweep of a start.                                       *)

HostProcess ==
    [os : {"unborn", "booting", "serving", "dead"}, socket : BOOLEAN, metadata : BOOLEAN,
     old : BOOLEAN, parent : Nat, binary : HostBinaries \cup {Unborn.binary}, stopping : BOOLEAN,
     exited : BOOLEAN, crashAt : Nat]

HostsTyped ==
    /\ process \in [Hosts -> HostProcess]
    /\ gateway \in Nat /\ time \in Nat
    /\ starting \in Hosts \cup {NoHost}

\* A host belongs to a gateway that has already run.
ParentsAreOlder == \A h \in Hosts : process[h].parent <= gateway

\* A supervised host that is not being started has answered on its socket and
\* has its metadata file: that is what the sweep looks at.
SupervisedIsMarked ==
    \A h \in Hosts : Supervised(h) /\ h # starting => process[h].metadata /\ SocketActive(process[h])

HostInv == HostsTyped /\ ParentsAreOlder /\ SupervisedIsMarked

\* What the sweep makes of one process.
Swept(p) == SweepProcessTable(SweepSocket(SweepMetadata(p)))

\* The sweep spares a process that serves and has its metadata, and it brings
\* nothing to life.
LEMMA SweepFacts ==
    ASSUME NEW p \in HostProcess
    PROVE  /\ Swept(p) \in HostProcess
           /\ p.metadata /\ SocketActive(p) => Swept(p) = p
           /\ Swept(p).parent = p.parent
           /\ Alive(Swept(p)) => Alive(p)
<1>1. LET a == SweepMetadata(p) IN
        /\ a \in HostProcess /\ a.parent = p.parent /\ (Alive(a) => Alive(p))
        /\ p.metadata /\ SocketActive(p) => a = p
  BY DEF SweepMetadata, HostProcess, Alive, SocketActive
<1>2. ASSUME NEW a \in HostProcess
      PROVE  LET b == SweepSocket(a) IN
        /\ b \in HostProcess /\ b.parent = a.parent /\ (Alive(b) => Alive(a))
        /\ a.metadata /\ SocketActive(a) => b = a
  BY DEF SweepSocket, HostProcess, Alive, SocketActive
<1>3. ASSUME NEW b \in HostProcess
      PROVE  LET c == SweepProcessTable(b) IN
        /\ c \in HostProcess /\ c.parent = b.parent /\ (Alive(c) => Alive(b))
        /\ b.metadata /\ SocketActive(b) => c = b
  BY DEF SweepProcessTable, HostProcess, Alive, SocketActive
<1> QED
  BY <1>1, <1>2, <1>3 DEF Swept

\* A start replaces one unborn process and leaves the supervised ones alone.
LEMMA SpawnSpares ==
    ASSUME HostInv, starting = NoHost, NEW b \in HostBinaries, Spawn(b)
    PROVE  /\ HostInv'
           /\ \A h \in Hosts : Supervised(h) => process'[h] = process[h]
<1> DEFINE r == [Unborn EXCEPT !.os = "booting", !.parent = gateway, !.binary = b]
<1>1. PICK h \in Hosts :
         process[h].os = "unborn" /\ starting' = h /\ process' = [Sweep EXCEPT ![h] = r]
  BY DEF Spawn
<1>2. HostsTyped /\ ParentsAreOlder /\ SupervisedIsMarked /\ UNCHANGED <<gateway, time>>
  BY DEF HostInv, Spawn
<1>3. gateway \in Nat /\ time \in Nat
  BY <1>2 DEF HostsTyped
<1>4. r \in HostProcess /\ r.parent = gateway
  <2>1. Unborn \in HostProcess
    <3> DEFINE any == CHOOSE x \in HostBinaries : TRUE
    <3>1. Unborn.binary = any
      BY DEF Unborn
    <3> HIDE DEF any
    <3> QED
      BY <3>1 DEF Unborn, HostProcess
  <2> QED
    BY <1>3, <2>1 DEF HostProcess
<1> HIDE DEF r
<1>5. PICK f : process' = f
  OBVIOUS
<1>6. f \in [Hosts -> {r} \cup {Swept(process[g]) : g \in Hosts}] /\ f[h] = r
      /\ \A g \in Hosts : g # h => f[g] = Swept(process[g])
  BY <1>1, <1>5 DEF Sweep, Swept
<1>7. \A g \in Hosts : process[g] \in HostProcess /\ process[g].parent <= gateway
  BY <1>2 DEF HostsTyped, ParentsAreOlder
<1>8. \A g \in Hosts : g # h =>
        /\ f[g] \in HostProcess /\ f[g].parent = process[g].parent
        /\ Alive(f[g]) => Alive(process[g])
        /\ process[g].metadata /\ SocketActive(process[g]) => f[g] = process[g]
  BY <1>6, <1>7, SweepFacts
<1>9. HostsTyped'
  <2>1. f \in [Hosts -> HostProcess]
    <3>1. \A g \in Hosts : f[g] \in HostProcess
      BY <1>4, <1>6, <1>8
    <3> QED
      BY <1>6, <3>1
  <2> QED
    BY <1>1, <1>2, <1>3, <1>5, <2>1 DEF HostsTyped
<1>10. ParentsAreOlder'
  <2>1. \A g \in Hosts : f[g].parent <= gateway
    <3> SUFFICES ASSUME NEW g \in Hosts PROVE f[g].parent <= gateway
      OBVIOUS
    <3>1. CASE g = h
      BY <1>3, <1>4, <1>6, <3>1
    <3>2. CASE g # h
      BY <1>7, <1>8, <3>2
    <3> QED
      BY <3>1, <3>2
  <2> QED
    BY <1>2, <1>5, <2>1 DEF ParentsAreOlder
<1>11. \A g \in Hosts : Supervised(g) => g # h /\ g # starting
  BY <1>1, HostAssumption DEF Supervised, Alive, Hosts
<1>12. \A g \in Hosts : Supervised(g) => process[g].metadata /\ SocketActive(process[g])
  BY <1>2, <1>11 DEF SupervisedIsMarked
<1>13. \A g \in Hosts : Supervised(g) => f[g] = process[g]
  BY <1>8, <1>11, <1>12
<1>14. SupervisedIsMarked'
  <2>1. ASSUME NEW g \in Hosts, Alive(f[g]), f[g].parent = gateway, g # h
        PROVE  f[g].metadata /\ SocketActive(f[g])
    <3>1. Supervised(g)
      BY <1>8, <2>1 DEF Supervised
    <3>2. f[g] = process[g]
      BY <1>13, <3>1
    <3> QED
      BY <1>12, <3>1, <3>2
  <2> QED
    BY <1>1, <1>2, <1>5, <2>1 DEF SupervisedIsMarked, Supervised
<1> QED
  BY <1>5, <1>9, <1>10, <1>13, <1>14 DEF HostInv

\* A step that replaces the record of one process, and ends no start but its.
LEMMA OneProcess ==
    ASSUME HostInv, NEW h \in Hosts, NEW r \in HostProcess, r.parent = process[h].parent,
           process' = [process EXCEPT ![h] = r], UNCHANGED <<gateway, time>>,
           starting' = starting \/ (starting = h /\ starting' = NoHost),
           Alive(r) /\ r.parent = gateway /\ h # starting' => r.metadata /\ SocketActive(r)
    PROVE  HostInv'
<1>1. HostsTyped /\ ParentsAreOlder /\ SupervisedIsMarked
  BY DEF HostInv
<1>2. HostsTyped'
  BY <1>1 DEF HostsTyped
<1>3. process'[h] = r /\ \A g \in Hosts : g # h => process'[g] = process[g]
  BY <1>1 DEF HostsTyped
<1>4. \A g \in Hosts : process'[g].parent = process[g].parent
  BY <1>3
<1>5. ParentsAreOlder'
  BY <1>1, <1>4 DEF ParentsAreOlder
<1>6. SupervisedIsMarked'
  BY <1>1, <1>3 DEF SupervisedIsMarked, Supervised
<1> QED
  BY <1>2, <1>5, <1>6 DEF HostInv

\* Init and every step keep HostInv.
LEMMA HostInductive ==
    /\ HostInit => HostInv
    /\ HostInv /\ [HostNext]_hostVars => HostInv'
<1>1. HostInit => HostInv
  BY DEF HostInit, HostInv, HostsTyped, ParentsAreOlder, SupervisedIsMarked, Supervised, Alive,
         Unborn, HostProcess
<1>2. ASSUME HostInv, HostNext PROVE HostInv'
  <2>0. HostsTyped /\ ParentsAreOlder /\ SupervisedIsMarked /\ NoHost \notin Hosts
    BY <1>2, HostAssumption DEF HostInv, Hosts
  <2>1. CASE \E b \in HostBinaries : Spawn(b)
    BY <1>2, <2>1, SpawnSpares DEF Spawn
  <2>2. CASE \/ (\E b \in HostBinaries : DropCrashed(b)) \/ Disable \/ RefreshList \/ RefreshApply
             \/ Isolate \/ IsolateMark \/ (\E h \in Hosts : RecordStopped(h))
    <3>1. UNCHANGED <<process, gateway, time, starting>>
      BY <2>2 DEF DropCrashed, Disable, RefreshList, RefreshApply, Isolate, IsolateMark, RecordStopped
    <3> QED
      BY <2>0, <3>1 DEF HostInv, HostsTyped, ParentsAreOlder, SupervisedIsMarked, Supervised
  <2>3. ASSUME WriteMetadata \/ StartFails PROVE HostInv'
    <3>1. starting \in Hosts /\ process[starting] \in HostProcess
      BY <2>0, <2>3 DEF WriteMetadata, StartFails, HostsTyped
    <3>2. CASE WriteMetadata
      <4> DEFINE r == [process[starting] EXCEPT !.metadata = TRUE]
      <4>1. process' = [process EXCEPT ![starting] = r] /\ UNCHANGED <<gateway, time, starting>>
        BY <3>2 DEF WriteMetadata
      <4>2. r \in HostProcess /\ r.parent = process[starting].parent
        BY <3>1 DEF HostProcess
      <4> HIDE DEF r
      <4> QED
        BY <1>2, <3>1, <4>1, <4>2, OneProcess
    <3>3. CASE StartFails
      <4> DEFINE r == [process[starting] EXCEPT !.os = "dead", !.socket = FALSE, !.metadata = FALSE, !.exited = TRUE]
      <4>1. process' = [process EXCEPT ![starting] = r] /\ UNCHANGED <<gateway, time>> /\ starting' = NoHost
        BY <3>1, <3>3 DEF StartFails, HostProcess
      <4>2. r \in HostProcess /\ r.parent = process[starting].parent /\ ~Alive(r)
        BY <3>1 DEF HostProcess, Alive
      <4> HIDE DEF r
      <4> QED
        BY <1>2, <3>1, <4>1, <4>2, OneProcess
    <3> QED
      BY <2>3, <3>2, <3>3
  <2>7. CASE StartSucceeds
    <3>1. /\ UNCHANGED <<process, gateway, time>> /\ starting' = NoHost
          /\ process[starting].metadata /\ SocketActive(process[starting])
      BY <2>7 DEF StartSucceeds
    <3> QED
      BY <2>0, <3>1 DEF HostInv, HostsTyped, ParentsAreOlder, SupervisedIsMarked, Supervised
  <2>4. CASE \E h \in Hosts : Listen(h) \/ Die(h) \/ Collect(h) \/ BeginStop(h) \/ ShutDown(h) \/ GrowOld(h)
    <3> PICK h \in Hosts : Listen(h) \/ Die(h) \/ Collect(h) \/ BeginStop(h) \/ ShutDown(h) \/ GrowOld(h)
      BY <2>4
    <3>0. process[h] \in HostProcess /\ time \in Nat
      BY <2>0 DEF HostsTyped
    <3>1. UNCHANGED <<gateway, time, starting>>
      BY DEF Listen, Die, Collect, BeginStop, ShutDown, GrowOld
    <3>2. Alive(process[h]) /\ process[h].parent = gateway /\ h # starting
            => process[h].metadata /\ SocketActive(process[h])
      BY <2>0 DEF SupervisedIsMarked, Supervised
    <3>3. \E r \in HostProcess :
            /\ r.parent = process[h].parent /\ process' = [process EXCEPT ![h] = r]
            /\ Alive(r) /\ r.parent = gateway /\ h # starting => r.metadata /\ SocketActive(r)
      <4>1. CASE Listen(h)
        <5> DEFINE r == [process[h] EXCEPT !.os = "serving", !.socket = TRUE]
        <5>1. process' = [process EXCEPT ![h] = r] /\ Alive(process[h])
          BY <3>0, <4>1 DEF Listen, Alive, HostProcess
        <5>2. r \in HostProcess /\ r.parent = process[h].parent /\ r.metadata = process[h].metadata
              /\ SocketActive(r)
          BY <3>0 DEF HostProcess, SocketActive
        <5> QED
          BY <3>2, <5>1, <5>2
      <4>2. CASE Die(h) \/ ShutDown(h)
        <5> DEFINE r == [process[h] EXCEPT !.os = "dead"]
        <5>1. process' = [process EXCEPT ![h] = r]
          BY <4>2 DEF Die, ShutDown
        <5>2. r \in HostProcess /\ r.parent = process[h].parent /\ ~Alive(r)
          BY <3>0 DEF HostProcess, Alive
        <5> QED
          BY <5>1, <5>2
      <4>3. CASE Collect(h)
        <5> DEFINE r == [process[h] EXCEPT !.socket = FALSE, !.metadata = FALSE, !.exited = TRUE,
                                           !.crashAt = IF process[h].stopping THEN 0 ELSE time]
        <5>1. process' = [process EXCEPT ![h] = r] /\ process[h].os = "dead"
          BY <3>0, <4>3 DEF Collect, HostProcess
        <5>2. r \in HostProcess /\ r.parent = process[h].parent /\ ~Alive(r)
          BY <3>0, <5>1 DEF HostProcess, Alive
        <5> QED
          BY <5>1, <5>2
      <4>4. CASE BeginStop(h)
        <5> DEFINE r == [process[h] EXCEPT !.stopping = TRUE]
        <5>1. process' = [process EXCEPT ![h] = r]
          BY <4>4 DEF BeginStop
        <5>2. r \in HostProcess /\ r.parent = process[h].parent /\ r.metadata = process[h].metadata
              /\ r.socket = process[h].socket /\ r.os = process[h].os
          BY <3>0 DEF HostProcess
        <5> HIDE DEF r
        <5> QED
          BY <3>2, <5>1, <5>2 DEF Alive, SocketActive
      <4>5. CASE GrowOld(h)
        <5> DEFINE r == [process[h] EXCEPT !.old = TRUE]
        <5>1. process' = [process EXCEPT ![h] = r]
          BY <4>5 DEF GrowOld
        <5>2. r \in HostProcess /\ r.parent = process[h].parent /\ r.metadata = process[h].metadata
              /\ r.socket = process[h].socket /\ r.os = process[h].os
          BY <3>0 DEF HostProcess
        <5> HIDE DEF r
        <5> QED
          BY <3>2, <5>1, <5>2 DEF Alive, SocketActive
      <4> QED
        BY <4>1, <4>2, <4>3, <4>4, <4>5
    <3> QED
      BY <1>2, <3>1, <3>3, OneProcess
  <2>5. CASE GatewayRestart
    <3>1. UNCHANGED <<process, time>> /\ gateway' = gateway + 1 /\ starting' = NoHost
      BY <2>5 DEF GatewayRestart
    <3>2. \A h \in Hosts : process[h].parent \in Nat /\ process[h].parent <= gateway
      BY <2>0 DEF HostsTyped, HostProcess, ParentsAreOlder
    <3> QED
      BY <2>0, <3>1, <3>2 DEF HostInv, HostsTyped, ParentsAreOlder, SupervisedIsMarked, Supervised
  <2>6. CASE HostTick
    BY <2>0, <2>6 DEF HostTick, HostInv, HostsTyped, ParentsAreOlder, SupervisedIsMarked, Supervised
  <2> QED
    BY <1>2, <2>1, <2>2, <2>3, <2>4, <2>5, <2>6, <2>7 DEF HostNext
<1>3. ASSUME HostInv, UNCHANGED hostVars PROVE HostInv'
  BY <1>3 DEF HostInv, HostsTyped, ParentsAreOlder, SupervisedIsMarked, Supervised, hostVars
<1> QED
  BY <1>1, <1>2, <1>3

\* The sweep that PluginHostSupervisor.Start makes never touches a host this
\* gateway supervises, for any number of hosts, gateways and binaries and
\* whatever the age of the files.
THEOREM SweepSparesSupervisedAlways == HostSpec => SweepSparesSupervised
<1>1. ASSUME HostInv, HostNext, starting = NoHost, starting' # NoHost
      PROVE  \A h \in Hosts : Supervised(h) => process'[h] = process[h]
  <2>1. PICK b \in HostBinaries : Spawn(b)
    BY <1>1 DEF HostNext, DropCrashed, WriteMetadata, StartFails, StartSucceeds, Listen, Die, Collect,
         BeginStop, ShutDown, RecordStopped, GrowOld, Disable, RefreshList, RefreshApply, Isolate,
         IsolateMark, GatewayRestart, HostTick
  <2> QED
    BY <1>1, <2>1, SpawnSpares
<1>2. HostInv /\ [HostNext]_hostVars =>
        [starting = NoHost /\ starting' # NoHost =>
           \A h \in Hosts : Supervised(h) => process'[h] = process[h]]_hostVars
  BY <1>1
<1> QED
  BY <1>2, HostInductive, PTL DEF HostSpec, SweepSparesSupervised

-----------------------------------------------------------------------------
(* The release gate: what a request carries from the gate to the lock.       *)

GateAsk == [at : {"refresh", "gate", "load"}, p : Plugs, cfg : Cfgs, gen : Nat]
ReloadAsk == [at : {"reload"}, p : Plugs, cfg : Cfgs, gen : Nat, then : {"idle", "gate"}]

\* A request that the gate let through carries the configuration the gate
\* looked at; a review that was there stays there.
AskOK(a) ==
    /\ a.at \in {"refresh", "gate", "load"} => a \in GateAsk
    /\ a.at = "reload" => a \in ReloadAsk
    /\ a.at = "load" /\ a.p \in HighRisk => <<a.cfg, "approved">> \in reviews[a.p]

GateInv ==
    /\ want \in [Plugs -> [on : BOOLEAN, cfg : Cfgs, gen : Nat]]
    /\ loadedCfg \in [Plugs -> Cfgs \cup {NoCfg}]
    /\ reviews \in [Plugs -> SUBSET (Cfgs \X {"approved", "rejected"})]
    /\ DOMAIN ask = GateRequests
    /\ \A r \in GateRequests : AskOK(ask[r])

\* A step that changes one request, and takes back no review.
LEMMA OneAsk ==
    ASSUME GateInv, NEW r \in GateRequests, NEW a, AskOK(a), ask' = [ask EXCEPT ![r] = a],
           UNCHANGED reviews
    PROVE  DOMAIN ask' = GateRequests /\ (\A q \in GateRequests : AskOK(ask[q])')
<1>1. DOMAIN ask' = GateRequests /\ ask'[r] = a /\ \A q \in GateRequests : q # r => ask'[q] = ask[q]
  BY DEF GateInv
<1>2. \A q \in GateRequests : AskOK(ask[q])
  BY DEF GateInv
<1> QED
  BY <1>1, <1>2 DEF AskOK

\* Init and every step keep GateInv.
LEMMA GateInductive ==
    /\ GateInit => GateInv
    /\ GateInv /\ [GateNext]_gateVars => GateInv'
<1>1. GateInit => GateInv
  BY DEF GateInit, GateInv, NoAsk, AskOK
<1>2. ASSUME GateInv, GateNext PROVE GateInv'
  <2>0. AskOK(NoAsk)
    BY DEF AskOK, NoAsk
  <2>1. ASSUME NEW p \in Plugs, NEW d \in {"approved", "rejected"}, CreateReview(p, d) PROVE GateInv'
    <3>1. /\ UNCHANGED <<want, loadedCfg, ask>> /\ want[p].cfg \in Cfgs
          /\ reviews' = [reviews EXCEPT ![p] = @ \cup {<<want[p].cfg, d>>}]
      BY <1>2, <2>1 DEF CreateReview, GateInv
    <3>2. reviews' \in [Plugs -> SUBSET (Cfgs \X {"approved", "rejected"})]
      BY <1>2, <3>1 DEF GateInv
    <3>3. \A q \in Plugs : reviews[q] \subseteq reviews'[q]
      BY <1>2, <3>1 DEF GateInv
    <3> QED
      BY <1>2, <3>1, <3>2, <3>3 DEF GateInv, AskOK, GateAsk
  <2>2. CASE \/ \E p \in Plugs : (\E s \in Severities : Grade(p, s)) \/ CreateWarningOverride(p)
             \/ NextDay
    BY <1>2, <2>2 DEF Grade, CreateWarningOverride, NextDay, GateInv, AskOK
  <2>3. ASSUME NEW p \in Plugs, DisablePlugin(p) PROVE GateInv'
    BY <1>2, <2>3 DEF DisablePlugin, GateInv, AskOK, tables
  <2>4. ASSUME NEW r \in GateRequests, NEW p \in Plugs, NEW c \in Cfgs, NEW on \in BOOLEAN,
               NEW then \in {"idle", "gate"}, Desire(r, p, c, on, then), UNCHANGED <<loadedCfg, reviews>>
        PROVE  GateInv'
    <3> DEFINE a == IF on THEN [at |-> "reload", p |-> p, cfg |-> c, gen |-> want[p].gen + 1, then |-> then]
                    ELSE NoAsk
    <3>1. want[p] \in [on : BOOLEAN, cfg : Cfgs, gen : Nat]
      BY <1>2 DEF GateInv
    <3>2. want' \in [Plugs -> [on : BOOLEAN, cfg : Cfgs, gen : Nat]]
      BY <1>2, <2>4, <3>1 DEF Desire, GateInv
    <3>3. ask' = [ask EXCEPT ![r] = a] /\ AskOK(a)
      BY <2>0, <2>4, <3>1 DEF Desire, AskOK, ReloadAsk
    <3> HIDE DEF a
    <3> QED
      BY <1>2, <2>4, <3>2, <3>3, OneAsk DEF GateInv
  <2>5. ASSUME NEW r \in GateRequests, NEW p \in Plugs, Enable(r, p) PROVE GateInv'
    <3>1. want[p] \in [on : BOOLEAN, cfg : Cfgs, gen : Nat]
      BY <1>2 DEF GateInv
    <3>2. CASE want[p].on
      <4> DEFINE a == [at |-> "gate", p |-> p, cfg |-> want[p].cfg, gen |-> want[p].gen]
      <4>1. ask' = [ask EXCEPT ![r] = a] /\ UNCHANGED <<want, loadedCfg, reviews>>
        BY <2>5, <3>2 DEF Enable, tables
      <4>2. AskOK(a)
        BY <3>1 DEF AskOK, GateAsk
      <4> HIDE DEF a
      <4> QED
        BY <1>2, <4>1, <4>2, OneAsk DEF GateInv
    <3>3. CASE ~want[p].on
      BY <2>4, <2>5, <3>1, <3>3 DEF Enable, tables
    <3> QED
      BY <3>2, <3>3
  <2>6. ASSUME NEW r \in GateRequests, Reload(r) PROVE GateInv'
    <3>1. ask[r] \in ReloadAsk
      BY <1>2, <2>6 DEF Reload, GateInv, AskOK
    <3> DEFINE a == IF ask[r].then = "gate"
                    THEN [at |-> "refresh", p |-> ask[r].p, cfg |-> ask[r].cfg, gen |-> ask[r].gen] ELSE NoAsk
    <3>2. ask' = [ask EXCEPT ![r] = a] /\ UNCHANGED <<want, reviews>>
      BY <2>6 DEF Reload, AfterReload, tables
    <3>3. AskOK(a)
      BY <2>0, <3>1 DEF AskOK, GateAsk, ReloadAsk
    <3>4. loadedCfg' \in [Plugs -> Cfgs \cup {NoCfg}]
      BY <1>2, <2>6, <3>1 DEF Reload, GateInv, ReloadAsk
    <3> HIDE DEF a
    <3> QED
      BY <1>2, <3>2, <3>3, <3>4, OneAsk DEF GateInv
  <2>7. ASSUME NEW r \in GateRequests, AskGate(r) PROVE GateInv'
    <3>1. ask[r] \in GateAsk
      BY <1>2, <2>7 DEF AskGate, GateInv, AskOK
    <3> DEFINE a == IF GateOpen(ask[r].p, ask[r].cfg) THEN [ask[r] EXCEPT !.at = "load"] ELSE NoAsk
    <3>2. ask' = [ask EXCEPT ![r] = a] /\ UNCHANGED <<want, loadedCfg, reviews>>
      BY <2>7 DEF AskGate, Ends, tables
    <3>3. GateOpen(ask[r].p, ask[r].cfg) /\ ask[r].p \in HighRisk => <<ask[r].cfg, "approved">> \in reviews[ask[r].p]
      BY DEF GateOpen, Issues, Reviewed
    <3>4. AskOK(a)
      BY <2>0, <3>1, <3>3 DEF AskOK, GateAsk
    <3> HIDE DEF a
    <3> QED
      BY <1>2, <3>2, <3>4, OneAsk DEF GateInv
  <2>8. ASSUME NEW r \in GateRequests, LoadAndPublish(r) PROVE GateInv'
    <3>1. ask[r] \in GateAsk
      BY <1>2, <2>8 DEF LoadAndPublish, GateInv, AskOK
    <3>2. ask' = [ask EXCEPT ![r] = NoAsk] /\ UNCHANGED <<want, reviews>>
      BY <2>8 DEF LoadAndPublish, Ends, tables
    <3>3. loadedCfg' \in [Plugs -> Cfgs \cup {NoCfg}]
      BY <1>2, <2>8, <3>1 DEF LoadAndPublish, GateInv, GateAsk
    <3> QED
      BY <1>2, <2>0, <3>2, <3>3, OneAsk DEF GateInv
  <2>9. ASSUME NEW r \in GateRequests,
               \/ ReloadFails(r) \/ Rescan(r) \/ Scan(r) \/ ListPlugins(r) \/ QuarantineAffected(r)
               \/ \E n \in Notices, s \in {"active", "acked", "revoked"}, a \in Actions,
                     ps \in SUBSET Plugs \ {{}}, i \in BOOLEAN : UpsertNotice(r, n, s, a, ps, i /\ n \in Vulns)
        PROVE  GateInv'
    <3>1. UNCHANGED <<want, loadedCfg, reviews>>
      BY <2>9 DEF ReloadFails, Rescan, Scan, ListPlugins, QuarantineAffected, UpsertNotice, tables
    <3>2. \E a : ask' = [ask EXCEPT ![r] = a] /\ AskOK(a)
      <4>1. CASE ReloadFails(r) \/ Rescan(r) \/ Scan(r)
        BY <4>1, <2>0 DEF ReloadFails, Ends, Rescan, Scan, AskOK
      <4>2. CASE ListPlugins(r) \/ QuarantineAffected(r)
        <5>1. CASE ListPlugins(r)
          BY <5>1 DEF ListPlugins, AskOK
        <5>2. CASE QuarantineAffected(r)
          <6>1. AskOK([at |-> "list", todo |-> ask[r].todo])
            BY DEF AskOK
          <6> QED
            BY <2>0, <5>2, <6>1 DEF QuarantineAffected
        <5> QED
          BY <4>2, <5>1, <5>2
      <4>3. CASE \E n \in Notices, s \in {"active", "acked", "revoked"}, a \in Actions,
                     ps \in SUBSET Plugs \ {{}}, i \in BOOLEAN : UpsertNotice(r, n, s, a, ps, i /\ n \in Vulns)
        <5>1. PICK n \in Notices, s \in {"active", "acked", "revoked"}, a \in Actions,
                   ps \in SUBSET Plugs \ {{}}, i \in BOOLEAN : UpsertNotice(r, n, s, a, ps, i /\ n \in Vulns)
          BY <4>3
        <5>2. AskOK([at |-> "scan"]) /\ AskOK([at |-> "list", todo |-> {ps}])
          BY DEF AskOK
        <5>3. \/ ask' = [ask EXCEPT ![r] = [at |-> "scan"]]
              \/ ask' = [ask EXCEPT ![r] = [at |-> "list", todo |-> {ps}]]
              \/ ask' = [ask EXCEPT ![r] = NoAsk]
          BY <5>1 DEF UpsertNotice
        <5> QED
          BY <2>0, <5>2, <5>3
      <4> QED
        BY <2>9, <4>1, <4>2, <4>3
    <3> QED
      BY <1>2, <3>1, <3>2, OneAsk DEF GateInv
  <2>10. ASSUME NEW r \in GateRequests, NEW p \in Plugs, NEW c \in Cfgs, NEW on \in BOOLEAN, SetDesired(r, p, c, on)
         PROVE  GateInv'
    BY <2>4, <2>10 DEF SetDesired, tables
  <2>11. ASSUME NEW r \in GateRequests, RefreshRow(r) PROVE GateInv'
    <3>1. ask[r] \in GateAsk
      BY <1>2, <2>11 DEF RefreshRow, GateInv, AskOK
    <3>2. want[ask[r].p] \in [on : BOOLEAN, cfg : Cfgs, gen : Nat]
      BY <1>2, <3>1 DEF GateInv, GateAsk
    <3>3. PICK row \in {ask[r], want[ask[r].p]} :
            ask' = [ask EXCEPT ![r] = [at |-> "gate", p |-> ask[r].p, cfg |-> row.cfg, gen |-> row.gen]]
      BY <2>11 DEF RefreshRow
    <3>4. row.cfg \in Cfgs /\ row.gen \in Nat
      BY <3>1, <3>2, <3>3 DEF GateAsk
    <3>5. AskOK([at |-> "gate", p |-> ask[r].p, cfg |-> row.cfg, gen |-> row.gen])
      BY <3>1, <3>4 DEF AskOK, GateAsk
    <3>6. UNCHANGED <<want, loadedCfg, reviews>>
      BY <2>11 DEF RefreshRow, tables
    <3> QED
      BY <1>2, <3>3, <3>5, <3>6, OneAsk DEF GateInv
  <2> QED
    BY <1>2, <2>1, <2>2, <2>3, <2>5, <2>6, <2>7, <2>8, <2>9, <2>10, <2>11 DEF GateNext
<1>3. ASSUME GateInv, UNCHANGED gateVars PROVE GateInv'
  BY <1>3 DEF GateInv, AskOK, gateVars
<1> QED
  BY <1>1, <1>2, <1>3

\* Enable publishes a plugin of high risk only with a configuration that an
\* approved review names, for any plugins, configurations, notices and
\* overlapping requests, although the gate is asked without the manager's lock.
THEOREM PublishedIsReviewedAlways == GateSpec => PublishedIsReviewed
<1>1. ASSUME GateInv, GateNext, NEW p \in HighRisk, p \in live' \ live
      PROVE  <<loadedCfg'[p], "approved">> \in reviews[p]
  <2>1. PICK r \in GateRequests : LoadAndPublish(r)
    BY <1>1, ZenonT(30) DEF GateNext, CreateReview, Grade, CreateWarningOverride, DisablePlugin,
       NextDay, Enable,
         SetDesired, Reload, ReloadFails, RefreshRow, AskGate, UpsertNotice, Rescan, Scan, ListPlugins, QuarantineAffected
  <2>2. ask[r] \in GateAsk /\ AskOK(ask[r]) /\ ask[r].at = "load"
    BY <1>1, <2>1 DEF LoadAndPublish, GateInv, AskOK
  <2>3. p = ask[r].p /\ loadedCfg' = [loadedCfg EXCEPT ![p] = ask[r].cfg]
    BY <1>1, <2>1 DEF LoadAndPublish
  <2>4. loadedCfg'[p] = ask[r].cfg
    BY <1>1, <2>2, <2>3 DEF GateInv, GateAsk
  <2> QED
    BY <1>1, <2>2, <2>3, <2>4 DEF AskOK
<1>2. GateInv /\ [GateNext]_gateVars =>
        [\A p \in HighRisk : p \in live' \ live => <<loadedCfg'[p], "approved">> \in reviews[p]]_gateVars
  BY <1>1
<1> QED
  BY <1>2, GateInductive, PTL DEF GateSpec, PublishedIsReviewed

-----------------------------------------------------------------------------
(* Secrets: how long an answer may outlast the version it carries.           *)

SecretAnswer == [at : {"answer"}, version : Versions, ttl : Nat, since : Nat]
SecretGrant == [version : Versions, expires : Nat, took : Nat]
Longest == IF SecretTTL < Grace THEN Grace ELSE SecretTTL

SecretsTyped ==
    /\ secret \in [current : Versions, previous : Versions, updated : Nat]
    /\ secretNow \in 0..MaxSecretTime
    /\ replacedAt \in [Versions -> 0..(MaxSecretTime + 1)]
    /\ DOMAIN resolve = Resolves
    /\ \A q \in Resolves :
         /\ resolve[q].at = "material" => resolve[q] \in [at : {"material"}, version : Versions]
         /\ resolve[q].at = "answer" => resolve[q] \in SecretAnswer
    /\ grants \subseteq SecretGrant

\* The versions below the current one have been replaced, the others not yet;
\* the row's timestamp is when the previous version was.
ReplacedInOrder ==
    /\ \A v \in Versions : IF v < secret.current THEN replacedAt[v] <= secretNow
                           ELSE replacedAt[v] = MaxSecretTime + 1
    /\ IF secret.current = 0 THEN secret.previous = 0
       ELSE secret.previous = secret.current - 1 /\ secret.updated = replacedAt[secret.previous]

\* Counted from when the clock was first read, an answer lasts no longer than
\* the longer interval after that reading, and after the version's end.
Lasts(version, since, until) ==
    /\ since <= secretNow /\ until <= since + Longest
    /\ replacedAt[version] <= secretNow => until <= replacedAt[version] + Longest

AnswersLapse ==
    \A q \in Resolves : resolve[q].at = "answer" =>
        Lasts(resolve[q].version, resolve[q].since, resolve[q].since + resolve[q].ttl)

GrantsLapse ==
    \A g \in grants : \E since \in Nat : Lasts(g.version, since, g.expires - g.took)

SecretInv == SecretsTyped /\ ReplacedInOrder /\ AnswersLapse /\ GrantsLapse

\* A rotation and the clock keep what Lasts says of an answer.
LEMMA LastsOn ==
    ASSUME SecretInv, SecretTick \/ Rotate,
           NEW version \in Versions, NEW since \in Nat, NEW until \in Int, Lasts(version, since, until)
    PROVE  Lasts(version, since, until)'
<1> USE SecretAssumption
<1>1. secretNow \in Nat /\ MaxSecretTime \in Nat /\ Longest \in Nat /\ replacedAt[version] \in Nat
      /\ secretNow <= MaxSecretTime
  BY DEF SecretInv, SecretsTyped, Longest
<1>2. IF version < secret.current THEN replacedAt[version] <= secretNow
      ELSE replacedAt[version] = MaxSecretTime + 1
  BY DEF SecretInv, ReplacedInOrder
<1>3. CASE SecretTick
  <2>1. secretNow' = secretNow + 1 /\ secretNow < MaxSecretTime /\ UNCHANGED replacedAt
    BY <1>3 DEF SecretTick
  <2> HIDE DEF Longest
  <2> QED
    BY <1>1, <1>2, <2>1 DEF Lasts
<1>4. CASE Rotate
  <2>1. secretNow' = secretNow /\ replacedAt' = [replacedAt EXCEPT ![secret.current] = secretNow]
    BY <1>4 DEF Rotate
  <2>2. replacedAt'[version] = IF version = secret.current THEN secretNow ELSE replacedAt[version]
    BY <2>1 DEF SecretInv, SecretsTyped
  <2> HIDE DEF Longest
  <2> QED
    BY <1>1, <1>2, <2>1, <2>2 DEF Lasts
<1> QED
  BY <1>3, <1>4

\* Init and every step keep SecretInv.
LEMMA SecretInductive ==
    /\ SecretInit => SecretInv
    /\ SecretInv /\ [SecretNext]_secretVars => SecretInv'
<1> USE SecretAssumption
<1>1. SecretInit => SecretInv
  <2> SUFFICES ASSUME SecretInit PROVE SecretInv
    OBVIOUS
  <2>1. SecretsTyped
    BY DEF SecretInit, SecretsTyped, Quiet, Versions
  <2>2. ReplacedInOrder
    BY DEF SecretInit, ReplacedInOrder, Versions
  <2>3. AnswersLapse /\ GrantsLapse
    BY DEF SecretInit, AnswersLapse, GrantsLapse, Quiet
  <2> QED
    BY <2>1, <2>2, <2>3 DEF SecretInv
<1>2. ASSUME SecretInv, SecretNext PROVE SecretInv'
  <2>0. SecretsTyped /\ ReplacedInOrder /\ AnswersLapse /\ GrantsLapse
    BY <1>2 DEF SecretInv
  <2>1. ASSUME Rotate PROVE SecretInv'
    <3>1. /\ secret.current \in Nat /\ secret.current < MaxVersion
          /\ secret' = [current |-> secret.current + 1, previous |-> secret.current, updated |-> secretNow]
          /\ replacedAt' = [replacedAt EXCEPT ![secret.current] = secretNow]
          /\ UNCHANGED <<resolve, grants, secretNow>>
      BY <2>0, <2>1 DEF Rotate, SecretsTyped, Versions
    <3>2. SecretsTyped'
      BY <2>0, <3>1, SMTT(30) DEF SecretsTyped, Versions
    <3>3. ReplacedInOrder'
      BY <2>0, <3>1, SMTT(30) DEF SecretsTyped, ReplacedInOrder, Versions
    <3>4. AnswersLapse'
      BY <1>2, <2>0, <2>1, <3>1, LastsOn DEF SecretsTyped, AnswersLapse, SecretAnswer
    <3>5. GrantsLapse'
      BY <1>2, <2>0, <2>1, <3>1, LastsOn DEF SecretsTyped, GrantsLapse, SecretGrant
    <3> QED
      BY <3>2, <3>3, <3>4, <3>5 DEF SecretInv
  <2>2. ASSUME SecretTick PROVE SecretInv'
    <3>1. /\ secretNow \in Nat /\ secretNow < MaxSecretTime /\ secretNow' = secretNow + 1
          /\ UNCHANGED <<secret, resolve, replacedAt>> /\ grants' \subseteq grants
      BY <2>0, <2>2 DEF SecretTick, SecretsTyped
    <3>2. SecretsTyped'
      BY <2>0, <3>1 DEF SecretsTyped, Versions
    <3>3. ReplacedInOrder'
      BY <2>0, <3>1 DEF SecretsTyped, ReplacedInOrder, Versions
    <3>4. AnswersLapse'
      BY <1>2, <2>0, <2>2, <3>1, LastsOn DEF SecretsTyped, AnswersLapse, SecretAnswer
    <3>5. GrantsLapse'
      BY <1>2, <2>0, <2>2, <3>1, LastsOn DEF SecretsTyped, GrantsLapse, SecretGrant
    <3> QED
      BY <3>2, <3>3, <3>4, <3>5 DEF SecretInv
  <2>3. ASSUME NEW q \in Resolves, NEW art \in BoxArts, NEW gen \in 1..2, NEW v \in Versions,
               AskSecret(q, art, gen, v)
        PROVE  SecretInv'
    <3>1. /\ resolve' = [resolve EXCEPT ![q] = [at |-> "material", version |-> v]]
          /\ UNCHANGED <<secret, grants, secretNow, replacedAt>>
      BY <2>3 DEF AskSecret
    <3>2. SecretsTyped'
      BY <2>0, <3>1 DEF SecretsTyped
    <3>3. AnswersLapse'
      BY <2>0, <3>1 DEF SecretsTyped, AnswersLapse, Lasts
    <3> QED
      BY <2>0, <3>1, <3>2, <3>3 DEF SecretInv, ReplacedInOrder, GrantsLapse, Lasts
  <2>4. ASSUME NEW q \in Resolves, ReadMaterial(q) PROVE SecretInv'
    <3> DEFINE v == resolve[q].version
               Answer(version, ttl) == [at |-> "answer", version |-> version, ttl |-> ttl, since |-> secretNow]
    <3>0. /\ UNCHANGED <<secret, grants, secretNow, replacedAt>> /\ v \in Versions
          /\ DOMAIN resolve = Resolves /\ secretNow \in Nat /\ secret.current \in Versions
      BY <2>0, <2>4 DEF ReadMaterial, SecretsTyped
    <3>1. ASSUME NEW a, resolve' = [resolve EXCEPT ![q] = a], a.at \in {"idle", "answer"},
                 a.at = "answer" => a \in SecretAnswer /\ Lasts(a.version, a.since, a.since + a.ttl)
          PROVE  SecretInv'
      <4>1. SecretsTyped'
        BY <2>0, <3>0, <3>1 DEF SecretsTyped
      <4>2. AnswersLapse'
        BY <2>0, <3>0, <3>1 DEF AnswersLapse, Lasts
      <4> QED
        BY <2>0, <3>0, <4>1, <4>2 DEF SecretInv, ReplacedInOrder, GrantsLapse, Lasts
    <3>2. CASE IsCurrent(v) /\ secret.current > 0
      <4>1. resolve' = [resolve EXCEPT ![q] = Answer(secret.current, SecretTTL)]
        BY <2>4, <3>2 DEF ReadMaterial
      <4>2. Answer(secret.current, SecretTTL) \in SecretAnswer
        BY <3>0 DEF SecretAnswer
      <4>3. replacedAt[secret.current] = MaxSecretTime + 1 /\ secretNow <= MaxSecretTime
        BY <2>0, <3>0 DEF ReplacedInOrder, SecretsTyped, Versions
      <4>4. Lasts(secret.current, secretNow, secretNow + SecretTTL)
        BY <3>0, <4>3 DEF Lasts, Longest
      <4> QED
        BY <3>1, <4>1, <4>2, <4>4
    <3>3. CASE ~IsCurrent(v) /\ IsPrevious(v)
      <4>1. resolve' = [resolve EXCEPT ![q] = Answer(v, PreviousTTL)]
        BY <2>4, <3>3 DEF ReadMaterial
      <4>2. /\ v > 0 /\ v = secret.previous /\ secret.updated + Grace > secretNow /\ secret.updated \in Nat
        BY <2>0, <3>3 DEF IsPrevious, SecretsTyped
      <4>3. PreviousTTL \in Nat /\ PreviousTTL <= SecretTTL /\ secretNow + PreviousTTL <= secret.updated + Grace
        BY <3>0, <4>2 DEF PreviousTTL, Least, Remaining
      <4>4. Answer(v, PreviousTTL) \in SecretAnswer
        BY <3>0, <4>3 DEF SecretAnswer
      <4>5. secret.updated = replacedAt[v]
        BY <2>0, <3>0, <3>3, <4>2 DEF ReplacedInOrder, IsCurrent, SecretsTyped, Versions
      <4>6. Lasts(v, secretNow, secretNow + PreviousTTL)
        <5> HIDE DEF v
        <5> QED
          BY <3>0, <4>2, <4>3, <4>5 DEF Lasts, Longest
      <4> QED
        BY <3>1, <4>1, <4>4, <4>6
    <3>4. CASE ~(IsCurrent(v) /\ secret.current > 0) /\ ~(~IsCurrent(v) /\ IsPrevious(v))
      <4>1. resolve' = [resolve EXCEPT ![q] = Quiet]
        BY <2>4, <3>4 DEF ReadMaterial
      <4> QED
        BY <3>1, <4>1 DEF Quiet
    <3> QED
      BY <3>2, <3>3, <3>4
  <2>5. ASSUME NEW q \in Resolves, Grant(q) PROVE SecretInv'
    <3> DEFINE a == resolve[q]
               g == [version |-> a.version, expires |-> secretNow + a.ttl, took |-> secretNow - a.since]
    <3>1. /\ grants' = grants \cup {g} /\ resolve' = [resolve EXCEPT ![q] = Quiet]
          /\ UNCHANGED <<secret, secretNow, replacedAt>>
      BY <2>5 DEF Grant
    <3>2. a \in SecretAnswer /\ Lasts(a.version, a.since, a.since + a.ttl) /\ secretNow \in Nat
      BY <2>0, <2>5 DEF Grant, SecretsTyped, AnswersLapse
    <3>3. g \in SecretGrant /\ g.expires - g.took = a.since + a.ttl /\ a.since \in Nat /\ g.version = a.version
      BY <3>2 DEF SecretAnswer, SecretGrant, Lasts
    <3> HIDE DEF g
    <3>4. SecretsTyped'
      BY <2>0, <3>1, <3>3 DEF SecretsTyped, Quiet
    <3>5. AnswersLapse'
      BY <2>0, <3>1 DEF SecretsTyped, AnswersLapse, Lasts, Quiet
    <3>6. GrantsLapse'
      BY <2>0, <3>1, <3>2, <3>3 DEF GrantsLapse, Lasts
    <3> QED
      BY <2>0, <3>1, <3>4, <3>5, <3>6 DEF SecretInv, ReplacedInOrder
  <2>6. CASE \E art \in BoxArts, gen \in 1..2, scoped \in BOOLEAN :
               MoveRow([art |-> art, gen |-> gen, applied |-> 1, scoped |-> scoped])
    <3>1. UNCHANGED <<secret, resolve, grants, secretNow, replacedAt>>
      BY <2>6 DEF MoveRow
    <3> QED
      BY <2>0, <3>1 DEF SecretInv, SecretsTyped, ReplacedInOrder, AnswersLapse, GrantsLapse, Lasts
  <2> QED
    BY <1>2, <2>1, <2>2, <2>3, <2>4, <2>5, <2>6 DEF SecretNext
<1>3. ASSUME SecretInv, UNCHANGED secretVars PROVE SecretInv'
  BY <1>3 DEF SecretInv, SecretsTyped, ReplacedInOrder, AnswersLapse, GrantsLapse, Lasts, secretVars
<1> QED
  BY <1>1, <1>2, <1>3

\* However requests, rotations and the clock interleave, no grant of
\* ResolveSandboxSecret for a superseded version lasts past the rotation by
\* more than the longer of the time to live and the grace period and the time
\* the answer took: for any number of versions and requests.
THEOREM OldSecretExpiresAlways == SecretSpec => []OldSecretExpires
<1>1. SecretInv => OldSecretExpires
  <2> SUFFICES ASSUME SecretInv, NEW g \in grants, replacedAt[g.version] <= secretNow
               PROVE  g.expires <= replacedAt[g.version] + Longest + g.took
    BY DEF OldSecretExpires, Longest
  <2>1. g.version \in Versions /\ g.expires \in Nat /\ g.took \in Nat
    BY DEF SecretInv, SecretsTyped, SecretGrant
  <2>2. replacedAt[g.version] \in Nat /\ Longest \in Nat
    BY <2>1, SecretAssumption DEF SecretInv, SecretsTyped, Longest
  <2>3. g.expires - g.took <= replacedAt[g.version] + Longest
    BY DEF SecretInv, GrantsLapse, Lasts
  <2> HIDE DEF Longest
  <2> QED
    BY <2>1, <2>2, <2>3
<1> QED
  BY <1>1, SecretInductive, PTL DEF SecretSpec

-----------------------------------------------------------------------------
(* Trust roots.                                                              *)

TrustKey == [stored : BOOLEAN, revoked : BOOLEAN, from : Nat, until : Nat]
TrustCommand == [at : {"save", "write"}, key : KeyIds, copy : [KeyIds -> TrustKey]]

\* A root that was revoked with no rotation past its check says so in its row,
\* and no request is about to overwrite it.
RootsStayRevoked ==
    /\ roots \in [KeyIds -> {"none", "trusted", "revoked"}]
    /\ rootReq \in [RootRequests -> SUBSET KeyIds]
    /\ \A k \in revokedRoots \ racedRoots :
         roots[k] = "revoked" /\ \A r \in RootRequests : k \notin rootReq[r]

TrustFileTyped ==
    /\ keyFile \in [KeyIds -> TrustKey]
    /\ DOMAIN command = SignRuns
    /\ \A c \in SignRuns : command[c] # AtRest => command[c] \in TrustCommand
    /\ revokedKeys \subseteq KeyIds
    /\ spoiled \in BOOLEAN

\* As long as commands come one at a time, a revoked key says so in the file and
\* in the copy of the command at work; while that writes, the file is empty.
KeysStayRevoked ==
    ~spoiled =>
        /\ \A c, d \in SignRuns : command[c] # AtRest /\ command[d] # AtRest => c = d
        /\ \A c \in SignRuns : command[c].at = "write" => keyFile = EmptyFile
        /\ \A k \in revokedKeys :
             /\ keyFile[k].revoked \/ \E c \in SignRuns : command[c].at = "write"
             /\ \A c \in SignRuns : command[c] # AtRest => command[c].copy[k].revoked

TrustInv == RootsStayRevoked /\ TrustFileTyped /\ KeysStayRevoked

\* Init and every step keep the invariant of the table and of the file.
LEMMA TrustInductive ==
    /\ TrustInit => TrustInv
    /\ TrustInv /\ [TrustNext]_trustVars => TrustInv'
<1>1. TrustInit => TrustInv
  <2> SUFFICES ASSUME TrustInit PROVE TrustInv
    OBVIOUS
  <2>1. RootsStayRevoked
    BY DEF TrustInit, RootsStayRevoked
  <2>2. TrustFileTyped
    BY DEF TrustInit, TrustFileTyped, EmptyFile, NoKey, TrustKey
  <2>3. KeysStayRevoked
    BY DEF TrustInit, KeysStayRevoked, AtRest
  <2> QED
    BY <2>1, <2>2, <2>3 DEF TrustInv
<1>2. ASSUME TrustInv, TrustNext PROVE TrustInv'
  <2>0. RootsStayRevoked /\ TrustFileTyped /\ KeysStayRevoked
    BY <1>2 DEF TrustInv
  <2>1. ASSUME NEW r \in RootRequests, NEW k \in KeyIds,
               RotateTrustRoot(r, k) \/ SaveTrustRoot(r, k) \/ RevokeTrustRoot(r, k)
        PROVE  TrustInv'
    <3>1. UNCHANGED <<keyFile, command, revokedKeys, spoiled>>
      BY <2>1 DEF RotateTrustRoot, SaveTrustRoot, RevokeTrustRoot, fileVars
    <3>2. TrustFileTyped' /\ KeysStayRevoked'
      BY <2>0, <3>1 DEF TrustFileTyped, KeysStayRevoked
    <3>3. RootsStayRevoked'
      <4>1. CASE RotateTrustRoot(r, k)
        BY <2>0, <4>1 DEF RotateTrustRoot, Rotatable, RootsStayRevoked
      <4>2. CASE SaveTrustRoot(r, k)
        BY <2>0, <4>2 DEF SaveTrustRoot, RootsStayRevoked
      <4>3. CASE RevokeTrustRoot(r, k)
        <5>1. /\ UNCHANGED rootReq /\ roots' = [roots EXCEPT ![k] = "revoked"]
              /\ revokedRoots' = revokedRoots \cup {k}
              /\ k \notin racedRoots' => \A q \in RootRequests : k \notin rootReq[q]
              /\ racedRoots \ {k} \subseteq racedRoots'
          BY <4>3 DEF RevokeTrustRoot
        <5> QED
          BY <2>0, <5>1 DEF RootsStayRevoked
      <4> QED
        BY <2>1, <4>1, <4>2, <4>3
    <3> QED
      BY <3>2, <3>3 DEF TrustInv
  <2>2. ASSUME UNCHANGED rootVars PROVE RootsStayRevoked'
    BY <2>0, <2>2 DEF rootVars, RootsStayRevoked
  <2>3. ASSUME NEW c \in SignRuns, NEW k \in KeyIds, NEW key \in TrustKey, Changed(c, k, key),
               keyFile[k].revoked => key.revoked
        PROVE  TrustInv'
    <3> DEFINE copy == [keyFile EXCEPT ![k] = key]
               new == [at |-> "save", key |-> k, copy |-> copy]
    <3>1. /\ UNCHANGED <<rootVars, keyFile, revokedKeys>> /\ command[c] = AtRest
          /\ command' = [command EXCEPT ![c] = new]
          /\ spoiled' = (spoiled \/ \E d \in SignRuns : command[d] # AtRest)
      BY <2>3 DEF Changed
    <3>2. copy \in [KeyIds -> TrustKey] /\ \A j \in KeyIds : copy[j] = IF j = k THEN key ELSE keyFile[j]
      BY <2>0 DEF TrustFileTyped
    <3> HIDE DEF copy
    <3>3. new \in TrustCommand /\ new.at = "save" /\ new.copy = copy /\ new # AtRest
      BY <3>2 DEF TrustCommand, AtRest
    <3> HIDE DEF new
    <3>4. /\ command'[c] = new /\ DOMAIN command' = SignRuns
          /\ \A d \in SignRuns \ {c} : command'[d] = command[d]
      BY <2>0, <3>1 DEF TrustFileTyped
    <3>5. ~spoiled' => ~spoiled /\ \A d \in SignRuns : command[d] = AtRest /\ command[d].at # "write"
      <4>1. ~spoiled' => ~spoiled /\ \A d \in SignRuns : command[d] = AtRest
        BY <3>1, Zenon
      <4>2. AtRest.at # "write"
        BY DEF AtRest
      <4> QED
        BY <4>1, <4>2
    <3>6. TrustFileTyped'
      BY <2>0, <3>1, <3>3, <3>4 DEF TrustFileTyped
    <3>7. ~spoiled' => \A j \in revokedKeys : keyFile[j].revoked /\ copy[j].revoked
      BY <2>0, <2>3, <3>2, <3>5 DEF KeysStayRevoked, TrustFileTyped
    <3>8. KeysStayRevoked'
      BY <3>1, <3>3, <3>4, <3>5, <3>7 DEF KeysStayRevoked
    <3> QED
      BY <2>2, <3>1, <3>6, <3>8 DEF TrustInv
  <2>4. ASSUME NEW c \in SignRuns, NEW k \in KeyIds, SignRevoke(c, k) PROVE TrustInv'
    <3>1. [keyFile[k] EXCEPT !.revoked = TRUE] \in TrustKey /\ [keyFile[k] EXCEPT !.revoked = TRUE].revoked
      BY <2>0 DEF TrustFileTyped, TrustKey
    <3> QED
      BY <2>3, <2>4, <3>1 DEF SignRevoke
  <2>5. ASSUME NEW c \in SignRuns, NEW k \in KeyIds, NEW window \in Windows, KeyRotation(c, k, window)
        PROVE  TrustInv'
    <3>1. [stored |-> TRUE, revoked |-> FALSE, from |-> window[1], until |-> window[2]] \in TrustKey
      BY TrustAssumption DEF TrustKey
    <3> QED
      BY <2>3, <2>5, <3>1 DEF KeyRotation
  <2>6. ASSUME NEW c \in SignRuns, Truncate(c) PROVE TrustInv'
    <3>1. /\ UNCHANGED <<rootVars, revokedKeys, spoiled>> /\ command[c].at = "save"
          /\ keyFile' = EmptyFile /\ command' = [command EXCEPT ![c].at = "write"]
      BY <2>6 DEF Truncate
    <3>2. command[c] \in TrustCommand /\ command[c] # AtRest
      BY <2>0, <3>1 DEF TrustFileTyped, AtRest
    <3>3. /\ command'[c] \in TrustCommand /\ command'[c].at = "write" /\ command'[c].copy = command[c].copy
          /\ DOMAIN command' = SignRuns /\ \A d \in SignRuns \ {c} : command'[d] = command[d]
          /\ command'[c] # AtRest
      BY <2>0, <3>1, <3>2 DEF TrustFileTyped, TrustCommand, AtRest
    <3>4. EmptyFile \in [KeyIds -> TrustKey]
      BY DEF EmptyFile, NoKey, TrustKey
    <3>5. TrustFileTyped'
      BY <2>0, <3>1, <3>3, <3>4 DEF TrustFileTyped
    <3>6. KeysStayRevoked'
      BY <2>0, <3>1, <3>2, <3>3 DEF KeysStayRevoked
    <3> QED
      BY <2>2, <3>1, <3>5, <3>6 DEF TrustInv
  <2>7. ASSUME NEW c \in SignRuns, WriteStore(c) PROVE TrustInv'
    <3> DEFINE w == command[c]
    <3>1. /\ UNCHANGED <<rootVars, spoiled>> /\ w.at = "write" /\ keyFile' = w.copy
          /\ revokedKeys' = IF w.copy[w.key].revoked THEN revokedKeys \cup {w.key} ELSE revokedKeys
          /\ command' = [command EXCEPT ![c] = AtRest]
      BY <2>7 DEF WriteStore
    <3>2. w \in TrustCommand /\ w # AtRest
      BY <2>0, <3>1 DEF TrustFileTyped, AtRest
    <3>3. w.copy \in [KeyIds -> TrustKey] /\ w.key \in KeyIds
      BY <3>2 DEF TrustCommand
    <3>4. /\ command'[c] = AtRest /\ DOMAIN command' = SignRuns
          /\ \A d \in SignRuns \ {c} : command'[d] = command[d] /\ (~spoiled => command[d] = AtRest)
      BY <2>0, <3>1, <3>2 DEF TrustFileTyped, KeysStayRevoked
    <3>5. TrustFileTyped'
      BY <2>0, <3>1, <3>3, <3>4 DEF TrustFileTyped
    <3>6. ~spoiled => \A k \in revokedKeys : w.copy[k].revoked
      BY <2>0, <3>2 DEF KeysStayRevoked
    <3> HIDE DEF w
    <3>7. ~spoiled => \A k \in revokedKeys' : keyFile'[k].revoked
      BY <3>1, <3>6
    <3>8. KeysStayRevoked'
      BY <3>1, <3>4, <3>7 DEF KeysStayRevoked, AtRest
    <3> QED
      BY <2>2, <3>1, <3>5, <3>8 DEF TrustInv
  <2>8. ASSUME NEW c \in SignRuns, CommandDies(c) PROVE TrustInv'
    <3>1. /\ UNCHANGED <<rootVars, keyFile, revokedKeys>> /\ spoiled' = (spoiled \/ command[c].at = "write")
          /\ command' = [command EXCEPT ![c] = AtRest]
      BY <2>8 DEF CommandDies
    <3>2. /\ command'[c] = AtRest /\ DOMAIN command' = SignRuns /\ command[c] # AtRest
          /\ \A d \in SignRuns \ {c} : command'[d] = command[d] /\ (~spoiled => command[d] = AtRest)
      BY <2>0, <2>8, <3>1 DEF CommandDies, TrustFileTyped, KeysStayRevoked
    <3>3. TrustFileTyped'
      BY <2>0, <3>1, <3>2 DEF TrustFileTyped
    <3>4. ~spoiled' => ~spoiled /\ \A k \in revokedKeys : keyFile[k].revoked
      <4>1. ~spoiled' => ~spoiled /\ command[c].at # "write"
        BY <3>1, Zenon
      <4>2. ~spoiled => \A d \in SignRuns \ {c} : command[d].at # "write"
        BY <3>2 DEF AtRest
      <4> QED
        BY <2>0, <4>1, <4>2 DEF KeysStayRevoked
    <3>5. KeysStayRevoked'
      BY <3>1, <3>2, <3>4 DEF KeysStayRevoked, AtRest
    <3> QED
      BY <2>2, <3>1, <3>3, <3>5 DEF TrustInv
  <2>9. CASE TrustDayPasses
    BY <2>0, <2>2, <2>9 DEF TrustDayPasses, fileVars, TrustInv, TrustFileTyped, KeysStayRevoked
  <2> QED
    BY <1>2, <2>1, <2>4, <2>5, <2>6, <2>7, <2>8, <2>9 DEF TrustNext, RootNext, FileNext
<1>3. ASSUME TrustInv, UNCHANGED trustVars PROVE TrustInv'
  BY <1>3 DEF TrustInv, RootsStayRevoked, TrustFileTyped, KeysStayRevoked, trustVars
<1> QED
  BY <1>1, <1>2, <1>3

\* Revocation is final for any number of keys, requests and commands: the gateway
\* accepts a revoked root only when a rotation had passed its check before the
\* revocation, and `plugin sign verify` a revoked key of its store only when
\* commands overlapped or one died with the file truncated.
THEOREM RevokedIsFinalAlways == TrustSpec => []RevokedIsFinal
<1>1. TrustInv => RevokedIsFinal
  <2> SUFFICES ASSUME TrustInv PROVE RevokedIsFinal
    OBVIOUS
  <2>1. \A k \in revokedRoots \ racedRoots : ~Verified(k)
    BY DEF TrustInv, RootsStayRevoked, Verified
  <2>2. ASSUME ~spoiled, NEW k \in revokedKeys, NEW named \in {{}} \cup {{j} : j \in KeyIds}
        PROVE  ~Verifies(k, FALSE, named)
    <3>1. k \in KeyIds /\ (keyFile[k].revoked \/ keyFile = EmptyFile)
      BY <2>2 DEF TrustInv, KeysStayRevoked, TrustFileTyped
    <3>2. CASE keyFile[k].revoked
      BY <3>2 DEF Verifies, TrustStatus
    <3>3. CASE keyFile = EmptyFile
      <4>1. Stored(keyFile) = {} /\ ActiveKeys(keyFile) = {}
        BY <3>3 DEF Stored, ActiveKeys, EmptyFile, NoKey
      <4> QED
        BY <4>1 DEF Verifies, Selects
    <3> QED
      BY <3>1, <3>2, <3>3
  <2> QED
    BY <2>1, <2>2 DEF RevokedIsFinal
<1>2. TrustInit => TrustInv
  BY TrustInductive
<1>3. TrustInv /\ [TrustNext]_trustVars => TrustInv'
  BY TrustInductive
<1> QED
  BY <1>1, <1>2, <1>3, PTL DEF TrustSpec

-----------------------------------------------------------------------------
(* Stored artifacts: a file that was written once stays written, or somebody *)
(* is rewriting it; a file that is neither spoiled nor being written is of   *)
(* one piece.                                                                *)

PackageKinds == {"binary", "built", "source"}

\* The stages of a kind, the ones after the entry is filled, and the ones
\* after there is a package.
StagesOf(k) ==
    CASE k = "binary" -> {"entry", "fill", "create", "head", "tail", "late", "row"}
      [] k = "built" -> {"entry", "fill", "create", "head", "tail", "rename", "row"}
      [] k = "source" -> {"entry", "fill", "create", "head", "tail", "late", "row"}
PastFill(k) ==
    CASE k = "binary" -> {"create", "head", "tail", "late", "row"}
      [] k = "built" -> {"create", "head", "tail", "rename", "row"}
      [] k = "source" -> {"late", "row"}
PastPackage(k) ==
    CASE k = "binary" -> {"head", "tail", "late", "row"}
      [] k = "built" -> {"row"}
      [] k = "source" -> {"head", "tail", "entry", "fill", "late", "row"}

UploadState ==
    {x \in [pkg : Packages \cup {NoPackage},
            at : {"idle", "entry", "fill", "create", "head", "tail", "late", "rename", "row"},
            to : {"none", "target", "tmp", "gone"}] :
        x.at # "idle" => x.pkg \in Packages /\ x.at \in StagesOf(PackageKind[x.pkg])}

PackageFile ==
    [head : Packages \cup {NoPackage}, tail : Packages \cup {NoPackage}, is : {"absent", "sound", "spoiled"}]

ArtifactsTyped ==
    /\ entryFile \in [Entries -> {"none", "torn", "whole"}]
    /\ package \in [Entries -> [Places -> PackageFile]]
    /\ artifactRow \in [Entries -> Packages \cup {NoPackage}]
    /\ upload \in [Uploads -> UploadState]

EntryWritten(a) ==
    entryFile[a] = "whole" \/ a \in brokenOff \/ \E u \in Uploads : upload[u].at = "fill" /\ Of(u) = a
PackageWritten(a) == package[a]["target"].is # "absent"

\* A sound file has one writer at most, whose first piece is in place when it
\* is at the second, and is of one piece when nobody writes it.
FileSound(a, place) ==
    LET file == package[a][place] IN
    /\ \A u \in Uploads : Writes(u, a, place) => file.is # "absent"
    /\ file.is = "sound" =>
         /\ \A u, v \in Uploads : Writes(u, a, place) /\ Writes(v, a, place) => u = v
         /\ \A u \in Uploads : Writes(u, a, place) /\ upload[u].at = "tail" => file.head = upload[u].pkg
         /\ (\A u \in Uploads : ~Writes(u, a, place)) => file.head # NoPackage /\ file.head = file.tail

\* An upload past a stage has its file, whatever the others did since; a row
\* has both.
UploadsLeaveFiles ==
    /\ \A u \in Uploads : upload[u].at # "idle" =>
         /\ upload[u].at \in PastFill(PackageKind[upload[u].pkg]) => EntryWritten(Of(u))
         /\ upload[u].at \in PastPackage(PackageKind[upload[u].pkg]) => PackageWritten(Of(u))
    /\ \A a \in Entries : artifactRow[a] # NoPackage => EntryWritten(a) /\ PackageWritten(a)

ArtifactInv ==
    /\ ArtifactsTyped /\ UploadsLeaveFiles
    /\ \A a \in Entries, place \in Places : FileSound(a, place)

\* What the three orders have in common.
LEMMA StageFacts ==
    ASSUME NEW k \in PackageKinds, NEW s \in StagesOf(k), s # "row"
    PROVE  /\ StageAfter[k][s] \in StagesOf(k)
           /\ StageAfter[k][s] \in PastFill(k) => s \in PastFill(k) \/ s = "fill"
           /\ StageAfter[k][s] \in PastPackage(k) => s \in PastPackage(k) \/ s = "rename" \/ (s = "create" /\ k # "built")
           /\ s = "entry" => StageAfter[k][s] = "fill"
           /\ s = "create" => StageAfter[k][s] = "head"
           /\ s = "head" => StageAfter[k][s] = "tail"
           /\ StageAfter[k][s] \in {"head", "tail"} => s \in {"create", "head"}
           /\ s = "rename" => StageAfter[k][s] = "row" /\ k = "built"
<1>1. CASE k = "binary"
  <2>1. StageAfter[k] = [entry |-> "fill", fill |-> "create", create |-> "head", head |-> "tail",
                         tail |-> "late", late |-> "row"]
    BY <1>1 DEF StageAfter
  <2>2. s \in {"entry", "fill", "create", "head", "tail", "late"}
    BY <1>1 DEF StagesOf
  <2> QED
    BY <1>1, <2>1, <2>2 DEF StagesOf, PastFill, PastPackage
<1>2. CASE k = "built"
  <2>1. StageAfter[k] = [entry |-> "fill", fill |-> "create", create |-> "head", head |-> "tail",
                         tail |-> "rename", rename |-> "row"]
    BY <1>2 DEF StageAfter
  <2>2. s \in {"entry", "fill", "create", "head", "tail", "rename"}
    BY <1>2 DEF StagesOf
  <2> QED
    BY <1>2, <2>1, <2>2 DEF StagesOf, PastFill, PastPackage
<1>3. CASE k = "source"
  <2>1. StageAfter[k] = [create |-> "head", head |-> "tail", tail |-> "entry", entry |-> "fill",
                         fill |-> "late", late |-> "row"]
    BY <1>3 DEF StageAfter
  <2>2. s \in {"entry", "fill", "create", "head", "tail", "late"}
    BY <1>3 DEF StagesOf
  <2> QED
    BY <1>3, <2>1, <2>2 DEF StagesOf, PastFill, PastPackage
<1> QED
  BY <1>1, <1>2, <1>3 DEF PackageKinds

\* Where a package begins: nothing is written yet.
LEMMA FirstStageFacts ==
    ASSUME NEW k \in PackageKinds
    PROVE  FirstStage[k] \in StagesOf(k) /\ FirstStage[k] \notin PastFill(k) \cup PastPackage(k)
           /\ FirstStage[k] \in {"entry", "create"}
<1>1. CASE k = "binary"
  BY <1>1 DEF FirstStage, StagesOf, PastFill, PastPackage
<1>2. CASE k = "built"
  BY <1>2 DEF FirstStage, StagesOf, PastFill, PastPackage
<1>3. CASE k = "source"
  BY <1>3 DEF FirstStage, StagesOf, PastFill, PastPackage
<1> QED
  BY <1>1, <1>2, <1>3 DEF PackageKinds

\* An upload at work.
LEMMA UploadFacts ==
    ASSUME ArtifactsTyped, NEW u \in Uploads
    PROVE  /\ upload[u] \in UploadState
           /\ upload[u].at # "idle" => /\ upload[u].pkg \in Packages /\ upload[u].pkg # NoPackage
                                       /\ PackageKind[upload[u].pkg] \in PackageKinds
                                       /\ upload[u].at \in StagesOf(PackageKind[upload[u].pkg])
                                       /\ Of(u) \in Entries
<1>1. upload[u] \in UploadState
  BY DEF ArtifactsTyped
<1>2. upload[u].at # "idle" => upload[u].pkg \in Packages /\ upload[u].at \in StagesOf(PackageKind[upload[u].pkg])
  BY <1>1 DEF UploadState
<1> QED
  BY <1>1, <1>2, ArtifactAssumption DEF PackageKinds, Of

\* The state of an upload at its next stage.
LEMMA NextStateFacts ==
    ASSUME ArtifactsTyped, NEW u \in Uploads, upload[u].at \notin {"idle", "row"},
           NEW to \in {"none", "target", "tmp", "gone"}, NEW y,
           y = [upload[u] EXCEPT !.at = Following(u), !.to = to] \/ (to = upload[u].to /\ y = [upload[u] EXCEPT !.at = Following(u)])
    PROVE  y \in UploadState /\ y.pkg = upload[u].pkg /\ y.at = Following(u) /\ y.to = to /\ y.at # "idle"
<1>1. /\ upload[u] \in UploadState /\ upload[u].pkg \in Packages
      /\ PackageKind[upload[u].pkg] \in PackageKinds
      /\ upload[u].at \in StagesOf(PackageKind[upload[u].pkg])
  BY UploadFacts
<1>2. Following(u) \in StagesOf(PackageKind[upload[u].pkg])
  BY <1>1, StageFacts DEF Following
<1>3. /\ upload[u] \in [pkg : Packages \cup {NoPackage},
            at : {"idle", "entry", "fill", "create", "head", "tail", "late", "rename", "row"},
            to : {"none", "target", "tmp", "gone"}]
  BY <1>1 DEF UploadState
<1>4. Following(u) \in {"entry", "fill", "create", "head", "tail", "late", "rename", "row"}
  BY <1>1, <1>2 DEF StagesOf, PackageKinds
<1>5. /\ y \in [pkg : Packages \cup {NoPackage},
            at : {"idle", "entry", "fill", "create", "head", "tail", "late", "rename", "row"},
            to : {"none", "target", "tmp", "gone"}]
      /\ y.pkg = upload[u].pkg /\ y.at = Following(u) /\ y.to = to
  BY <1>3, <1>4
<1> QED
  BY <1>1, <1>2, <1>4, <1>5 DEF UploadState

\* The uploads other than u keep their stage, no file is lost, and u is where
\* its files are: the invariant is kept when the files are sound.
LEMMA UploadsKept ==
    ASSUME ArtifactInv, NEW u \in Uploads, upload' \in [Uploads -> UploadState],
           \A v \in Uploads : v # u => upload'[v].at = upload[v].at /\ upload'[v].pkg = upload[v].pkg,
           entryFile' \in [Entries -> {"none", "torn", "whole"}],
           package' \in [Entries -> [Places -> PackageFile]],
           artifactRow' \in [Entries -> Packages \cup {NoPackage}],
           \A a \in Entries : EntryWritten(a) => EntryWritten(a)',
           \A a \in Entries : PackageWritten(a) => PackageWritten(a)',
           NEW y, y = upload'[u],
           y.at # "idle" =>
               /\ y.at \in PastFill(PackageKind[y.pkg]) => EntryWritten(EntryOf[y.pkg])'
               /\ y.at \in PastPackage(PackageKind[y.pkg]) => PackageWritten(EntryOf[y.pkg])',
           \A a \in Entries : artifactRow'[a] # NoPackage =>
               artifactRow[a] # NoPackage \/ (EntryWritten(a)' /\ PackageWritten(a)'),
           \A a \in Entries, place \in Places : FileSound(a, place)'
    PROVE  ArtifactInv'
<1>0. ArtifactsTyped /\ UploadsLeaveFiles
  BY DEF ArtifactInv
<1>1. ArtifactsTyped'
  BY DEF ArtifactsTyped
<1>2. \A a \in Entries : (artifactRow[a] # NoPackage => EntryWritten(a) /\ PackageWritten(a))'
  BY <1>0 DEF UploadsLeaveFiles
<1>3. ASSUME NEW v \in Uploads, NEW x, x = upload'[v], x.at # "idle"
      PROVE  /\ x.at \in PastFill(PackageKind[x.pkg]) => EntryWritten(EntryOf[x.pkg])'
             /\ x.at \in PastPackage(PackageKind[x.pkg]) => PackageWritten(EntryOf[x.pkg])'
  <2>1. CASE v = u
    BY <1>3, <2>1
  <2>2. CASE v # u
    <3>1. x.at = upload[v].at /\ x.pkg = upload[v].pkg
      BY <1>3, <2>2
    <3>2. Of(v) \in Entries /\ Of(v) = EntryOf[x.pkg]
      BY <1>0, <1>3, <3>1, UploadFacts DEF Of
    <3>3. /\ x.at \in PastFill(PackageKind[x.pkg]) => EntryWritten(EntryOf[x.pkg])
          /\ x.at \in PastPackage(PackageKind[x.pkg]) => PackageWritten(EntryOf[x.pkg])
      BY <1>0, <1>3, <3>1, <3>2 DEF UploadsLeaveFiles
    <3> QED
      BY <3>2, <3>3
  <2> QED
    BY <2>1, <2>2
<1>4. UploadsLeaveFiles'
  <2>1. ASSUME NEW v \in Uploads
        PROVE  (upload[v].at # "idle" =>
                 /\ upload[v].at \in PastFill(PackageKind[upload[v].pkg]) => EntryWritten(Of(v))
                 /\ upload[v].at \in PastPackage(PackageKind[upload[v].pkg]) => PackageWritten(Of(v)))'
    <3>1. PICK x : x = upload'[v]
      OBVIOUS
    <3>2. Of(v)' = EntryOf[x.pkg]
      BY <3>1 DEF Of
    <3> QED
      BY <1>3, <3>1, <3>2 DEF EntryWritten, PackageWritten
  <2> QED
    BY <1>2, <2>1 DEF UploadsLeaveFiles
<1> QED
  BY <1>1, <1>4 DEF ArtifactInv

\* A file that keeps its writers is as sound as it was, under another name too.
LEMMA FileMoved ==
    ASSUME NEW a \in Entries, NEW p \in Places, NEW q \in Places,
           package'[a][q] = package[a][p], FileSound(a, p),
           \A v \in Uploads : /\ Writes(v, a, q)' <=> Writes(v, a, p)
                              /\ Writes(v, a, p) => upload'[v].at = upload[v].at /\ upload'[v].pkg = upload[v].pkg
    PROVE  FileSound(a, q)'
  BY DEF FileSound

\* An upload that neither writes a package nor begins to.
LEMMA QuietStep ==
    ASSUME ArtifactInv, NEW u \in Uploads, NEW y \in UploadState, upload' = [upload EXCEPT ![u] = y],
           upload[u].at \notin {"head", "tail"}, y.at \notin {"head", "tail"}, UNCHANGED package
    PROVE  /\ \A a \in Entries, place \in Places : FileSound(a, place)'
           /\ \A a \in Entries : PackageWritten(a) => PackageWritten(a)'
           /\ package' \in [Entries -> [Places -> PackageFile]]
           /\ upload' \in [Uploads -> UploadState] /\ y = upload'[u]
           /\ \A v \in Uploads : v # u => upload'[v] = upload[v]
<1>0. ArtifactsTyped
  BY DEF ArtifactInv
<1>1. /\ upload' \in [Uploads -> UploadState] /\ y = upload'[u]
      /\ \A v \in Uploads : v # u => upload'[v] = upload[v]
  BY <1>0 DEF ArtifactsTyped
<1>2. ASSUME NEW a \in Entries, NEW place \in Places PROVE FileSound(a, place)'
  <2>1. \A v \in Uploads : /\ Writes(v, a, place)' <=> Writes(v, a, place)
                           /\ Writes(v, a, place) => upload'[v].at = upload[v].at /\ upload'[v].pkg = upload[v].pkg
    <3> TAKE v \in Uploads
    <3>1. CASE v = u
      BY <1>1, <3>1 DEF Writes
    <3>2. CASE v # u
      BY <1>1, <3>2 DEF Writes, Of
    <3> QED
      BY <3>1, <3>2
  <2>2. FileSound(a, place)
    BY DEF ArtifactInv
  <2> QED
    BY <2>1, <2>2, FileMoved
<1> QED
  BY <1>0, <1>1, <1>2 DEF ArtifactsTyped, PackageWritten

\* An entry that nobody touches stays written.
LEMMA EntryKept ==
    ASSUME NEW u \in Uploads, NEW a \in Entries, entryFile'[a] = entryFile[a], a \in brokenOff => a \in brokenOff',
           upload[u].at # "fill" \/ Of(u) # a \/ a \in brokenOff',
           \A v \in Uploads : v # u => upload'[v].at = upload[v].at /\ upload'[v].pkg = upload[v].pkg
    PROVE  EntryWritten(a) => EntryWritten(a)'
  BY DEF EntryWritten, Of

\* What an upload has behind it at its next stage.
LEMMA NextIsPast ==
    ASSUME ArtifactInv, NEW u \in Uploads, upload[u].at \notin {"idle", "row"}, NEW a, a = Of(u),
           \A b \in Entries : EntryWritten(b) => EntryWritten(b)',
           \A b \in Entries : PackageWritten(b) => PackageWritten(b)',
           upload[u].at = "fill" => EntryWritten(a)',
           upload[u].at = "rename" \/ (upload[u].at = "create" /\ PackageKind[upload[u].pkg] # "built") => PackageWritten(a)',
           NEW y, y.pkg = upload[u].pkg, y.at = Following(u)
    PROVE  /\ y.at \in PastFill(PackageKind[y.pkg]) => EntryWritten(EntryOf[y.pkg])'
           /\ y.at \in PastPackage(PackageKind[y.pkg]) => PackageWritten(EntryOf[y.pkg])'
<1> DEFINE k == PackageKind[upload[u].pkg]
<1>1. /\ k \in PackageKinds /\ upload[u].at \in StagesOf(k) /\ upload[u].at # "row" /\ a \in Entries
      /\ EntryOf[y.pkg] = a
  BY UploadFacts DEF ArtifactInv, Of
<1>2. /\ upload[u].at \in PastFill(k) => EntryWritten(a)
      /\ upload[u].at \in PastPackage(k) => PackageWritten(a)
  BY DEF ArtifactInv, UploadsLeaveFiles
<1>3. /\ y.at = StageAfter[k][upload[u].at]
      /\ y.at \in PastFill(k) => upload[u].at \in PastFill(k) \/ upload[u].at = "fill"
      /\ y.at \in PastPackage(k) => \/ upload[u].at \in PastPackage(k) \/ upload[u].at = "rename"
                                    \/ upload[u].at = "create" /\ k # "built"
  BY <1>1, StageFacts DEF Following
<1> QED
  BY <1>1, <1>2, <1>3

\* Init and every step keep ArtifactInv.
LEMMA ArtifactInductive ==
    /\ ArtifactInit => ArtifactInv
    /\ ArtifactInv /\ [ArtifactNext]_artifactVars => ArtifactInv'
<1>n. NoUpload \in UploadState /\ NoUpload.at = "idle" /\ NoFile \in PackageFile /\ NoFile.is = "absent"
  BY DEF NoUpload, UploadState, NoFile, PackageFile
<1>1. ArtifactInit => ArtifactInv
  <2> SUFFICES ASSUME ArtifactInit PROVE ArtifactInv
    OBVIOUS
  <2>1. \A u \in Uploads : upload[u] = NoUpload
    BY DEF ArtifactInit
  <2>2. ArtifactsTyped
    BY <1>n DEF ArtifactInit, ArtifactsTyped
  <2>3. UploadsLeaveFiles
    BY <1>n, <2>1 DEF ArtifactInit, UploadsLeaveFiles
  <2>4. ASSUME NEW a \in Entries, NEW place \in Places PROVE FileSound(a, place)
    <3>1. package[a][place] = NoFile
      BY DEF ArtifactInit
    <3>2. \A u \in Uploads : ~Writes(u, a, place)
      BY <1>n, <2>1 DEF Writes
    <3> QED
      BY <1>n, <3>1, <3>2 DEF FileSound
  <2> QED
    BY <2>2, <2>3, <2>4 DEF ArtifactInv
<1>2. ASSUME ArtifactInv, ArtifactNext PROVE ArtifactInv'
  <2>0. ArtifactsTyped /\ UploadsLeaveFiles /\ \A a \in Entries, place \in Places : FileSound(a, place)
    BY <1>2 DEF ArtifactInv
  <2>t. /\ entryFile \in [Entries -> {"none", "torn", "whole"}]
        /\ package \in [Entries -> [Places -> PackageFile]]
        /\ artifactRow \in [Entries -> Packages \cup {NoPackage}]
        /\ upload \in [Uploads -> UploadState]
    BY <2>0 DEF ArtifactsTyped
  <2>1. ASSUME NEW u \in Uploads, NEW p \in Packages, BeginUpload(u, p) PROVE ArtifactInv'
    <3> DEFINE y == [pkg |-> p, at |-> FirstStage[PackageKind[p]], to |-> "none"]
    <3>1. upload' = [upload EXCEPT ![u] = y] /\ UNCHANGED <<entryFile, package, artifactRow, brokenOff>>
          /\ upload[u].at = "idle"
      BY <2>1 DEF BeginUpload
    <3>2. PackageKind[p] \in PackageKinds
      BY ArtifactAssumption DEF PackageKinds
    <3>3. y \in UploadState /\ y.pkg = p /\ y.at = FirstStage[PackageKind[p]] /\ y.at \in {"entry", "create"}
      BY <3>2, FirstStageFacts DEF UploadState
    <3> HIDE DEF y
    <3>4. /\ \A a \in Entries, place \in Places : FileSound(a, place)'
          /\ \A a \in Entries : PackageWritten(a) => PackageWritten(a)'
          /\ upload' \in [Uploads -> UploadState] /\ y = upload'[u]
          /\ \A v \in Uploads : v # u => upload'[v] = upload[v]
      BY <1>2, <3>1, <3>3, QuietStep
    <3>5. \A a \in Entries : EntryWritten(a) => EntryWritten(a)'
      BY <3>1, <3>4, EntryKept
    <3>6. y.at \notin PastFill(PackageKind[y.pkg]) /\ y.at \notin PastPackage(PackageKind[y.pkg])
      BY <3>2, <3>3, FirstStageFacts
    <3> QED
      BY <1>2, <2>t, <3>1, <3>4, <3>5, <3>6, UploadsKept
  <2>2. ASSUME NEW u \in Uploads, TruncateEntry(u) PROVE ArtifactInv'
    <3>1. PICK a, y : a = Of(u) /\ y = [upload[u] EXCEPT !.at = Following(u)]
      OBVIOUS
    <3>2. /\ upload[u].at = "entry" /\ entryFile' = [entryFile EXCEPT ![a] = "torn"]
          /\ UNCHANGED <<package, artifactRow, brokenOff>> /\ upload' = [upload EXCEPT ![u] = y]
      BY <2>2, <3>1 DEF TruncateEntry, NextStage
    <3>3. Following(u) = "fill"
      BY <2>0, <3>2, UploadFacts, StageFacts DEF Following
    <3>4. y \in UploadState /\ y.pkg = upload[u].pkg /\ y.at = Following(u) /\ y.at = "fill"
      <4>1. upload[u].to \in {"none", "target", "tmp", "gone"}
        BY <2>t DEF UploadState
      <4>2. upload[u].at \notin {"idle", "row"}
        BY <3>2
      <4>3. y \in UploadState /\ y.pkg = upload[u].pkg /\ y.at = Following(u)
        BY <2>0, <3>1, <4>1, <4>2, NextStateFacts
      <4> QED
        BY <3>3, <4>3
    <3>5. /\ \A b \in Entries, place \in Places : FileSound(b, place)'
          /\ \A b \in Entries : PackageWritten(b) => PackageWritten(b)'
          /\ upload' \in [Uploads -> UploadState] /\ y = upload'[u]
          /\ \A v \in Uploads : v # u => upload'[v] = upload[v]
      BY <1>2, <3>2, <3>4, QuietStep
    <3>6. ASSUME NEW b \in Entries, EntryWritten(b) PROVE EntryWritten(b)'
      <4>1. CASE b = a
        BY <3>1, <3>4, <3>5, <4>1 DEF EntryWritten, Of
      <4>2. CASE b # a
        <5>1. entryFile'[b] = entryFile[b]
          BY <2>t, <3>2, <4>2
        <5> QED
          BY <3>2, <3>5, <3>6, <5>1, EntryKept
      <4> QED
        BY <4>1, <4>2
    <3>7. /\ y.at \in PastFill(PackageKind[y.pkg]) => EntryWritten(EntryOf[y.pkg])'
          /\ y.at \in PastPackage(PackageKind[y.pkg]) => PackageWritten(EntryOf[y.pkg])'
      BY <1>2, <3>1, <3>2, <3>4, <3>5, <3>6, NextIsPast
    <3>8. entryFile' \in [Entries -> {"none", "torn", "whole"}]
      BY <2>t, <3>2
    <3> QED
      BY <1>2, <2>t, <3>2, <3>5, <3>6, <3>7, <3>8, UploadsKept
  <2>3. ASSUME NEW u \in Uploads, FillEntry(u) PROVE ArtifactInv'
    <3>1. PICK a, y : a = Of(u) /\ y = [upload[u] EXCEPT !.at = Following(u)]
      OBVIOUS
    <3>2. /\ upload[u].at = "fill" /\ entryFile' = [entryFile EXCEPT ![a] = "whole"]
          /\ brokenOff' = brokenOff \ {a}
          /\ UNCHANGED <<package, artifactRow>> /\ upload' = [upload EXCEPT ![u] = y]
      BY <2>3, <3>1 DEF FillEntry, NextStage
    <3>3. Following(u) \notin {"head", "tail"}
      BY <2>0, <3>2, UploadFacts, StageFacts DEF Following
    <3>4. y \in UploadState /\ y.pkg = upload[u].pkg /\ y.at = Following(u) /\ y.at \notin {"head", "tail"}
      <4>1. upload[u].to \in {"none", "target", "tmp", "gone"}
        BY <2>t DEF UploadState
      <4>2. upload[u].at \notin {"idle", "row"}
        BY <3>2
      <4>3. y \in UploadState /\ y.pkg = upload[u].pkg /\ y.at = Following(u)
        BY <2>0, <3>1, <4>1, <4>2, NextStateFacts
      <4> QED
        BY <3>3, <4>3
    <3>5. /\ \A b \in Entries, place \in Places : FileSound(b, place)'
          /\ \A b \in Entries : PackageWritten(b) => PackageWritten(b)'
          /\ upload' \in [Uploads -> UploadState] /\ y = upload'[u]
          /\ \A v \in Uploads : v # u => upload'[v] = upload[v]
      BY <1>2, <3>2, <3>4, QuietStep
    <3>6. a \in Entries /\ EntryWritten(a)'
      <4>1. a \in Entries
        BY <2>0, <3>1, <3>2, UploadFacts
      <4> QED
        BY <2>t, <3>2, <4>1 DEF EntryWritten
    <3>7. ASSUME NEW b \in Entries, EntryWritten(b) PROVE EntryWritten(b)'
      <4>1. CASE b = a
        BY <3>6, <4>1
      <4>2. CASE b # a
        <5>1. entryFile'[b] = entryFile[b] /\ (b \in brokenOff => b \in brokenOff') /\ Of(u) # b
          BY <2>t, <3>1, <3>2, <4>2
        <5> QED
          BY <3>5, <3>7, <5>1, EntryKept
      <4> QED
        BY <4>1, <4>2
    <3>8. /\ y.at \in PastFill(PackageKind[y.pkg]) => EntryWritten(EntryOf[y.pkg])'
          /\ y.at \in PastPackage(PackageKind[y.pkg]) => PackageWritten(EntryOf[y.pkg])'
      BY <1>2, <3>1, <3>2, <3>4, <3>5, <3>6, <3>7, NextIsPast
    <3>9. entryFile' \in [Entries -> {"none", "torn", "whole"}]
      BY <2>t, <3>2
    <3> QED
      BY <1>2, <2>t, <3>2, <3>5, <3>7, <3>8, <3>9, UploadsKept
  <2>4. ASSUME NEW u \in Uploads, CreatePackage(u) PROVE ArtifactInv'
    <3> DEFINE place == PlaceOf(upload[u].pkg)
    <3>1. PICK a, y : a = Of(u) /\ y = [upload[u] EXCEPT !.at = Following(u), !.to = place]
      OBVIOUS
    <3>2. PICK file : file = [NoFile EXCEPT !.is = IF \E v \in Uploads : Writes(v, a, place) THEN "spoiled" ELSE "sound"]
      OBVIOUS
    <3>3. /\ upload[u].at = "create" /\ package' = [package EXCEPT ![a][place] = file]
          /\ UNCHANGED <<entryFile, artifactRow, brokenOff>> /\ upload' = [upload EXCEPT ![u] = y]
      BY <2>4, <3>1, <3>2 DEF CreatePackage
    <3>4. /\ file \in PackageFile /\ file.is # "absent"
          /\ file.is = "sound" => \A v \in Uploads : ~Writes(v, a, place)
      BY <3>2 DEF NoFile, PackageFile
    <3>5. a \in Entries /\ Following(u) = "head"
      BY <2>0, <3>1, <3>3, UploadFacts, StageFacts DEF Following
    <3>6. place \in Places
      BY DEF PlaceOf, Places
    <3>7. y \in UploadState /\ y.pkg = upload[u].pkg /\ y.at = Following(u) /\ y.to = place
      BY <2>0, <3>1, <3>3, <3>6, NextStateFacts DEF Places
    <3> HIDE DEF place
    <3>8. /\ upload' \in [Uploads -> UploadState] /\ y = upload'[u]
          /\ \A v \in Uploads : v # u => upload'[v] = upload[v]
      BY <2>t, <3>3, <3>7
    <3>9. package' \in [Entries -> [Places -> PackageFile]]
      BY <2>t, <3>3, <3>4, <3>5, <3>6
    <3>10. package'[a][place] = file
           /\ \A b \in Entries, q \in Places : b # a \/ q # place => package'[b][q] = package[b][q]
      BY <2>t, <3>3, <3>5, <3>6
    <3>11. \A v \in Uploads, b \in Entries, q \in Places :
             /\ v # u => (Writes(v, b, q)' <=> Writes(v, b, q))
             /\ ~Writes(u, b, q) /\ (Writes(u, b, q)' => b = a /\ q = place)
      <4> TAKE v \in Uploads, b \in Entries, q \in Places
      <4>1. v # u => (Writes(v, b, q)' <=> Writes(v, b, q))
        BY <3>8 DEF Writes, Of
      <4>2. ~Writes(u, b, q)
        BY <3>3 DEF Writes
      <4>3. Writes(u, b, q)' => b = a /\ q = place
        BY <3>1, <3>7, <3>8 DEF Writes, Of
      <4> QED
        BY <4>1, <4>2, <4>3
    <3>12. ASSUME NEW b \in Entries, NEW q \in Places PROVE FileSound(b, q)'
      <4>1. CASE b = a /\ q = place
        <5>1. file.is = "sound" => \A v \in Uploads : Writes(v, b, q)' => v = u
          BY <3>4, <3>11, <4>1
        <5>2. Writes(u, b, q)' /\ upload'[u].at = "head"
          BY <3>1, <3>5, <3>7, <3>8, <4>1 DEF Writes, Of
        <5>3. package'[b][q] = file
          BY <3>10, <4>1
        <5> QED
          BY <3>4, <5>1, <5>2, <5>3 DEF FileSound
      <4>2. CASE b # a \/ q # place
        <5>1. \A v \in Uploads : /\ Writes(v, b, q)' <=> Writes(v, b, q)
                                 /\ Writes(v, b, q) => upload'[v].at = upload[v].at /\ upload'[v].pkg = upload[v].pkg
          BY <3>8, <3>11, <4>2
        <5>2. package'[b][q] = package[b][q] /\ FileSound(b, q)
          BY <2>0, <3>10, <4>2
        <5> QED
          BY <5>1, <5>2, FileMoved
      <4> QED
        BY <4>1, <4>2
    <3>13. \A b \in Entries : EntryWritten(b) => EntryWritten(b)'
      BY <3>3, <3>8, EntryKept
    <3>14. \A b \in Entries : PackageWritten(b) => PackageWritten(b)'
      <4> TAKE b \in Entries
      <4>1. "target" \in Places
        BY DEF Places
      <4> QED
        BY <3>4, <3>10, <4>1 DEF PackageWritten
    <3>16. PackageKind[upload[u].pkg] # "built" => PackageWritten(a)'
      BY <3>4, <3>10 DEF PackageWritten, PlaceOf, place
    <3>15. /\ y.at \in PastFill(PackageKind[y.pkg]) => EntryWritten(EntryOf[y.pkg])'
           /\ y.at \in PastPackage(PackageKind[y.pkg]) => PackageWritten(EntryOf[y.pkg])'
      BY <1>2, <3>1, <3>3, <3>7, <3>13, <3>14, <3>16, NextIsPast
    <3> QED
      BY <1>2, <2>t, <3>3, <3>8, <3>9, <3>12, <3>13, <3>14, <3>15, UploadsKept
  <2>5. ASSUME NEW u \in Uploads, WritePackage(u) PROVE ArtifactInv'
    <3> DEFINE at == upload[u].at
               pkg == upload[u].pkg
               to == IF at = "tail" THEN "none" ELSE upload[u].to
    <3>1. PICK a, y : a = Of(u) /\ y = [upload[u] EXCEPT !.at = Following(u), !.to = to]
      OBVIOUS
    <3>2. /\ at \in {"head", "tail"} /\ upload' = [upload EXCEPT ![u] = y]
          /\ package' = [package EXCEPT ![a] = [q \in Places |->
                 IF Writes(u, a, q) THEN [package[a][q] EXCEPT ![at] = pkg] ELSE package[a][q]]]
          /\ UNCHANGED <<entryFile, artifactRow, brokenOff>>
      BY <2>5, <3>1, <2>t DEF WritePackage
    <3>3. a \in Entries /\ pkg \in Packages /\ pkg # NoPackage /\ (at = "head" => Following(u) = "tail")
          /\ (at = "tail" => Following(u) \notin {"head", "tail"})
      <4>1. a \in Entries /\ pkg \in Packages /\ pkg # NoPackage /\ PackageKind[pkg] \in PackageKinds
            /\ at \in StagesOf(PackageKind[pkg]) /\ at # "row"
        BY <2>0, <3>1, <3>2, UploadFacts
      <4>2. /\ at = "head" => StageAfter[PackageKind[pkg]][at] = "tail"
            /\ StageAfter[PackageKind[pkg]][at] \in {"head", "tail"} => at \in {"create", "head"}
        BY <4>1, StageFacts
      <4> QED
        BY <4>1, <4>2 DEF Following
    <3>4. y \in UploadState /\ y.pkg = pkg /\ y.at = Following(u) /\ y.to = to
      <4>1. to \in {"none", "target", "tmp", "gone"}
        BY <2>t DEF UploadState
      <4>2. upload[u].at \notin {"idle", "row"}
        BY <3>2
      <4> HIDE DEF to
      <4> QED
        BY <2>0, <3>1, <4>1, <4>2, NextStateFacts
    <3>5. /\ upload' \in [Uploads -> UploadState] /\ y = upload'[u]
          /\ \A v \in Uploads : v # u => upload'[v] = upload[v]
      BY <2>t, <3>2, <3>4
    <3>6. ASSUME NEW b \in Entries, NEW q \in Places
          PROVE  /\ package'[b][q] = IF b = a /\ Writes(u, a, q) THEN [package[a][q] EXCEPT ![at] = pkg] ELSE package[b][q]
                 /\ package[b][q] \in PackageFile
      BY <2>t, <3>2, <3>3
    <3>7. ASSUME NEW b \in Entries, NEW q \in Places
          PROVE  /\ package'[b][q] \in PackageFile /\ package'[b][q].is = package[b][q].is
                 /\ b = a /\ Writes(u, a, q) /\ at = "head" => package'[b][q].head = pkg
                 /\ b = a /\ Writes(u, a, q) /\ at = "tail" =>
                      package'[b][q].head = package[b][q].head /\ package'[b][q].tail = pkg
      BY <3>2, <3>3, <3>6 DEF PackageFile
    <3>8. package' \in [Entries -> [Places -> PackageFile]]
      <4>1. \A b \in Entries : package'[b] \in [Places -> PackageFile]
        <5> TAKE b \in Entries
        <5>1. package'[b] = IF b = a THEN [q \in Places |->
                 IF Writes(u, a, q) THEN [package[a][q] EXCEPT ![at] = pkg] ELSE package[a][q]] ELSE package[b]
          BY <2>t, <3>2, <3>3
        <5> QED
          BY <2>t, <3>7, <5>1
      <4> QED
        BY <2>t, <3>2, <4>1
    <3>9. \A v \in Uploads, b \in Entries, q \in Places :
            /\ v # u => (Writes(v, b, q)' <=> Writes(v, b, q))
            /\ Writes(u, b, q) => b = a
            /\ Writes(u, b, q)' <=> Writes(u, b, q) /\ at = "head"
      <4> TAKE v \in Uploads, b \in Entries, q \in Places
      <4>1. v # u => (Writes(v, b, q)' <=> Writes(v, b, q))
        BY <3>5 DEF Writes, Of
      <4>2. Writes(u, b, q) => b = a
        BY <3>1 DEF Writes
      <4>3. Of(u)' = Of(u) /\ upload'[u].at = Following(u) /\ upload'[u].to = to
        BY <3>4, <3>5 DEF Of
      <4>4. at = "head" => (Writes(u, b, q)' <=> Writes(u, b, q))
        BY <3>3, <4>3 DEF Writes
      <4>5. at = "tail" => ~Writes(u, b, q)'
        BY <3>3, <4>3 DEF Writes
      <4> QED
        BY <3>2, <4>1, <4>2, <4>4, <4>5
    <3>10. ASSUME NEW b \in Entries, NEW q \in Places PROVE FileSound(b, q)'
      <4>0. FileSound(b, q)
        BY <2>0
      <4>1. CASE b = a /\ Writes(u, a, q) /\ at = "head"
        <5>1. \A v \in Uploads : Writes(v, b, q)' <=> Writes(v, b, q)
          BY <3>9, <4>1
        <5>2. package[b][q].is # "absent" /\ (package[b][q].is = "sound" => \A v \in Uploads : Writes(v, b, q) => v = u)
          BY <4>0, <4>1 DEF FileSound
        <5>3. upload'[u].pkg = pkg /\ package'[b][q].head = pkg /\ package'[b][q].is = package[b][q].is
          BY <3>4, <3>5, <3>7, <4>1
        <5> QED
          BY <4>1, <5>1, <5>2, <5>3 DEF FileSound
      <4>2. CASE b = a /\ Writes(u, a, q) /\ at = "tail"
        <5>1. \A v \in Uploads : Writes(v, b, q)' <=> v # u /\ Writes(v, b, q)
          BY <3>9, <4>2
        <5>2. /\ package[b][q].is # "absent"
              /\ package[b][q].is = "sound" => /\ \A v \in Uploads : Writes(v, b, q) => v = u
                                               /\ package[b][q].head = pkg
          BY <4>0, <4>2 DEF FileSound
        <5>3. package'[b][q].head = package[b][q].head /\ package'[b][q].tail = pkg
              /\ package'[b][q].is = package[b][q].is
          BY <3>7, <4>2
        <5>4. package[b][q].is = "sound" =>
                (\A v \in Uploads : ~Writes(v, b, q)') /\ package'[b][q].head = pkg /\ package'[b][q].tail = pkg
          BY <5>1, <5>2, <5>3
        <5> QED
          BY <3>3, <5>1, <5>2, <5>3, <5>4 DEF FileSound
      <4>3. CASE b # a \/ ~Writes(u, a, q)
        <5>1. package'[b][q] = package[b][q]
          BY <3>6, <4>3
        <5>2. \A v \in Uploads : /\ Writes(v, b, q)' <=> Writes(v, b, q)
                                 /\ Writes(v, b, q) => upload'[v].at = upload[v].at /\ upload'[v].pkg = upload[v].pkg
          BY <3>5, <3>9, <4>3
        <5> QED
          BY <4>0, <5>1, <5>2, FileMoved
      <4> QED
        BY <3>2, <4>1, <4>2, <4>3
    <3>11. \A b \in Entries : EntryWritten(b) => EntryWritten(b)'
      BY <3>2, <3>5, EntryKept
    <3>12. \A b \in Entries : PackageWritten(b) => PackageWritten(b)'
      <4>1. "target" \in Places
        BY DEF Places
      <4> QED
        BY <3>7, <4>1 DEF PackageWritten
    <3>13. /\ y.at \in PastFill(PackageKind[y.pkg]) => EntryWritten(EntryOf[y.pkg])'
           /\ y.at \in PastPackage(PackageKind[y.pkg]) => PackageWritten(EntryOf[y.pkg])'
      BY <1>2, <3>1, <3>2, <3>4, <3>11, <3>12, NextIsPast
    <3> QED
      BY <1>2, <2>t, <3>2, <3>5, <3>8, <3>10, <3>11, <3>12, <3>13, UploadsKept
  <2>6. ASSUME NEW u \in Uploads, RenamePackage(u) PROVE ArtifactInv'
    <3>1. PICK a, y : a = Of(u) /\ y = [upload[u] EXCEPT !.at = Following(u)]
      OBVIOUS
    <3>2. /\ upload[u].at = "rename" /\ package[a]["tmp"].is # "absent"
          /\ package' = [package EXCEPT ![a] = [q \in Places |-> IF q = "target" THEN package[a]["tmp"] ELSE NoFile]]
          /\ upload' = [v \in Uploads |->
                 CASE v = u -> y
                   [] v # u /\ Writes(v, a, "tmp") -> [upload[v] EXCEPT !.to = "target"]
                   [] v # u /\ Writes(v, a, "target") -> [upload[v] EXCEPT !.to = "gone"]
                   [] OTHER -> upload[v]]
          /\ UNCHANGED <<entryFile, artifactRow, brokenOff>>
      BY <2>6, <3>1, <2>t DEF RenamePackage
    <3>3. a \in Entries /\ Following(u) = "row"
      BY <2>0, <3>1, <3>2, UploadFacts, StageFacts DEF Following
    <3>4. y \in UploadState /\ y.pkg = upload[u].pkg /\ y.at = Following(u)
      <4>1. upload[u].to \in {"none", "target", "tmp", "gone"}
        BY <2>t DEF UploadState
      <4> QED
        BY <2>0, <3>1, <3>2, <4>1, NextStateFacts
    <3>5. ASSUME NEW v \in Uploads, v # u
          PROVE  /\ upload'[v] \in UploadState
                 /\ upload'[v].at = upload[v].at /\ upload'[v].pkg = upload[v].pkg
                 /\ upload'[v].to = CASE Writes(v, a, "tmp") -> "target"
                                      [] Writes(v, a, "target") -> "gone" [] OTHER -> upload[v].to
      <4>1. upload[v] \in UploadState /\ ~(Writes(v, a, "tmp") /\ Writes(v, a, "target"))
        BY <2>t DEF Writes
      <4>2. CASE Writes(v, a, "tmp")
        <5>1. upload'[v] = [upload[v] EXCEPT !.to = "target"]
          BY <3>2, <3>5, <4>1, <4>2
        <5> QED
          BY <4>1, <4>2, <5>1 DEF UploadState
      <4>3. CASE Writes(v, a, "target")
        <5>1. upload'[v] = [upload[v] EXCEPT !.to = "gone"]
          BY <3>2, <3>5, <4>1, <4>3
        <5> QED
          BY <4>1, <4>3, <5>1 DEF UploadState
      <4>4. CASE ~Writes(v, a, "tmp") /\ ~Writes(v, a, "target")
        <5>1. upload'[v] = upload[v]
          BY <3>2, <3>5, <4>4
        <5> QED
          BY <4>1, <4>4, <5>1
      <4> QED
        BY <4>2, <4>3, <4>4
    <3>6. upload' \in [Uploads -> UploadState] /\ y = upload'[u]
      <4>1. upload'[u] = y
        BY <3>2
      <4>2. \A v \in Uploads : upload'[v] \in UploadState
        BY <3>4, <3>5, <4>1
      <4>3. upload' = [v \in Uploads |-> upload'[v]]
        BY <3>2
      <4> QED
        BY <4>1, <4>2, <4>3
    <3>7. ASSUME NEW b \in Entries, NEW q \in Places
          PROVE  package'[b][q] = IF b # a THEN package[b][q] ELSE IF q = "target" THEN package[a]["tmp"] ELSE NoFile
      BY <2>t, <3>2, <3>3
    <3>8. package' \in [Entries -> [Places -> PackageFile]]
      <4>1. "tmp" \in Places
        BY DEF Places
      <4>2. [q \in Places |-> IF q = "target" THEN package[a]["tmp"] ELSE NoFile] \in [Places -> PackageFile]
        BY <1>n, <2>t, <3>3, <4>1
      <4> QED
        BY <2>t, <3>2, <3>3, <4>2
    <3>9. \A v \in Uploads, b \in Entries :
            /\ Writes(v, a, "target")' <=> Writes(v, a, "tmp")
            /\ ~Writes(v, a, "tmp")'
            /\ b # a => \A q \in Places : Writes(v, b, q)' <=> Writes(v, b, q)
      <4> TAKE v \in Uploads, b \in Entries
      <4>1. CASE v = u
        BY <3>2, <3>3, <3>4, <3>6, <4>1 DEF Writes
      <4>2. CASE v # u
        <5>1. /\ upload'[v].at = upload[v].at /\ Of(v)' = Of(v)
              /\ upload'[v].to = CASE Writes(v, a, "tmp") -> "target"
                                   [] Writes(v, a, "target") -> "gone" [] OTHER -> upload[v].to
          BY <3>5, <4>2 DEF Of
        <5> QED
          BY <5>1 DEF Writes, Places
      <4> QED
        BY <4>1, <4>2
    <3>10. \A v \in Uploads, b \in Entries, q \in Places :
             Writes(v, b, q) => upload'[v].at = upload[v].at /\ upload'[v].pkg = upload[v].pkg
      <4> TAKE v \in Uploads, b \in Entries, q \in Places
      <4>1. CASE v = u
        BY <3>2, <4>1 DEF Writes
      <4>2. CASE v # u
        BY <3>5, <4>2
      <4> QED
        BY <4>1, <4>2
    <3>11. ASSUME NEW b \in Entries, NEW q \in Places PROVE FileSound(b, q)'
      <4>1. CASE b # a
        <5>1. package'[b][q] = package[b][q] /\ FileSound(b, q)
          BY <2>0, <3>7, <4>1
        <5> QED
          BY <3>9, <3>10, <4>1, <5>1, FileMoved
      <4>2. CASE b = a /\ q = "target"
        <5>1. package'[b][q] = package[b]["tmp"] /\ FileSound(b, "tmp") /\ "tmp" \in Places
          BY <2>0, <3>7, <4>2 DEF Places
        <5>2. \A v \in Uploads : Writes(v, b, q)' <=> Writes(v, b, "tmp")
          BY <3>9, <4>2
        <5> QED
          BY <3>10, <5>1, <5>2, FileMoved
      <4>3. CASE b = a /\ q = "tmp"
        <5>1. package'[b][q] = NoFile /\ \A v \in Uploads : ~Writes(v, b, q)'
          BY <3>7, <3>9, <4>3
        <5> QED
          BY <1>n, <5>1 DEF FileSound
      <4> QED
        BY <4>1, <4>2, <4>3 DEF Places
    <3>12. \A b \in Entries : EntryWritten(b) => EntryWritten(b)'
      BY <3>2, <3>5, EntryKept
    <3>13. PackageWritten(a)' /\ \A b \in Entries : PackageWritten(b) => PackageWritten(b)'
      <4>1. "target" \in Places
        BY DEF Places
      <4> QED
        BY <3>2, <3>3, <3>7, <4>1 DEF PackageWritten
    <3>14. /\ y.at \in PastFill(PackageKind[y.pkg]) => EntryWritten(EntryOf[y.pkg])'
           /\ y.at \in PastPackage(PackageKind[y.pkg]) => PackageWritten(EntryOf[y.pkg])'
      BY <1>2, <3>1, <3>2, <3>4, <3>12, <3>13, NextIsPast
    <3> QED
      BY <1>2, <2>t, <3>2, <3>5, <3>6, <3>8, <3>11, <3>12, <3>13, <3>14, UploadsKept
  <2>7. ASSUME NEW u \in Uploads, LateChecks(u) PROVE ArtifactInv'
    <3>1. upload[u].at = "late" /\ UNCHANGED <<entryFile, package, artifactRow, brokenOff>>
      BY <2>7 DEF LateChecks
    <3>2. PICK y \in UploadState : /\ upload' = [upload EXCEPT ![u] = y]
                                   /\ y = NoUpload \/ (y.pkg = upload[u].pkg /\ y.at = Following(u))
      <4> DEFINE next == [upload[u] EXCEPT !.at = Following(u)]
      <4>1. upload[u].to \in {"none", "target", "tmp", "gone"}
        BY <2>t DEF UploadState
      <4>2. next \in UploadState /\ next.pkg = upload[u].pkg /\ next.at = Following(u)
        BY <2>0, <3>1, <4>1, NextStateFacts
      <4>3. upload' = [upload EXCEPT ![u] = next] \/ upload' = [upload EXCEPT ![u] = NoUpload]
        BY <2>7 DEF LateChecks, NextStage
      <4> QED
        BY <1>n, <4>2, <4>3
    <3>3. y.at \notin {"head", "tail"}
      <4>1. Following(u) \notin {"head", "tail"}
        BY <2>0, <3>1, UploadFacts, StageFacts DEF Following
      <4> QED
        BY <1>n, <3>2, <4>1
    <3>4. /\ \A b \in Entries, place \in Places : FileSound(b, place)'
          /\ \A b \in Entries : PackageWritten(b) => PackageWritten(b)'
          /\ upload' \in [Uploads -> UploadState] /\ y = upload'[u]
          /\ \A v \in Uploads : v # u => upload'[v] = upload[v]
      BY <1>2, <3>1, <3>2, <3>3, QuietStep
    <3>5. \A b \in Entries : EntryWritten(b) => EntryWritten(b)'
      BY <3>1, <3>4, EntryKept
    <3>6. y.at # "idle" =>
            /\ y.at \in PastFill(PackageKind[y.pkg]) => EntryWritten(EntryOf[y.pkg])'
            /\ y.at \in PastPackage(PackageKind[y.pkg]) => PackageWritten(EntryOf[y.pkg])'
      <4>1. CASE y = NoUpload
        BY <1>n, <4>1
      <4>2. CASE y.pkg = upload[u].pkg /\ y.at = Following(u)
        BY <1>2, <3>1, <3>4, <3>5, <4>2, NextIsPast
      <4> QED
        BY <3>2, <4>1, <4>2
    <3> QED
      BY <1>2, <2>t, <3>1, <3>4, <3>5, <3>6, UploadsKept
  <2>8. ASSUME NEW u \in Uploads, SaveArtifactRow(u) PROVE ArtifactInv'
    <3>1. PICK a : a = Of(u)
      OBVIOUS
    <3>2. /\ upload[u].at = "row" /\ upload' = [upload EXCEPT ![u] = NoUpload]
          /\ artifactRow' = [artifactRow EXCEPT ![a] = upload[u].pkg]
          /\ UNCHANGED <<entryFile, package, brokenOff>>
      BY <2>8, <3>1 DEF SaveArtifactRow
    <3>3. /\ \A b \in Entries, place \in Places : FileSound(b, place)'
          /\ \A b \in Entries : PackageWritten(b) => PackageWritten(b)'
          /\ upload' \in [Uploads -> UploadState] /\ NoUpload = upload'[u]
          /\ \A v \in Uploads : v # u => upload'[v] = upload[v]
      BY <1>2, <1>n, <3>2, QuietStep
    <3>4. \A b \in Entries : EntryWritten(b) => EntryWritten(b)'
      BY <3>2, <3>3, EntryKept
    <3>5. a \in Entries /\ EntryWritten(a) /\ PackageWritten(a) /\ upload[u].pkg \in Packages
      <4>1. /\ upload[u].pkg \in Packages /\ a \in Entries /\ PackageKind[upload[u].pkg] \in PackageKinds
        BY <2>0, <3>1, <3>2, UploadFacts
      <4>2. "row" \in PastFill(PackageKind[upload[u].pkg]) /\ "row" \in PastPackage(PackageKind[upload[u].pkg])
        BY <4>1 DEF PackageKinds, PastFill, PastPackage
      <4> QED
        BY <2>0, <3>1, <3>2, <4>1, <4>2 DEF UploadsLeaveFiles
    <3>6. artifactRow' \in [Entries -> Packages \cup {NoPackage}]
          /\ \A b \in Entries : b # a => artifactRow'[b] = artifactRow[b]
      BY <2>t, <3>2, <3>5
    <3> QED
      BY <1>2, <1>n, <2>t, <3>2, <3>3, <3>4, <3>5, <3>6, UploadsKept
  <2>9. ASSUME NEW u \in Uploads, UploadFails(u) PROVE ArtifactInv'
    <3>1. PICK a : a = Of(u)
      OBVIOUS
    <3>2. /\ upload[u].at \in {"entry", "fill", "create", "rename", "row"}
          /\ upload' = [upload EXCEPT ![u] = NoUpload]
          /\ brokenOff' = brokenOff \cup {b \in {a} : upload[u].at = "fill"}
          /\ UNCHANGED <<entryFile, package, artifactRow>>
      BY <2>9, <3>1 DEF UploadFails, AfterFailure
    <3>3. /\ \A b \in Entries, place \in Places : FileSound(b, place)'
          /\ \A b \in Entries : PackageWritten(b) => PackageWritten(b)'
          /\ upload' \in [Uploads -> UploadState] /\ NoUpload = upload'[u]
          /\ \A v \in Uploads : v # u => upload'[v] = upload[v]
      BY <1>2, <1>n, <3>2, QuietStep
    <3>4. ASSUME NEW b \in Entries PROVE EntryWritten(b) => EntryWritten(b)'
      <4>1. /\ b \in brokenOff => b \in brokenOff'
            /\ upload[u].at # "fill" \/ Of(u) # b \/ b \in brokenOff'
        BY <3>1, <3>2
      <4> QED
        BY <3>2, <3>3, <4>1, EntryKept
    <3> QED
      BY <1>2, <1>n, <2>t, <3>2, <3>3, <3>4, UploadsKept
  <2>10. ASSUME NEW u \in Uploads, PieceFails(u) PROVE ArtifactInv'
    <3> DEFINE removes == PlaceOf(upload[u].pkg) = "tmp"
    <3>1. PICK a : a = Of(u)
      OBVIOUS
    <3>2. /\ upload[u].at \in {"head", "tail"}
          /\ package' = [package EXCEPT ![a] = [q \in Places |->
                 IF removes /\ q = "tmp" THEN NoFile
                 ELSE [package[a][q] EXCEPT !.is = IF Writes(u, a, q) THEN "spoiled" ELSE @]]]
          /\ upload' = [v \in Uploads |->
                 CASE v = u -> NoUpload
                   [] v # u /\ removes /\ Writes(v, a, "tmp") -> [upload[v] EXCEPT !.to = "gone"]
                   [] OTHER -> upload[v]]
          /\ UNCHANGED <<entryFile, artifactRow, brokenOff>>
      BY <2>10, <3>1 DEF PieceFails, AfterFailure
    <3>3. a \in Entries
      BY <2>0, <3>1, <3>2, UploadFacts
    <3> HIDE DEF removes
    <3>4. ASSUME NEW v \in Uploads, v # u
          PROVE  /\ upload'[v] \in UploadState
                 /\ upload'[v].at = upload[v].at /\ upload'[v].pkg = upload[v].pkg
                 /\ upload'[v].to = IF removes /\ Writes(v, a, "tmp") THEN "gone" ELSE upload[v].to
      <4>1. upload[v] \in UploadState
        BY <2>t
      <4>2. CASE removes /\ Writes(v, a, "tmp")
        <5>1. upload'[v] = [upload[v] EXCEPT !.to = "gone"]
          BY <3>2, <3>4, <4>2
        <5> QED
          BY <4>1, <4>2, <5>1 DEF UploadState
      <4>3. CASE ~(removes /\ Writes(v, a, "tmp"))
        <5>1. upload'[v] = upload[v]
          BY <3>2, <3>4, <4>3
        <5> QED
          BY <4>1, <4>3, <5>1
      <4> QED
        BY <4>2, <4>3
    <3>5. upload' \in [Uploads -> UploadState] /\ NoUpload = upload'[u]
      <4>1. upload'[u] = NoUpload
        BY <3>2
      <4>2. \A v \in Uploads : upload'[v] \in UploadState
        BY <1>n, <3>4, <4>1
      <4>3. upload' = [v \in Uploads |-> upload'[v]]
        BY <3>2
      <4> QED
        BY <4>1, <4>2, <4>3
    <3>6. ASSUME NEW b \in Entries, NEW q \in Places
          PROVE  /\ b = a /\ removes /\ q = "tmp" => package'[b][q] = NoFile
                 /\ b # a => package'[b][q] = package[b][q]
                 /\ b = a /\ ~(removes /\ q = "tmp") /\ ~Writes(u, a, q) => package'[b][q] = package[b][q]
                 /\ b = a /\ ~(removes /\ q = "tmp") /\ Writes(u, a, q) => package'[b][q].is = "spoiled"
                 /\ package'[b][q] \in PackageFile
      <4>1. package[b][q] \in PackageFile
        BY <2>t
      <4>2. package'[b][q] = IF b # a THEN package[b][q] ELSE IF removes /\ q = "tmp" THEN NoFile
                             ELSE [package[b][q] EXCEPT !.is = IF Writes(u, a, q) THEN "spoiled" ELSE @]
        BY <2>t, <3>2, <3>3
      <4>3. CASE b # a \/ (removes /\ q = "tmp")
        BY <1>n, <4>1, <4>2, <4>3
      <4>4. CASE b = a /\ ~(removes /\ q = "tmp")
        BY <4>1, <4>2, <4>4 DEF PackageFile
      <4> QED
        BY <4>3, <4>4
    <3>7. package' \in [Entries -> [Places -> PackageFile]]
      <4>1. \A b \in Entries : package'[b] \in [Places -> PackageFile]
        <5> TAKE b \in Entries
        <5>1. package'[b] = IF b = a THEN [q \in Places |->
                 IF removes /\ q = "tmp" THEN NoFile
                 ELSE [package[a][q] EXCEPT !.is = IF Writes(u, a, q) THEN "spoiled" ELSE @]] ELSE package[b]
          BY <2>t, <3>2, <3>3
        <5>2. package'[b] = [q \in Places |-> package'[b][q]]
          BY <2>t, <5>1
        <5> QED
          BY <3>6, <5>2
      <4> QED
        BY <2>t, <3>2, <4>1
    <3>8. \A v \in Uploads, b \in Entries, q \in Places :
            Writes(v, b, q)' <=> v # u /\ Writes(v, b, q) /\ ~(removes /\ b = a /\ q = "tmp")
      <4> TAKE v \in Uploads, b \in Entries, q \in Places
      <4>1. CASE v = u
        BY <1>n, <3>5, <4>1 DEF Writes
      <4>2. CASE v # u
        <5>1. /\ upload'[v].at = upload[v].at /\ Of(v)' = Of(v)
              /\ upload'[v].to = IF removes /\ Writes(v, a, "tmp") THEN "gone" ELSE upload[v].to
          BY <3>4, <4>2 DEF Of
        <5> QED
          BY <4>2, <5>1 DEF Writes, Places
      <4> QED
        BY <4>1, <4>2
    <3>9. ASSUME NEW b \in Entries, NEW q \in Places PROVE FileSound(b, q)'
      <4>0. FileSound(b, q) /\ (Writes(u, b, q) => b = a)
        BY <2>0, <3>1 DEF Writes
      <4>1. CASE removes /\ b = a /\ q = "tmp"
        <5>1. package'[b][q] = NoFile /\ \A v \in Uploads : ~Writes(v, b, q)'
          BY <3>6, <3>8, <4>1
        <5> QED
          BY <1>n, <5>1 DEF FileSound
      <4>2. CASE ~(removes /\ b = a /\ q = "tmp") /\ Writes(u, b, q)
        <5>1. package'[b][q].is = "spoiled"
          BY <3>6, <4>0, <4>2
        <5> QED
          BY <5>1 DEF FileSound
      <4>3. CASE ~(removes /\ b = a /\ q = "tmp") /\ ~Writes(u, b, q)
        <5>1. package'[b][q] = package[b][q]
          BY <3>6, <4>3
        <5>2. \A v \in Uploads : /\ Writes(v, b, q)' <=> Writes(v, b, q)
                                 /\ Writes(v, b, q) => upload'[v].at = upload[v].at /\ upload'[v].pkg = upload[v].pkg
          <6> TAKE v \in Uploads
          <6>1. CASE v = u
            BY <3>8, <4>3, <6>1
          <6>2. CASE v # u
            BY <3>4, <3>8, <4>3, <6>2
          <6> QED
            BY <6>1, <6>2
        <5> QED
          BY <4>0, <5>1, <5>2, FileMoved
      <4> QED
        BY <4>1, <4>2, <4>3
    <3>10. \A b \in Entries : EntryWritten(b) => EntryWritten(b)'
      BY <3>2, <3>4, EntryKept
    <3>11. \A b \in Entries : PackageWritten(b) => PackageWritten(b)'
      <4>1. "target" \in Places
        BY DEF Places
      <4> QED
        BY <3>6, <4>1 DEF PackageWritten
    <3> QED
      BY <1>2, <1>n, <2>t, <3>2, <3>4, <3>5, <3>7, <3>9, <3>10, <3>11, UploadsKept
  <2> QED
    BY <1>2, <2>1, <2>2, <2>3, <2>4, <2>5, <2>6, <2>7, <2>8, <2>9, <2>10 DEF ArtifactNext
<1>3. ASSUME ArtifactInv, UNCHANGED artifactVars PROVE ArtifactInv'
  BY <1>3 DEF ArtifactInv, ArtifactsTyped, UploadsLeaveFiles, FileSound, EntryWritten, PackageWritten,
              Writes, Of, artifactVars
<1> QED
  BY <1>1, <1>2, <1>3

\* RowHasItsEntry for any packages, artifacts and overlapping uploads: the row
\* comes last, and what an upload has written stays on disk, is being
\* rewritten, or is marked broken off or spoiled (artifact.go:96-390).
THEOREM RowHasItsEntryAlways == ArtifactSpec => []RowHasItsEntry
<1>1. ArtifactInv => RowHasItsEntry
  <2> SUFFICES ASSUME ArtifactInv, NEW a \in Entries, artifactRow[a] # NoPackage
               PROVE  /\ entryFile[a] = "whole" \/ a \in brokenOff \/ \E u \in Uploads : upload[u].at = "fill" /\ Of(u) = a
                      /\ \/ package[a]["target"].is = "spoiled" \/ \E u \in Uploads : Writes(u, a, "target")
                         \/ package[a]["target"].head # NoPackage /\ package[a]["target"].head = package[a]["target"].tail
    BY DEF RowHasItsEntry
  <2>1. EntryWritten(a) /\ PackageWritten(a)
    BY DEF ArtifactInv, UploadsLeaveFiles
  <2>2. FileSound(a, "target") /\ package[a]["target"] \in PackageFile
    BY DEF ArtifactInv, ArtifactsTyped, Places
  <2>3. package[a]["target"].is \in {"sound", "spoiled"}
    BY <2>1, <2>2 DEF PackageWritten, PackageFile
  <2> QED
    BY <2>1, <2>2, <2>3 DEF EntryWritten, FileSound
<1> QED
  BY <1>1, ArtifactInductive, PTL DEF ArtifactSpec

-----------------------------------------------------------------------------
(* Promotions (Promotion).  PromotedWasChecked speaks of the rows a request  *)
(* has written; that they passed the checks is known only from the list of   *)
(* candidates that the checks built.  So the invariant follows the list: as  *)
(* long as nothing blocked, it has one row for each item checked, and every  *)
(* row of it was let through.                                                *)

\* The item has a row among those the checks let through.
HasRow(p, j) == \E r \in p.passed : r.plug = p.items[j].plug /\ r.art = p.items[j].art

\* A request that works on a bundle has the fields of Run.
RunShape(p) ==
    DOMAIN p = {"at", "items", "i", "given", "mode", "blocked", "rows", "passed", "wrote"}

BundleRun(p) ==
    /\ RunShape(p)
    /\ Len(p.items) \in Nat /\ DOMAIN p.items = 1..Len(p.items)
    /\ p.i \in Nat \ {0} /\ p.rows \in Seq(p.passed)
    /\ p.wrote \subseteq p.passed
    /\ \A r \in p.passed : r.state # "enabled"

Transferring(p) == p.at = "transfer" /\ p.rows = <<>> /\ p.wrote = {} /\ ~p.blocked
Checking(p) ==
    /\ p.at = "check" /\ p.wrote = {}
    /\ p.i <= Len(p.items) + 1
    /\ ~p.blocked => Len(p.rows) = p.i - 1 /\ \A j \in 1..(p.i - 1) : HasRow(p, j)
Writing(p) ==
    /\ p.at = "write" /\ Len(p.rows) = Len(p.items)
    /\ \A j \in DOMAIN p.items : HasRow(p, j)

PromoOK(p) ==
    \/ p = Waiting
    \/ p.at = "found"
    \/ BundleRun(p) /\ (Transferring(p) \/ Checking(p) \/ Writing(p))

PromoInv == DOMAIN promo = Promotions /\ \A k \in Promotions : PromoOK(promo[k])

\* A step of one request leaves the other requests alone.
LEMMA OnePromo ==
    ASSUME PromoInv, NEW k \in Promotions, NEW y, PromoOK(y), promo' = [promo EXCEPT ![k] = y]
    PROVE  PromoInv'
<1>1. \A m \in Promotions : promo'[m] = IF m = k THEN y ELSE promo[m]
  BY DEF PromoInv
<1>2. \A m \in Promotions : PromoOK(promo'[m])
  <2> TAKE m \in Promotions
  <2>1. CASE m = k
    BY <1>1, <2>1
  <2>2. CASE m # k
    <3>1. promo'[m] = promo[m]
      BY <1>1, <2>2
    <3> QED
      BY <3>1 DEF PromoInv
  <2> QED
    BY <2>1, <2>2
<1>3. DOMAIN promo' = Promotions
  BY DEF PromoInv
<1> QED
  BY <1>2, <1>3 DEF PromoInv

\* A request starts with an empty list.
LEMMA FreshRun ==
    ASSUME NEW items, Len(items) \in Nat, DOMAIN items = 1..Len(items), NEW at \in {"transfer", "check"},
           NEW given, NEW mode
    PROVE  PromoOK(Run(items, at, given, mode))
<1> DEFINE y == Run(items, at, given, mode)
<1>1. /\ y.at = at /\ y.items = items /\ y.i = 1 /\ y.blocked = FALSE /\ y.rows = <<>>
      /\ y.passed = {} /\ y.wrote = {}
  BY DEF Run
<1>2. RunShape(y)
  BY DEF Run, RunShape
<1>3. <<>> \in Seq({}) /\ Len(<<>>) = 0
  OBVIOUS
<1> HIDE DEF y
<1>4. BundleRun(y)
  BY <1>1, <1>2, <1>3 DEF BundleRun
<1>5. Transferring(y) \/ Checking(y)
  <2>1. CASE at = "transfer"
    BY <1>1, <2>1 DEF Transferring
  <2>2. CASE at = "check"
    <3>1. 1..(y.i - 1) = {}
      BY <1>1
    <3> QED
      BY <1>1, <1>3, <2>2, <3>1 DEF Checking
  <2> QED
    BY <2>1, <2>2
<1>6. PromoOK(y)
  BY <1>4, <1>5 DEF PromoOK
<1> QED
  BY <1>6 DEF y

\* What a request at one of the stages is known to be.
LEMMA AtStage ==
    ASSUME PromoInv, NEW k \in Promotions
    PROVE  /\ promo[k].at = "transfer" => BundleRun(promo[k]) /\ Transferring(promo[k])
           /\ promo[k].at = "check" => BundleRun(promo[k]) /\ Checking(promo[k])
           /\ promo[k].at = "write" => BundleRun(promo[k]) /\ Writing(promo[k])
<1>1. PromoOK(promo[k])
  BY DEF PromoInv
<1>2. Waiting.at = "idle"
  BY DEF Waiting
<1> QED
  BY <1>1, <1>2 DEF PromoOK, Transferring, Checking, Writing

\* The list of candidates over a larger set of rows.
LEMMA ListGrows ==
    ASSUME NEW S, NEW s \in Seq(S), NEW r
    PROVE  /\ Append(s, r) \in Seq(S \cup {r})
           /\ Len(Append(s, r)) = Len(s) + 1
<1>1. s \in Seq(S \cup {r})
  <2>1. Len(s) \in Nat /\ s \in [1..Len(s) -> S]
    OBVIOUS
  <2>2. s \in [1..Len(s) -> S \cup {r}]
    BY <2>1
  <2> QED
    BY <2>1, <2>2
<1> QED
  BY <1>1

\* CheckPlugin: a row for the item, or the request is blocked.
LEMMA CheckKeeps ==
    ASSUME PromoInv, NEW k \in Promotions, CheckPlugin(k)
    PROVE  PromoInv'
<1> DEFINE p == promo[k]
           row == RowOf(k, Item(k))
<1>1. p.at = "check" /\ BundleRun(p) /\ Checking(p) /\ p.i <= Len(p.items)
  BY AtStage DEF CheckPlugin, More
<1>2. CASE ItemPasses(k, Item(k))
  <2> DEFINE y == [p EXCEPT !.i = @ + 1, !.rows = Append(@, row), !.passed = @ \cup {row}]
  <2>1. promo' = [promo EXCEPT ![k] = y]
    BY <1>2 DEF CheckPlugin
  <2>2. row.plug = p.items[p.i].plug /\ row.art = p.items[p.i].art /\ row.state # "enabled"
    BY <1>2 DEF RowOf, Item, ItemPasses, SoundBundle
  <2> HIDE DEF row
  <2>3. /\ RunShape(y)
        /\ y.at = p.at /\ y.items = p.items /\ y.i = p.i + 1 /\ y.blocked = p.blocked
        /\ y.rows = Append(p.rows, row) /\ y.passed = p.passed \cup {row} /\ y.wrote = p.wrote
    BY <1>1 DEF BundleRun, RunShape
  <2> HIDE DEF p, y
  <2>4. y.rows \in Seq(y.passed) /\ Len(y.rows) = Len(p.rows) + 1
    BY <1>1, <2>3, ListGrows DEF BundleRun
  <2>5. BundleRun(y)
    BY <1>1, <2>2, <2>3, <2>4 DEF BundleRun
  <2>6. ASSUME ~y.blocked PROVE Len(y.rows) = y.i - 1 /\ \A j \in 1..(y.i - 1) : HasRow(y, j)
    <3>1. Len(p.rows) = p.i - 1 /\ \A j \in 1..(p.i - 1) : HasRow(p, j)
      BY <1>1, <2>3, <2>6 DEF Checking
    <3>2. p.i \in Nat \ {0}
      BY <1>1 DEF BundleRun
    <3>3. \A j \in 1..p.i : j = p.i \/ j \in 1..(p.i - 1)
      BY <3>2
    <3>4. \A j : HasRow(p, j) => HasRow(y, j)
      BY <2>3 DEF HasRow
    <3>5. HasRow(y, p.i)
      BY <2>2, <2>3 DEF HasRow
    <3>6. y.i - 1 = p.i /\ Len(y.rows) = p.i
      BY <2>3, <2>4, <3>1, <3>2
    <3> QED
      BY <3>1, <3>3, <3>4, <3>5, <3>6
  <2>7. y.i <= Len(y.items) + 1
    BY <1>1, <2>3 DEF BundleRun
  <2>8. Checking(y)
    BY <1>1, <2>3, <2>6, <2>7 DEF Checking
  <2> QED
    BY <2>1, <2>5, <2>8, OnePromo DEF PromoOK
<1>3. CASE ~ItemPasses(k, Item(k))
  <2> DEFINE y == [p EXCEPT !.i = @ + 1, !.blocked = TRUE]
  <2>1. promo' = [promo EXCEPT ![k] = y]
    BY <1>3 DEF CheckPlugin
  <2>2. /\ RunShape(y)
        /\ y.at = p.at /\ y.items = p.items /\ y.i = p.i + 1 /\ y.blocked = TRUE
        /\ y.rows = p.rows /\ y.passed = p.passed /\ y.wrote = p.wrote
    BY <1>1 DEF BundleRun, RunShape
  <2> HIDE DEF p, y
  <2>3. BundleRun(y)
    BY <1>1, <2>2 DEF BundleRun
  <2>4. y.i <= Len(y.items) + 1
    BY <1>1, <2>2 DEF BundleRun
  <2>5. Checking(y)
    BY <1>1, <2>2, <2>4 DEF Checking
  <2> QED
    BY <2>1, <2>3, <2>5, OnePromo DEF PromoOK
<1> QED
  BY <1>2, <1>3

\* Settle: nothing blocked and every item is checked, so every item has its row.
LEMMA SettleKeeps ==
    ASSUME PromoInv, NEW k \in Promotions, Settle(k)
    PROVE  PromoInv'
<1> DEFINE p == promo[k]
<1>1. p.at = "check" /\ BundleRun(p) /\ Checking(p) /\ ~(p.i <= Len(p.items))
  BY AtStage DEF Settle, More
<1>2. CASE MayWrite(k)
  <2> DEFINE y == [p EXCEPT !.at = "write", !.i = 1]
  <2>1. promo' = [promo EXCEPT ![k] = y] /\ ~p.blocked
    BY <1>2 DEF Settle, MayWrite, Advance
  <2>2. /\ RunShape(y)
        /\ y.at = "write" /\ y.items = p.items /\ y.i = 1
        /\ y.rows = p.rows /\ y.passed = p.passed /\ y.wrote = p.wrote
    BY <1>1 DEF BundleRun, RunShape
  <2> HIDE DEF p, y
  <2>3. BundleRun(y)
    BY <1>1, <2>2 DEF BundleRun
  <2>4. p.i - 1 = Len(p.items)
    BY <1>1 DEF BundleRun, Checking
  <2>5. Len(p.rows) = Len(p.items) /\ \A j \in DOMAIN p.items : HasRow(p, j)
    BY <1>1, <2>1, <2>4 DEF BundleRun, Checking
  <2>6. \A j : HasRow(p, j) => HasRow(y, j)
    BY <2>2 DEF HasRow
  <2>7. Writing(y)
    BY <2>2, <2>5, <2>6 DEF Writing
  <2> QED
    BY <2>1, <2>3, <2>7, OnePromo DEF PromoOK
<1>3. CASE ~MayWrite(k)
  BY <1>3, OnePromo DEF Settle, PromotionReturns, PromoOK
<1> QED
  BY <1>2, <1>3

\* WriteDesired: the row written is one of the list.
LEMMA WriteKeeps ==
    ASSUME PromoInv, NEW k \in Promotions, WriteDesired(k)
    PROVE  PromoInv'
<1> DEFINE p == promo[k]
           r == Written(k)
           y == [p EXCEPT !.i = @ + 1, !.wrote = @ \cup {r}]
<1>1. p.at = "write" /\ BundleRun(p) /\ Writing(p) /\ p.i <= Len(p.items)
  BY AtStage DEF WriteDesired, More
<1>2. promo' = [promo EXCEPT ![k] = y]
  BY DEF WriteDesired
<1>3. r \in p.passed
  <2>1. p.i \in 1..Len(p.rows)
    BY <1>1 DEF BundleRun, Writing
  <2> QED
    BY <1>1, <2>1 DEF BundleRun, Written
<1> HIDE DEF r
<1>4. /\ RunShape(y)
      /\ y.at = "write" /\ y.items = p.items /\ y.i = p.i + 1
      /\ y.rows = p.rows /\ y.passed = p.passed /\ y.wrote = p.wrote \cup {r}
  BY <1>1 DEF BundleRun, RunShape
<1> HIDE DEF p, y
<1>5. BundleRun(y)
  BY <1>1, <1>3, <1>4 DEF BundleRun
<1>6. \A j : HasRow(p, j) => HasRow(y, j)
  BY <1>4 DEF HasRow
<1>7. Writing(y)
  BY <1>1, <1>4, <1>6 DEF Writing
<1> QED
  BY <1>2, <1>5, <1>7, OnePromo DEF PromoOK

\* Transfer: the items are counted, and then counted again by the checks.
LEMMA TransferKeeps ==
    ASSUME PromoInv, NEW k \in Promotions, Transfer(k)
    PROVE  PromoInv'
<1> DEFINE p == promo[k]
<1>1. p.at = "transfer" /\ BundleRun(p) /\ Transferring(p)
  BY AtStage DEF Transfer
<1>2. CASE More(k)
  <2> DEFINE y == [p EXCEPT !.i = @ + 1]
  <2>1. promo' = [promo EXCEPT ![k] = y]
    BY <1>2 DEF Transfer
  <2>2. /\ RunShape(y)
        /\ y.at = "transfer" /\ y.items = p.items /\ y.i = p.i + 1 /\ y.blocked = p.blocked
        /\ y.rows = p.rows /\ y.passed = p.passed /\ y.wrote = p.wrote
    BY <1>1 DEF BundleRun, RunShape
  <2> HIDE DEF p, y
  <2>3. BundleRun(y) /\ Transferring(y)
    BY <1>1, <2>2 DEF BundleRun, Transferring
  <2> QED
    BY <2>1, <2>3, OnePromo DEF PromoOK
<1>3. CASE ~More(k)
  <2> DEFINE y == [p EXCEPT !.at = "check", !.i = 1]
  <2>1. promo' = [promo EXCEPT ![k] = y]
    BY <1>3 DEF Transfer, Advance
  <2>2. /\ RunShape(y)
        /\ y.at = "check" /\ y.items = p.items /\ y.i = 1 /\ y.blocked = p.blocked
        /\ y.rows = p.rows /\ y.passed = p.passed /\ y.wrote = p.wrote
    BY <1>1 DEF BundleRun, RunShape
  <2> HIDE DEF p, y
  <2>3. BundleRun(y)
    BY <1>1, <2>2 DEF BundleRun
  <2>4. 1..(y.i - 1) = {} /\ Len(y.rows) = 0 /\ y.i <= Len(y.items) + 1
    BY <1>1, <2>2 DEF BundleRun, Transferring
  <2>5. Checking(y)
    BY <1>1, <2>2, <2>4 DEF Checking, Transferring
  <2> QED
    BY <2>1, <2>3, <2>5, OnePromo DEF PromoOK
<1> QED
  BY <1>2, <1>3

\* Init and every step keep PromoInv.
LEMMA PromoInductive ==
    /\ PromotionInit => PromoInv
    /\ PromoInv /\ [PromotionNext]_promotionVars => PromoInv'
<1>1. PromotionInit => PromoInv
  BY DEF PromotionInit, PromoInv, PromoOK
<1>2. ASSUME PromoInv, PromotionNext PROVE PromoInv'
  <2>k. ASSUME promo' = promo PROVE PromoInv'
    BY <1>2, <2>k DEF PromoInv
  <2>r. ASSUME NEW k \in Promotions, PromotionReturns(k) PROVE PromoInv'
    BY <1>2, <2>r, OnePromo DEF PromotionReturns, PromoOK
  <2>b. \A b \in Bundles : Len(b) \in Nat /\ DOMAIN b = 1..Len(b)
    BY PromotionAssumption
  <2>1. ASSUME NEW k \in Promotions, NEW b \in Bundles, NEW given, NEW mode, NEW cross \in BOOLEAN,
               Submit(k, b, given, mode, cross)
        PROVE  PromoInv'
    <3> DEFINE at == IF cross THEN "transfer" ELSE "check"
    <3>1. promo' = [promo EXCEPT ![k] = Run(b, at, given, mode)]
      BY <2>1 DEF Submit
    <3>2. at \in {"transfer", "check"}
      OBVIOUS
    <3> HIDE DEF at
    <3>3. PromoOK(Run(b, at, given, mode))
      BY <2>b, <3>2, FreshRun
    <3> QED
      BY <1>2, <3>1, <3>3, OnePromo
  <2>2. ASSUME NEW k \in Promotions, SyncRepositoryIndex(k) PROVE PromoInv'
    <3>1. PICK found : promo' = [promo EXCEPT ![k] = Run(<<>>, "found", found, "sync")]
      BY <2>2 DEF SyncRepositoryIndex, Sync
    <3>2. Run(<<>>, "found", found, "sync").at = "found"
      BY DEF Run
    <3> QED
      BY <1>2, <3>1, <3>2, OnePromo DEF PromoOK
  <2>3. ASSUME NEW k \in Promotions, NEW d \in Digests, NEW given, NEW target, NEW mode,
               ApplyRepositoryImport(k, d, given, target, mode)
        PROVE  PromoInv'
    <3> DEFINE items == <<[plug |-> OwnerOf[d], art |-> d, cfg |-> NoHash, state |-> target]>>
    <3>1. promo' = [promo EXCEPT ![k] = Run(items, "check", given, mode)]
      BY <2>3 DEF ApplyRepositoryImport
    <3>2. Len(items) \in Nat /\ DOMAIN items = 1..Len(items)
      OBVIOUS
    <3> HIDE DEF items
    <3>3. PromoOK(Run(items, "check", given, mode))
      BY <3>2, FreshRun
    <3> QED
      BY <1>2, <3>1, <3>3, OnePromo
  <2>4. ASSUME NEW k \in Promotions, CheckPlugin(k) PROVE PromoInv'
    BY <1>2, <2>4, CheckKeeps
  <2>5. ASSUME NEW k \in Promotions, Settle(k) PROVE PromoInv'
    BY <1>2, <2>5, SettleKeeps
  <2>6. ASSUME NEW k \in Promotions, WriteDesired(k) PROVE PromoInv'
    BY <1>2, <2>6, WriteKeeps
  <2>7. ASSUME NEW k \in Promotions, Transfer(k) PROVE PromoInv'
    BY <1>2, <2>7, TransferKeeps
  <2>8. ASSUME NEW k \in Promotions,
               TransferFails(k) \/ ImportEnds(k) \/ WriteEnds(k)
                 \/ \E d \in Digests : ImportRepositoryArtifact(k, d)
        PROVE  PromoInv'
    BY <2>8, <2>r DEF TransferFails, ImportEnds, WriteEnds, ImportRepositoryArtifact
  <2>9. ASSUME NEW k \in Promotions, NEW b \in Bundles, NEW given, RunPromotionDRDrill(k, b, given)
        PROVE  PromoInv'
    BY <2>9, <2>1 DEF RunPromotionDRDrill
  <2>10. ASSUME NEW p, NEW row, PutDesired(p, row) PROVE PromoInv'
    BY <2>10, <2>k DEF PutDesired, Others
  <2>11. ASSUME NEW d, CollectArtifact(d) \/ PolicyTurns(d) PROVE PromoInv'
    BY <2>11, <2>k DEF CollectArtifact, PolicyTurns, Others
  <2>12. ASSUME NEW what, RepositoryTurns(what) PROVE PromoInv'
    BY <2>12, <2>k DEF RepositoryTurns, Others
  <2> QED
    BY <1>2, <2>1, <2>2, <2>3, <2>4, <2>5, <2>6, <2>7, <2>8, <2>9, <2>10, <2>11, <2>12 DEF PromotionNext
<1>3. ASSUME PromoInv, UNCHANGED promotionVars PROVE PromoInv'
  BY <1>3 DEF PromoInv, promotionVars
<1> QED
  BY <1>1, <1>2, <1>3

\* Whatever bundles arrive and however many requests are served at once, ApplyPromotionBundle
\* and ApplyRepositoryImport write only rows that passed every check, and only after every plugin
\* of the bundle had: PromotedWasChecked.
THEOREM PromotedWasCheckedAlways == PromotionSpec => []PromotedWasChecked
<1>1. PromoInv => PromotedWasChecked
  <2> SUFFICES ASSUME PromoInv, NEW k \in Promotions, promo[k].at = "write"
               PROVE  /\ promo[k].wrote \subseteq promo[k].passed
                      /\ \A j \in DOMAIN promo[k].items : HasRow(promo[k], j)
                      /\ \A r \in promo[k].wrote : r.state # "enabled"
    BY DEF PromotedWasChecked, HasRow
  <2>1. BundleRun(promo[k]) /\ Writing(promo[k])
    BY AtStage
  <2> QED
    BY <2>1 DEF BundleRun, Writing
<1> QED
  BY <1>1, PromoInductive, PTL DEF PromotionSpec
-----------------------------------------------------------------------------
(* The mode of the plugin service.                                            *)

ModeCall ==
    [at : {"refuse", "fallback", "activate", "select", "skipped"}, node : ModeNodes,
     mode : Modes, late : BOOLEAN]

ModeTyped ==
    /\ serviceRow \in [desired : Modes, active : Modes]
    /\ nodeMode \in [ModeNodes -> Modes \cup {"none"}]
    /\ modeCall \in [ModeCalls -> ModeCall \cup {NoApply}]

\* Between its statement and the end of the call a node is behind the row.
BehindRow(n) == \E c \in ModeCalls : modeCall[c].at \in {"select", "skipped"} /\ modeCall[c].node = n

\* A node that nobody has overtaken runs in the active mode of the row or in
\* process: a sandbox that it can no longer run is still the active mode.
FollowsRow(n) ==
    nodeMode[n] # "none" /\ n \notin overtaken /\ ~BehindRow(n)
        => nodeMode[n] \in {serviceRow.active, "in-process"}

\* A call that is refused goes on with the mode the row still names, unless
\* another call has moved the row.
RefusedIsCurrent ==
    \A c \in ModeCalls : modeCall[c].at = "refuse" /\ ~modeCall[c].late => modeCall[c].mode = serviceRow.active

ModeInv == ModeTyped /\ RefusedIsCurrent /\ \A n \in ModeNodes : FollowsRow(n)

\* No call is told from a call by its step.
LEMMA IdleCall == NoApply \notin ModeCall /\ NoApply.at \notin {"refuse", "fallback", "activate", "select", "skipped"}
BY DEF NoApply, ModeCall

\* The end of a call, whatever it makes of the node's mode: the node has the
\* active mode or none of its own, it is overtaken, or it kept its mode and the
\* call had not moved the row.
LEMMA CallEnds ==
    ASSUME ModeInv, NEW c \in ModeCalls, modeCall[c] # NoApply, NEW m \in Modes,
           modeCall' = [modeCall EXCEPT ![c] = NoApply],
           nodeMode' = [nodeMode EXCEPT ![modeCall[c].node] = m],
           serviceRow' = serviceRow, overtaken \ {modeCall[c].node} \subseteq overtaken',
           \/ m \in {serviceRow.active, "in-process"}
           \/ modeCall[c].node \in overtaken'
           \/ /\ m = nodeMode[modeCall[c].node] /\ overtaken \subseteq overtaken'
              /\ modeCall[c].at \notin {"select", "skipped"}
    PROVE  ModeInv'
<1>1. ModeTyped /\ modeCall[c] \in ModeCall /\ modeCall[c].node \in ModeNodes
  BY DEF ModeInv, ModeTyped, ModeCall
<1>2. modeCall'[c] = NoApply /\ \A d \in ModeCalls \ {c} : modeCall'[d] = modeCall[d]
  BY <1>1 DEF ModeTyped
<1>3. ModeTyped'
  BY <1>1 DEF ModeTyped
<1>4. RefusedIsCurrent'
  BY <1>2, IdleCall DEF ModeInv, RefusedIsCurrent
<1>5. ASSUME NEW n \in ModeNodes PROVE FollowsRow(n)'
  <2>1. FollowsRow(n) /\ nodeMode'[n] = IF n = modeCall[c].node THEN m ELSE nodeMode[n]
    BY <1>1 DEF ModeInv, ModeTyped
  <2>2. BehindRow(n) => BehindRow(n)' \/ (n = modeCall[c].node /\ modeCall[c].at \in {"select", "skipped"})
    BY <1>2 DEF BehindRow
  <2> QED
    BY <2>1, <2>2, <1>1 DEF FollowsRow, Modes
<1> QED
  BY <1>3, <1>4, <1>5 DEF ModeInv

\* A step that leaves calls, modes and the active mode of the row alone.
LEMMA ModeKept ==
    ASSUME ModeInv, UNCHANGED <<nodeMode, modeCall, overtaken>>,
           serviceRow' \in [desired : Modes, active : Modes], serviceRow'.active = serviceRow.active
    PROVE  ModeInv'
BY DEF ModeInv, ModeTyped, RefusedIsCurrent, FollowsRow, BehindRow

\* Init and every step of every call keep the invariant.
LEMMA ModeInductive ==
    /\ ModeInit => ModeInv
    /\ ModeInv /\ [ModeNext]_serviceVars => ModeInv'
<1>1. ASSUME ModeInit PROVE ModeInv
  <2>1. ModeTyped
    BY <1>1 DEF ModeInit, ModeTyped, Modes
  <2>2. RefusedIsCurrent
    BY <1>1, IdleCall DEF ModeInit, RefusedIsCurrent
  <2> QED
    BY <1>1, <2>1, <2>2 DEF ModeInit, ModeInv, FollowsRow
<1>2. ASSUME ModeInv, ModeNext PROVE ModeInv'
  <2>0. /\ ModeTyped /\ RefusedIsCurrent /\ \A n \in ModeNodes : FollowsRow(n)
        /\ serviceRow \in [desired : Modes, active : Modes]
    BY <1>2 DEF ModeInv, ModeTyped
  <2>1. ASSUME NEW mode \in Modes, SetPluginServiceDesired(mode) PROVE ModeInv'
    BY <1>2, <2>0, <2>1, ModeKept DEF SetPluginServiceDesired
  <2>2. ASSUME NEW c \in ModeCalls, NEW n \in ModeNodes, ReadMode(c, n) PROVE ModeInv'
    <3>1. PICK at \in {"refuse", "fallback", "activate"}, mode \in Modes :
            /\ modeCall' = [modeCall EXCEPT ![c] = [at |-> at, node |-> n, mode |-> mode, late |-> FALSE]]
            /\ at = "refuse" => mode = serviceRow.active
      <4>1. "in-process" \in Modes /\ serviceRow.active \in Modes /\ serviceRow.desired \in Modes
        BY <2>0 DEF Modes
      <4> DEFINE steps == {[at |-> "refuse", mode |-> serviceRow.active],
                           [at |-> "fallback", mode |-> "in-process"],
                           [at |-> "activate", mode |-> serviceRow.desired]}
      <4>2. PICK step \in steps : modeCall' = [modeCall EXCEPT ![c] =
                [at |-> step.at, node |-> n, mode |-> step.mode, late |-> FALSE]]
        BY <2>2 DEF ReadMode
      <4>3. /\ step.at \in {"refuse", "fallback", "activate"} /\ step.mode \in Modes
            /\ step.at = "refuse" => step.mode = serviceRow.active
        BY <4>1
      <4> QED
        BY <4>2, <4>3
    <3> DEFINE new == [at |-> at, node |-> n, mode |-> mode, late |-> FALSE]
    <3>2. new \in ModeCall /\ new.at = at /\ new.mode = mode
      BY DEF ModeCall
    <3> HIDE DEF new
    <3>3. UNCHANGED <<serviceRow, nodeMode, overtaken>> /\ modeCall[c] = NoApply
      BY <2>2 DEF ReadMode
    <3>4. modeCall' = [modeCall EXCEPT ![c] = new]
      BY <3>1 DEF new
    <3>5. \A d \in ModeCalls : modeCall'[d] = IF d = c THEN new ELSE modeCall[d]
      BY <2>0, <3>4 DEF ModeTyped
    <3>6. ModeTyped'
      BY <2>0, <3>2, <3>3, <3>4 DEF ModeTyped
    <3>7. RefusedIsCurrent'
      BY <2>0, <3>1, <3>2, <3>3, <3>5 DEF RefusedIsCurrent
    <3>8. \A k \in ModeNodes : BehindRow(k) => BehindRow(k)'
      BY <3>3, <3>5, IdleCall DEF BehindRow
    <3>9. \A k \in ModeNodes : FollowsRow(k)'
      BY <2>0, <3>3, <3>8 DEF FollowsRow
    <3> QED
      BY <3>6, <3>7, <3>9 DEF ModeInv
  <2>3. ASSUME NEW c \in ModeCalls, ApplyPluginServiceActive(c) PROVE ModeInv'
    <3>1. modeCall[c] \in ModeCall
      BY <2>0, <2>3, IdleCall DEF ApplyPluginServiceActive, ModeTyped
    <3>2. modeCall[c].mode \in Modes /\ modeCall[c].node \in ModeNodes
      BY <3>1 DEF ModeCall
    <3>3. /\ modeCall'[c] \in ModeCall /\ modeCall'[c].at \in {"select", "skipped"}
          /\ modeCall'[c].node = modeCall[c].node
      BY <2>3, <3>1 DEF ApplyPluginServiceActive, ModeCall
    <3>4. ASSUME NEW d \in ModeCalls, d # c
          PROVE  /\ modeCall'[d] \in ModeCall \cup {NoApply}
                 /\ modeCall'[d].at = "refuse" => modeCall'[d].late
      <4>1. CASE modeCall[d].at = "refuse"
        <5>1. modeCall[d] \in ModeCall
          BY <2>0, <4>1, IdleCall DEF ModeTyped
        <5> QED
          BY <2>3, <3>4, <4>1, <5>1 DEF ApplyPluginServiceActive, ModeCall
      <4>2. CASE modeCall[d].at # "refuse"
        BY <2>0, <2>3, <3>4, <4>2 DEF ApplyPluginServiceActive, ModeTyped
      <4> QED
        BY <4>1, <4>2
    <3>5. DOMAIN modeCall' = ModeCalls /\ modeCall' = [d \in ModeCalls |-> modeCall'[d]]
      BY <2>3 DEF ApplyPluginServiceActive
    <3>6. ModeTyped'
      BY <2>0, <2>3, <3>2, <3>3, <3>4, <3>5 DEF ApplyPluginServiceActive, ModeTyped
    <3>7. RefusedIsCurrent'
      BY <3>3, <3>4 DEF RefusedIsCurrent
    <3>8. ASSUME NEW k \in ModeNodes PROVE FollowsRow(k)'
      <4>1. CASE k = modeCall[c].node
        BY <3>3, <4>1 DEF FollowsRow, BehindRow
      <4>2. CASE k # modeCall[c].node
        BY <2>3, <4>2 DEF ApplyPluginServiceActive, FollowsRow
      <4> QED
        BY <4>1, <4>2
    <3> QED
      BY <3>6, <3>7, <3>8 DEF ModeInv
  <2>4. ASSUME NEW c \in ModeCalls, TakeMode(c) PROVE ModeInv'
    <3>1. modeCall[c] # NoApply /\ serviceRow.active \in Modes
      BY <2>0, <2>4, IdleCall DEF TakeMode
    <3> QED
      BY <1>2, <2>4, <3>1, CallEnds DEF TakeMode, Takes
  <2>5. ASSUME NEW c \in ModeCalls, SkipMode(c) PROVE ModeInv'
    <3>1. modeCall[c] # NoApply /\ "in-process" \in Modes
      BY <2>5, IdleCall DEF SkipMode, Modes
    <3> QED
      BY <1>2, <2>5, <3>1, CallEnds DEF SkipMode, Takes
  <2>6. ASSUME NEW c \in ModeCalls, RecordFailure(c) PROVE ModeInv'
    <3>1. modeCall[c] # NoApply /\ modeCall[c] \in ModeCall
      BY <2>0, <2>6, IdleCall DEF RecordFailure, ModeTyped
    <3>2. modeCall[c].mode \in Modes /\ modeCall[c].late \in BOOLEAN
      BY <3>1 DEF ModeCall
    <3>3. CASE modeCall[c].late
      <4>1. overtaken' = overtaken \cup {modeCall[c].node}
        BY <2>6, <3>3 DEF RecordFailure, Takes
      <4> QED
        BY <1>2, <2>6, <3>1, <3>2, <4>1, CallEnds DEF RecordFailure, Takes
    <3>4. CASE ~modeCall[c].late
      <4>1. modeCall[c].mode = serviceRow.active /\ overtaken' = overtaken \ {modeCall[c].node}
        BY <2>0, <2>6, <3>4 DEF RecordFailure, Takes, RefusedIsCurrent
      <4> QED
        BY <1>2, <2>6, <3>1, <3>2, <4>1, CallEnds DEF RecordFailure, Takes
    <3> QED
      BY <3>3, <3>4
  <2>7. ASSUME NEW c \in ModeCalls, ApplyFails(c) PROVE ModeInv'
    <3> DEFINE n == modeCall[c].node
               m == IF nodeMode[n] = "none" THEN "in-process" ELSE nodeMode[n]
    <3>1. modeCall[c] # NoApply /\ modeCall[c] \in ModeCall
      BY <2>0, <2>7 DEF ApplyFails, ModeTyped
    <3>2. n \in ModeNodes /\ m \in Modes
      BY <2>0, <3>1 DEF ModeTyped, ModeCall, Modes
    <3>3. /\ nodeMode' = [nodeMode EXCEPT ![n] = m] /\ modeCall' = [modeCall EXCEPT ![c] = NoApply]
          /\ UNCHANGED serviceRow
          /\ overtaken' = overtaken \cup {k \in {n} : modeCall[c].at \in {"select", "skipped"}}
      BY <2>7 DEF ApplyFails
    <3>4. /\ overtaken \subseteq overtaken'
          /\ n \in overtaken' \/ modeCall[c].at \notin {"select", "skipped"}
          /\ m \in {serviceRow.active, "in-process"} \/ m = nodeMode[n]
      BY <3>3
    <3> HIDE DEF n, m
    <3> QED
      BY <1>2, <3>1, <3>2, <3>3, <3>4, CallEnds DEF n
  <2>8. ASSUME NEW n \in ModeNodes, Restart(n) PROVE ModeInv'
    <3>1. /\ \A d \in ModeCalls : modeCall'[d] =
                IF modeCall[d] # NoApply /\ modeCall[d].node = n THEN NoApply ELSE modeCall[d]
          /\ UNCHANGED serviceRow /\ overtaken' = overtaken \ {n}
      BY <2>8 DEF Restart
    <3>2. ModeTyped'
      BY <2>0, <2>8 DEF Restart, ModeTyped
    <3>3. RefusedIsCurrent'
      BY <2>0, <3>1, IdleCall DEF RefusedIsCurrent
    <3>4. ASSUME NEW k \in ModeNodes PROVE FollowsRow(k)'
      <4>1. CASE k = n
        <5>1. nodeMode'[k] = "none"
          BY <2>0, <2>8, <4>1 DEF Restart, ModeTyped
        <5> QED
          BY <5>1 DEF FollowsRow
      <4>2. CASE k # n
        <5>1. nodeMode'[k] = nodeMode[k] /\ (k \in overtaken => k \in overtaken')
          BY <2>0, <2>8, <3>1, <4>2 DEF Restart, ModeTyped
        <5>2. BehindRow(k) => BehindRow(k)'
          BY <3>1, <4>2 DEF BehindRow
        <5> QED
          BY <2>0, <3>1, <5>1, <5>2 DEF FollowsRow
      <4> QED
        BY <4>1, <4>2
    <3> QED
      BY <3>2, <3>3, <3>4 DEF ModeInv
  <2> QED
    BY <1>2, <2>1, <2>2, <2>3, <2>4, <2>5, <2>6, <2>7, <2>8 DEF ModeNext
<1>3. ASSUME ModeInv, UNCHANGED serviceVars PROVE ModeInv'
  BY <1>3, ModeKept DEF serviceVars, ModeInv, ModeTyped
<1> QED
  BY <1>1, <1>2, <1>3

\* However many processes share the row and however many calls of
\* ApplyPluginServiceMode overlap, whatever statements fail and however often a
\* process restarts with another environment: a node at rest that asks for no
\* restart runs in the desired mode, unless another call has overtaken it or the
\* select after its statement failed (NoAlertMeansDesired).
THEOREM AlertIsShown == ModeSpec => []NoAlertMeansDesired
<1>1. ASSUME ModeInv PROVE NoAlertMeansDesired
  <2> SUFFICES ASSUME NEW n \in ModeNodes, nodeMode[n] # "none", ~Applying(n), ~RestartRequired(n)
               PROVE  nodeMode[n] = serviceRow.desired \/ n \in overtaken
    BY DEF NoAlertMeansDesired
  <2>1. ~BehindRow(n)
    BY IdleCall DEF BehindRow, Applying
  <2>2. FollowsRow(n)
    BY <1>1 DEF ModeInv
  <2> QED
    BY <2>1, <2>2 DEF RestartRequired, DataPlaneMode, HasDataPlane, FollowsRow
<1>2. /\ ModeInit => ModeInv
      /\ ModeInv /\ [ModeNext]_serviceVars => ModeInv'
  BY ModeInductive
<1> QED
  BY <1>1, <1>2, PTL DEF ModeSpec
=============================================================================
