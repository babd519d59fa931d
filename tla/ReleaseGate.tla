----------------------------- MODULE ReleaseGate -----------------------------
(* Governance: reviews, warning overrides, advisories and the vulnerability *)
(* database, and the release gate that Enable asks; then what follows a     *)
(* match - the quarantine of running plugins - beside the configuration     *)
(* updates that reload a running plugin.  A plugin has one artifact here    *)
(* (upgrades are in DesiredState).  The gate reads the tables without a     *)
(* lock; loading, reloading and quarantining hold the manager's.            *)
EXTENDS Naturals, FiniteSets

CONSTANTS
    Plugs,        \* plugins
    Cfgs,         \* configurations
    HighRisk,     \* plugins whose riskLevel asks for a review in production
    GateRefused,      \* <<plugin, configuration>> that a preflight check refuses
    Singletons,   \* the provider singletons a plugin declares
    IngressOf,    \* plugins that declare ingress.service/v1
    IngressGate,  \* TRUE when the ingress data plane is enabled
    PortOf,       \* the listener that an ingress plugin declares
    Unfit,        \* <<plugin, check>> that fails: "conformance", "runtime",
                  \* "listener" (one the gateway reserves), "cycle" (middleware)
    BuiltBy,      \* "upload", or the builder of the artifact's source build
    Notices,      \* advisories and vulnerability records
    Vulns,        \* the notices that are vulnerability records
    GateRequests, \* requests in flight
    MaxGates,     \* bound on requests begun
    MaxDays,      \* bound on the clock; an override lasts one day
    NoCfg

ASSUME GateAssumption ==
    /\ Vulns \subseteq Notices /\ NoCfg \notin Cfgs /\ IngressGate \in BOOLEAN
    /\ BuiltBy \in [Plugs -> {"upload", "local-process", "container"}]

VARIABLES
    want,      \* desired rows: on, cfg, gen
    state,     \* runtime rows
    loadedCfg,   \* configuration of the loaded runtime, or NoCfg
    live,      \* plugins in the dispatch tables
    reviews,   \* reviews recorded: plugin -> <<configuration, decision>>
    override,  \* plugin -> the day its warning override expires
    graded,    \* the severity of the latest benchmark, assessment and health
    notice,    \* notice -> status, action, plugin
    ask,       \* requests in flight
    gates, day

gateVars == <<want, state, loadedCfg, live, reviews, override, graded, notice, ask, gates, day>>
tables == <<reviews, override, graded, notice, day>>

-----------------------------------------------------------------------------
Severities == {"none", "warning", "blocking"}
Actions == {"mitigate", "denylist", "quarantine"}

NoAsk == [at |-> "idle"]

GateInit ==
    /\ \E c \in Cfgs : want = [p \in Plugs |-> [on |-> FALSE, cfg |-> c, gen |-> 1]]
    /\ state = [p \in Plugs |-> "disabled"]
    /\ loadedCfg = [p \in Plugs |-> NoCfg]
    /\ live = {}
    /\ reviews = [p \in Plugs |-> {}]
    /\ override = [p \in Plugs |-> 0]
    /\ graded = [p \in Plugs |-> "none"]
    /\ notice = [n \in Notices |-> [status |-> "absent", action |-> "mitigate", of |-> {}]]
    /\ ask = [r \in GateRequests |-> NoAsk]
    /\ gates = 0 /\ day = 0

Begin(r) == ask[r] = NoAsk /\ gates < MaxGates /\ gates' = gates + 1
Ends(r) == ask' = [ask EXCEPT ![r] = NoAsk]

-----------------------------------------------------------------------------
(* The tables.                                                              *)

(* CreateReview, for the configuration desired now.                          *)
CreateReview(p, decision) ==
    /\ reviews' = [reviews EXCEPT ![p] = @ \cup {<<want[p].cfg, decision>>}]
    /\ UNCHANGED <<want, state, loadedCfg, live, override, graded, notice, ask, gates, day>>

(* A new benchmark, supply chain assessment or state of a dependency.        *)
Grade(p, severity) ==
    /\ graded' = [graded EXCEPT ![p] = severity]
    /\ UNCHANGED <<want, state, loadedCfg, live, reviews, override, notice, ask, gates, day>>

NextDay ==
    /\ day < MaxDays
    /\ day' = day + 1
    /\ UNCHANGED <<want, state, loadedCfg, live, reviews, override, graded, notice, ask, gates>>

(* advisoryIgnored, advisoryMatches.                                         *)
Matching(p) == {n \in Notices : notice[n].status \in {"active", "revoked"} /\ p \in notice[n].of}

(* advisorySeverity, vulnerabilityGateSeverity.                              *)
NoticeSeverity(n) ==
    IF notice[n].status = "revoked" \/ notice[n].action \in {"denylist", "quarantine"} THEN "blocking" ELSE "warning"

(* preflightChecks, for production: the configuration against its schema and *)
(* secrets; the conformance report, the runtime's ABI, capabilities and      *)
(* limits; the ingress gate; who built it (a container image that is not     *)
(* pinned is a warning); the latest assessment and the dependencies' health. *)
ConfigChecks(p, c) == {s \in {"blocking"} : <<p, c>> \in GateRefused}
ConformanceChecks(p) == {s \in {"blocking"} : <<p, "conformance">> \in Unfit}
RuntimeChecks(p) == {s \in {"blocking"} : <<p, "runtime">> \in Unfit}
IngressChecks(p) == {s \in {"blocking"} : p \in IngressOf /\ ~IngressGate}
ProvenanceChecks(p) ==
    CASE BuiltBy[p] = "upload" -> {} [] BuiltBy[p] = "container" -> {"warning"} [] OTHER -> {"blocking"}
AssessmentChecks(p) == {graded[p]} \ {"none"}

PreflightIssues(p, c) ==
    ConfigChecks(p, c) \cup ConformanceChecks(p) \cup RuntimeChecks(p) \cup IngressChecks(p)
      \cup ProvenanceChecks(p) \cup AssessmentChecks(p)

(* conflictAnalysis: nothing is looked at for a plugin without an ingress.   *)
Conflicts(p) ==
    {s \in {"blocking"} : p \in IngressOf /\
        \/ <<p, "listener">> \in Unfit \/ <<p, "cycle">> \in Unfit
        \/ \E q \in Plugs \ {p} : state[q] = "enabled" /\
             (Singletons[p] \cap Singletons[q] # {} \/ (q \in IngressOf /\ PortOf[p] = PortOf[q]))}

(* Mutant: the review's config hash is not compared.                         *)
AnyReview(p, c) == \E d \in Cfgs : <<d, "approved">> \in reviews[p]

(* hasMatchingReview: the fingerprint's other parts are the artifact's and   *)
(* the policy's.                                                             *)
Reviewed(p, c) == <<c, "approved">> \in reviews[p]

(* evaluateGovernance, for the production profile.                           *)
Issues(p, c) ==
    PreflightIssues(p, c) \cup {NoticeSeverity(n) : n \in Matching(p)}
      \cup Conflicts(p) \cup (IF p \in HighRisk /\ ~Reviewed(p, c) THEN {"blocking"} ELSE {})

(* EvaluateReleaseGate.                                                      *)
GateOpen(p, c) ==
    /\ "blocking" \notin Issues(p, c)
    /\ "warning" \in Issues(p, c) => override[p] > day

(* CreateWarningOverride: only for warnings, and only when nothing blocks.   *)
CreateWarningOverride(p) ==
    /\ Issues(p, want[p].cfg) = {"warning"}
    /\ override' = [override EXCEPT ![p] = day + 1]
    /\ UNCHANGED <<want, state, loadedCfg, live, reviews, graded, notice, ask, gates, day>>

-----------------------------------------------------------------------------
(* Enable and SetDesired.                                                    *)

(* SetDesired: the dry run, then UpsertDesired; an enabled row goes on to    *)
(* reload the runtime.  The next step of the request is `then'.              *)
Desire(r, p, c, on, then) ==
    /\ <<p, c>> \notin GateRefused
    /\ want' = [want EXCEPT ![p] = [on |-> on, cfg |-> c, gen |-> @.gen + 1]]
    /\ ask' = [ask EXCEPT ![r] =
         IF on THEN [at |-> "reload", p |-> p, cfg |-> c, gen |-> want[p].gen + 1, then |-> then] ELSE NoAsk]

SetDesired(r, p, c, on) ==
    /\ Begin(r)
    /\ Desire(r, p, c, on, "idle")
    /\ UNCHANGED <<state, loadedCfg, live, tables>>

Enable(r, p) ==
    /\ Begin(r)
    /\ IF want[p].on
         THEN /\ ask' = [ask EXCEPT ![r] = [at |-> "gate", p |-> p, cfg |-> want[p].cfg, gen |-> want[p].gen]]
              /\ UNCHANGED want
         ELSE Desire(r, p, want[p].cfg, TRUE, "gate")
    /\ UNCHANGED <<state, loadedCfg, live, tables>>

AfterReload(r) ==
    ask' = [ask EXCEPT ![r] =
        IF @.then = "gate" THEN [at |-> "refresh", p |-> @.p, cfg |-> @.cfg, gen |-> @.gen] ELSE NoAsk]

(* reloadLoadedRuntime: the loaded runtime takes the configuration, and the  *)
(* row says enabled; the release gate is not asked.                          *)
Reload(r) ==
    /\ ask[r].at = "reload"
    /\ LET p == ask[r].p
       IN  IF loadedCfg[p] # NoCfg /\ ask[r].gen = want[p].gen
             THEN loadedCfg' = [loadedCfg EXCEPT ![p] = ask[r].cfg] /\ state' = [state EXCEPT ![p] = "enabled"]
             ELSE UNCHANGED <<loadedCfg, state>>
    /\ AfterReload(r)
    /\ UNCHANGED <<want, live, gates, tables>>

(* The plugin refuses the configuration: the call ends with an error.        *)
ReloadFails(r) ==
    /\ ask[r].at = "reload" /\ loadedCfg[ask[r].p] # NoCfg
    /\ Ends(r)
    /\ UNCHANGED <<want, state, loadedCfg, live, gates, tables>>

(* SetDesired answers with the row as it is now, or, when that cannot be     *)
(* read, as it wrote it: that is what the gate is asked about.               *)
RefreshRow(r) ==
    /\ ask[r].at = "refresh"
    /\ \E row \in {ask[r], want[ask[r].p]} :
         ask' = [ask EXCEPT ![r] = [at |-> "gate", p |-> ask[r].p, cfg |-> row.cfg, gen |-> row.gen]]
    /\ UNCHANGED <<want, state, loadedCfg, live, gates, tables>>

(* A closed gate is written to the row; nothing is taken out of dispatch.    *)
AskGate(r) ==
    /\ ask[r].at = "gate"
    /\ IF GateOpen(ask[r].p, ask[r].cfg)
         THEN ask' = [ask EXCEPT ![r].at = "load"] /\ UNCHANGED state
         ELSE /\ Ends(r)
              /\ state' = IF ask[r].gen = want[ask[r].p].gen THEN [state EXCEPT ![ask[r].p] = "failed"] ELSE state
    /\ UNCHANGED <<want, loadedCfg, live, gates, tables>>

(* Under the lock: loadLocked, markEnabled, publish; a row of a later        *)
(* generation takes the candidate back.                                      *)
LoadAndPublish(r) ==
    /\ ask[r].at = "load"
    /\ LET p == ask[r].p
       IN  IF ask[r].gen = want[p].gen
             THEN /\ loadedCfg' = [loadedCfg EXCEPT ![p] = ask[r].cfg]
                  /\ state' = [state EXCEPT ![p] = "enabled"]
                  /\ live' = live \cup {p}
             ELSE UNCHANGED <<loadedCfg, state, live>>
    /\ Ends(r)
    /\ UNCHANGED <<want, gates, tables>>

DisablePlugin(p) ==
    /\ want[p].on
    /\ want' = [want EXCEPT ![p].on = FALSE, ![p].gen = @ + 1]
    /\ state' = [state EXCEPT ![p] = "disabled"]
    /\ loadedCfg' = [loadedCfg EXCEPT ![p] = NoCfg]
    /\ live' = live \ {p}
    /\ UNCHANGED <<ask, gates, tables>>

-----------------------------------------------------------------------------
(* Notices, and the quarantine.                                              *)

(* Mutant: a scan looks at the action only.                                  *)
QuarantinesByAction(n) == notice[n].action = "quarantine"

(* A notice a scan quarantines for.                                          *)
Quarantines(n) == notice[n].action = "quarantine" \/ notice[n].status = "revoked"

(* UpsertAdvisory and UpsertVulnerability (which also asks for the status);  *)
(* an imported database quarantines by its scan only.                        *)
UpsertNotice(r, n, status, action, ps, imported) ==
    /\ Begin(r)
    /\ notice' = [notice EXCEPT ![n] = [status |-> status, action |-> action, of |-> ps]]
    /\ ask' = [ask EXCEPT ![r] =
         IF imported THEN [at |-> "scan"]
         ELSE IF action = "quarantine" \/ (n \in Vulns /\ status = "revoked") THEN [at |-> "list", todo |-> {ps}]
         ELSE NoAsk]
    /\ UNCHANGED <<want, state, loadedCfg, live, reviews, override, graded, day>>

(* RescanAdvisories, ScanVulnerabilities: on demand, or by a feed's ticker.  *)
Rescan(r) ==
    /\ ask[r] = NoAsk
    /\ ask' = [ask EXCEPT ![r] = [at |-> "scan"]]
    /\ UNCHANGED <<want, state, loadedCfg, live, gates, tables>>

(* Rows that name an active artifact: enabled, or draining of a quarantine.  *)
Active(p) == state[p] \in {"enabled", "draining"}

(* The active rows a scan finds, by the notice: RescanAdvisories and         *)
(* ScanVulnerabilities.                                                      *)
HitBy(m) == Quarantines(m) /\ \E p \in Plugs : Active(p) /\ m \in Matching(p)
AdvisoryHits == {notice[m].of : m \in {n \in Notices \ Vulns : HitBy(n)}}
VulnerabilityHits == {notice[m].of : m \in {n \in Vulns : HitBy(n)}}

Scan(r) ==
    /\ ask[r].at = "scan"
    /\ LET hits == AdvisoryHits \cup VulnerabilityHits
       IN  ask' = [ask EXCEPT ![r] = IF hits = {} THEN NoAsk ELSE [at |-> "list", todo |-> hits]]
    /\ UNCHANGED <<want, state, loadedCfg, live, gates, tables>>

(* quarantineAffected lists the rows, then takes the lock.                   *)
ListPlugins(r) ==
    /\ ask[r].at = "list"
    /\ \E of \in ask[r].todo :
         ask' = [ask EXCEPT ![r] = [at |-> "quarantine", todo |-> @.todo \ {of}, of |-> {p \in of : state[p] = "enabled"}]]
    /\ UNCHANGED <<want, state, loadedCfg, live, gates, tables>>

QuarantineAffected(r) ==
    /\ ask[r].at = "quarantine"
    /\ live' = live \ ask[r].of
    /\ state' = [p \in Plugs |-> IF p \in ask[r].of THEN "draining" ELSE state[p]]
    /\ ask' = [ask EXCEPT ![r] = IF @.todo = {} THEN NoAsk ELSE [at |-> "list", todo |-> @.todo]]
    /\ UNCHANGED <<want, loadedCfg, gates, tables>>

-----------------------------------------------------------------------------
GateNext ==
    \/ \E p \in Plugs :
         \/ \E d \in {"approved", "rejected"} : CreateReview(p, d)
         \/ \E s \in Severities : Grade(p, s)
         \/ CreateWarningOverride(p) \/ DisablePlugin(p)
    \/ NextDay
    \/ \E r \in GateRequests :
         \/ \E p \in Plugs : Enable(r, p) \/ \E c \in Cfgs, on \in BOOLEAN : SetDesired(r, p, c, on)
         \/ Reload(r) \/ ReloadFails(r) \/ RefreshRow(r) \/ AskGate(r) \/ LoadAndPublish(r)
         \/ \E n \in Notices, s \in {"active", "acked", "revoked"}, a \in Actions, ps \in SUBSET Plugs \ {{}}, i \in BOOLEAN :
              UpsertNotice(r, n, s, a, ps, i /\ n \in Vulns)
         \/ Rescan(r) \/ Scan(r) \/ ListPlugins(r) \/ QuarantineAffected(r)

(* A request goes on to its end; a configured feed scans again and again.    *)
GateStep(r) ==
    \/ Rescan(r) \/ Scan(r) \/ ListPlugins(r) \/ QuarantineAffected(r)
    \/ Reload(r) \/ RefreshRow(r) \/ AskGate(r) \/ LoadAndPublish(r)

GateSpec == GateInit /\ [][GateNext]_gateVars
GateFairSpec == GateSpec /\ \A r \in GateRequests : WF_gateVars(GateStep(r))

-----------------------------------------------------------------------------
Hit(p) == \E n \in Matching(p) : notice[n].action = "quarantine" \/ notice[n].status = "revoked"

(* A plugin of high risk enters the dispatch tables only with a              *)
(* configuration that was reviewed and approved as it is, while others       *)
(* write the row between the reading, the gate and the loading.              *)
PublishedIsReviewed ==
    [][\A p \in HighRisk : p \in live' \ live => <<loadedCfg'[p], "approved">> \in reviews[p]]_gateVars

(* A row that says enabled for a plugin that a notice quarantines is found   *)
(* by a scan, also when the notice came between the gate and the loading.    *)
HitRowIsQuarantined ==
    \A p \in Plugs : [](state[p] = "enabled" /\ Hit(p) => <>(state[p] # "enabled" \/ ~Hit(p)))

(* What the acceptance list says: a quarantine that hits takes the plugin    *)
(* out of the dispatch tables.                                               *)
HitLeavesDispatch == \A p \in Plugs : [](p \in live /\ Hit(p) => <>(p \notin live \/ ~Hit(p)))

=============================================================================
