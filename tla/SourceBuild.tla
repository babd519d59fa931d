------------------------------ MODULE SourceBuild ------------------------------
(***************************************************************************)
(* Source builds and artifact garbage collection of the plugin manager:    *)
(* internal/pluginmanager/manager.go (UploadArtifact, UploadSource,        *)
(* CreateBuild, RunBuild, CancelBuild, RetryBuild, SetDesired), gc.go and  *)
(* the statements of repository.go that they issue.                        *)
(*                                                                         *)
(* Nothing here takes a lock: every admin request is a goroutine of its    *)
(* own and what they share is the SQLite database, one statement at a time *)
(* (admindb.Open allows a single connection), and the artifact directory.  *)
(* An action is one statement or one change of the directory, with the     *)
(* code up to the next one.  A request holds the context of its HTTP       *)
(* request: once the client is gone every statement of it fails.           *)
(***************************************************************************)
EXTENDS Naturals

CONSTANTS
    Sources,        \* source packages, by their digest
    BuildRequests,  \* admin requests that can be in progress together
    Operations,     \* the kinds of request that arrive
    MaxBuilds,      \* bound: build rows ever inserted
    OtherRowIDs,    \* row ids that inserts into other tables may take
    MayDisconnect,  \* clients may leave before they are answered
    MayCrash        \* the process may be killed and started again

ASSUME SourceBuildAssumption ==
    /\ Operations \subseteq {"upload", "import", "run", "retry", "cancel",
                         "desire", "reject", "gc"}
    /\ MaxBuilds \in Nat
    /\ OtherRowIDs \subseteq Nat
    /\ MayDisconnect \in BOOLEAN
    /\ MayCrash \in BOOLEAN

VARIABLES
    builds,     \* table plugin_builds
    artifacts,  \* column status of table plugin_artifacts
    files,      \* artifact directories on disk
    pluginRow,  \* the plugin's row: desired artifact, and whether it is deleted
    snapshots,  \* artifacts named by plugin_config_snapshots
    lastRowID,  \* last_insert_rowid() of the only connection
    req,        \* local state of each request
    collector,  \* local state of RunGC
    orphaned    \* history: builds whose RunBuild lost its client or its process at work

buildVars == <<builds, artifacts, files, pluginRow, snapshots, lastRowID, req, collector>>
vars == <<buildVars, orphaned>>

-----------------------------------------------------------------------------
(* Data.  A package is identified by its digest and the builder is             *)
(* reproducible (-trimpath, -buildvcs=false), so a source has one binary.      *)

BuildIDs == 1 .. MaxBuilds
Source(s) == <<"source", s>>
Binary(s) == <<"binary", s>>
SourceArtifacts == {Source(s) : s \in Sources}
Binaries == {Binary(s) : s \in Sources}
Artifacts == SourceArtifacts \cup Binaries
NoArtifact == <<"none", "none">>
NoSource == "none"

\* Validated, loadable and loaded are told apart by nothing here: "usable".
ArtifactStatuses == {"absent", "usable", "rejected", "deleted"}
BuildsInFlight == {"queued", "running"}
Finished == {"succeeded", "failed", "canceled"}
BuildStatuses == {"none"} \cup BuildsInFlight \cup Finished

BuildRecord ==
    [status : BuildStatuses,
     source : Sources \cup {NoSource},
     artifact : Binaries \cup {NoArtifact}]

NoBuild == [status |-> "none", source |-> NoSource, artifact |-> NoArtifact]

\* A request between two statements.  at: the statement it issues next; build:
\* the build it was asked for or was told it created; held: the id of its copy
\* of that row; retryOf: the build being retried, or 0; then its other locals.
Request ==
    [at : {"idle", "save", "insert", "rowid", "read", "mark", "reread",
           "build", "saveBinary", "finish", "upsert"},
     build : Nat, held : Nat, retryOf : Nat,
     source : Sources \cup {NoSource},
     artifact : Artifacts \cup {NoArtifact},
     verdict : BuildStatuses,
     desired : {"kept", "deleted"},
     ctx : {"open", "done"}]

IdleRequest ==
    [at |-> "idle", build |-> 0, held |-> 0, retryOf |-> 0,
     source |-> NoSource, artifact |-> NoArtifact, verdict |-> "none",
     desired |-> "kept", ctx |-> "open"]

\* RunGC.  refs and candidates are its locals; before and seen are history: the
\* artifacts that were desired and the builds that existed when it began.
Collector ==
    [at : {"idle", "snapshots", "inflight", "outputs", "list", "remove", "mark"},
     refs : SUBSET (Artifacts \cup {NoArtifact}),
     candidates : SUBSET Artifacts,
     victim : Artifacts \cup {NoArtifact},
     before : SUBSET Binaries,
     seen : SUBSET BuildIDs,
     ctx : {"open", "done"}]

IdleGC ==
    [at |-> "idle", refs |-> {}, candidates |-> {}, victim |-> NoArtifact,
     before |-> {}, seen |-> {}, ctx |-> "open"]

Built == {b \in BuildIDs : builds[b].status # "none"}
RowRefs == IF pluginRow.desired = "deleted" THEN {} ELSE {pluginRow.artifact} \ {NoArtifact}

Init ==
    /\ builds = [b \in BuildIDs |-> NoBuild]
    /\ artifacts = [a \in Artifacts |-> "absent"]
    /\ files = {}
    /\ pluginRow = [artifact |-> NoArtifact, desired |-> "kept"]
    /\ snapshots = {}
    /\ lastRowID = 0
    /\ req = [w \in BuildRequests |-> IdleRequest]
    /\ collector = IdleGC
    /\ orphaned = {}

-----------------------------------------------------------------------------
(* Statements that other handlers issue too.                                  *)

\* SaveArtifact: INSERT ... ON CONFLICT DO UPDATE.  Only an insert takes a row.
SaveArtifact(a) ==
    /\ artifacts' = [artifacts EXCEPT ![a] = "usable"]
    /\ IF artifacts[a] = "absent" THEN lastRowID' \in OtherRowIDs
                                  ELSE UNCHANGED lastRowID

\* The audit rows of RecordOperation, of these requests and of all others.
OtherInsert ==
    /\ lastRowID' \in OtherRowIDs
    /\ UNCHANGED <<builds, artifacts, files, pluginRow, snapshots, req, collector>>

-----------------------------------------------------------------------------
(* UploadArtifact and UploadSource.                                           *)

\* ValidateAndStore: the package is unpacked, a source or a binary (an import).
StartUpload(w, a) ==
    /\ \/ "upload" \in Operations /\ a \in SourceArtifacts
       \/ "import" \in Operations /\ a \in Binaries
    /\ req[w].at = "idle"
    /\ files' = files \cup {a}
    /\ req' = [req EXCEPT ![w] = [IdleRequest EXCEPT !.at = "save", !.artifact = a]]
    /\ UNCHANGED <<builds, artifacts, pluginRow, snapshots, lastRowID, collector>>

\* A source goes on to saveSourceArtifact, which queues a build of it.
SaveUpload(w) ==
    /\ req[w].at = "save"
    /\ req[w].ctx = "open"
    /\ SaveArtifact(req[w].artifact)
    /\ \/ /\ req[w].artifact \in Binaries
          /\ req' = [req EXCEPT ![w] = IdleRequest]
       \/ \E s \in Sources :
            /\ req[w].artifact = Source(s)
            /\ req' = [req EXCEPT ![w].at = "insert", ![w].source = s]
    /\ UNCHANGED <<builds, files, pluginRow, snapshots, collector>>

-----------------------------------------------------------------------------
(* CreateBuild: the source row is read, the build row inserted, and its id     *)
(* asked for with a second statement.                                         *)

InsertBuild(w) ==
    /\ req[w].at = "insert"
    /\ req[w].ctx = "open"
    /\ \E b \in BuildIDs :
        /\ b \notin Built
        /\ \A c \in BuildIDs : c < b => c \in Built
        /\ builds' = [builds EXCEPT ![b] =
               [status |-> "queued", source |-> req[w].source, artifact |-> NoArtifact]]
        /\ lastRowID' = b
    /\ req' = [req EXCEPT ![w].at = "rowid"]
    /\ UNCHANGED <<artifacts, files, pluginRow, snapshots, collector>>

\* lastInsertID and Build(id).  A retry runs the build it gets, an upload ends.
ReadRowID(w) ==
    /\ req[w].at = "rowid"
    /\ req[w].ctx = "open"
    /\ IF lastRowID \in Built /\ req[w].retryOf # 0
       THEN req' = [req EXCEPT ![w].at = "read", ![w].build = lastRowID]
       ELSE req' = [req EXCEPT ![w] = IdleRequest]
    /\ UNCHANGED <<builds, artifacts, files, pluginRow, snapshots, lastRowID, collector>>

-----------------------------------------------------------------------------
(* RunBuild.                                                                  *)

StartRun(w, b) ==
    /\ "run" \in Operations
    /\ req[w].at = "idle"
    /\ b \in Built
    /\ req' = [req EXCEPT ![w] = [IdleRequest EXCEPT !.at = "read", !.build = b]]
    /\ UNCHANGED <<builds, artifacts, files, pluginRow, snapshots, lastRowID, collector>>

StartRetry(w, b) ==
    /\ "retry" \in Operations
    /\ req[w].at = "idle"
    /\ builds[b].status \in {"failed", "canceled"}
    /\ req' = [req EXCEPT ![w] = [IdleRequest EXCEPT !.at = "insert", !.retryOf = b,
                                              !.source = builds[b].source]]
    /\ UNCHANGED <<builds, artifacts, files, pluginRow, snapshots, lastRowID, collector>>

\* The row is copied; a policy that no longer allows the builder fails it.
ReadBuild(w) ==
    LET b == req[w].build IN
    /\ req[w].at = "read"
    /\ req[w].ctx = "open"
    /\ \/ /\ builds[b].status # "queued"
          /\ req' = [req EXCEPT ![w] = IdleRequest]
       \/ /\ builds[b].status = "queued"
          /\ \E next \in {"mark", "finish"} :
                req' = [req EXCEPT ![w].at = next, ![w].held = b,
                                   ![w].source = builds[b].source,
                                   ![w].artifact = builds[b].artifact,
                                   ![w].verdict = "failed"]
    /\ UNCHANGED <<builds, artifacts, files, pluginRow, snapshots, lastRowID, collector>>

\* Mutant: the UPDATE without AND status = queued.
MarkRunningUnguarded(w) ==
    /\ req[w].at = "mark"
    /\ req[w].ctx = "open"
    /\ builds' = [builds EXCEPT ![req[w].build].status = "running"]
    /\ req' = [req EXCEPT ![w].at = "reread"]
    /\ UNCHANGED <<artifacts, files, pluginRow, snapshots, lastRowID, collector>>

\* UPDATE ... WHERE id = ? AND status = queued; the rows affected are not asked.
MarkBuildRunning(w) ==
    LET b == req[w].build IN
    /\ req[w].at = "mark"
    /\ req[w].ctx = "open"
    /\ IF builds[b].status = "queued"
       THEN builds' = [builds EXCEPT ![b].status = "running"]
       ELSE UNCHANGED builds
    /\ req' = [req EXCEPT ![w].at = "reread"]
    /\ UNCHANGED <<artifacts, files, pluginRow, snapshots, lastRowID, collector>>

\* build, _ = m.repo.Build: when the statement fails the copy is a zero record.
RereadBuild(w) ==
    LET b == req[w].build IN
    /\ req[w].at = "reread"
    /\ req' = [req EXCEPT
          ![w].at = "build",
          ![w].held = IF req[w].ctx = "open" THEN b ELSE 0,
          ![w].artifact = IF req[w].ctx = "open" THEN builds[b].artifact ELSE NoArtifact]
    /\ UNCHANGED <<builds, artifacts, files, pluginRow, snapshots, lastRowID, collector>>

\* builder.Build in the source's directory, then StoreBuiltBinary.
BuildSucceeds(w) ==
    /\ req[w].at = "build"
    /\ req[w].ctx = "open"
    /\ Source(req[w].source) \in files
    /\ files' = files \cup {Binary(req[w].source)}
    /\ req' = [req EXCEPT ![w].at = "saveBinary"]
    /\ UNCHANGED <<builds, artifacts, pluginRow, snapshots, lastRowID, collector>>

\* Mutant: the builder is tried again, without a limit.
BuildFailsRetries(w) ==
    /\ req[w].at = "build"
    /\ req' = [req EXCEPT ![w].at = "reread"]
    /\ UNCHANGED <<builds, artifacts, files, pluginRow, snapshots, lastRowID, collector>>

BuildFails(w) ==
    /\ req[w].at = "build"
    /\ req' = [req EXCEPT ![w].at = "finish"]
    /\ UNCHANGED <<builds, artifacts, files, pluginRow, snapshots, lastRowID, collector>>

\* Mutant: the build is finished before its artifact is saved.
SaveBinaryLate(w) ==
    /\ req[w].at = "saveBinary"
    /\ req' = [req EXCEPT ![w].at = "finish", ![w].artifact = Binary(req[w].source),
                          ![w].verdict = "succeeded"]
    /\ UNCHANGED <<builds, artifacts, files, pluginRow, snapshots, lastRowID, collector>>

SaveBinary(w) ==
    LET a == Binary(req[w].source) IN
    /\ req[w].at = "saveBinary"
    /\ \/ /\ req[w].ctx = "open"
          /\ SaveArtifact(a)
          /\ req' = [req EXCEPT ![w].at = "finish", ![w].artifact = a,
                                ![w].verdict = "succeeded"]
       \/ /\ req[w].ctx = "done"
          /\ req' = [req EXCEPT ![w].at = "finish"]
          /\ UNCHANGED <<artifacts, lastRowID>>
    /\ UNCHANGED <<builds, files, pluginRow, snapshots, collector>>

\* UPDATE ... WHERE id = ?, whatever the row says by now; its error is dropped.
FinishBuild(w) ==
    LET b == req[w].held IN
    /\ req[w].at = "finish"
    /\ IF req[w].ctx = "open" /\ b \in BuildIDs
       THEN builds' = [builds EXCEPT ![b].status = req[w].verdict,
                                     ![b].artifact = req[w].artifact]
       ELSE UNCHANGED builds
    /\ req' = [req EXCEPT ![w] = IdleRequest]
    /\ UNCHANGED <<artifacts, files, pluginRow, snapshots, lastRowID, collector>>

\* One UPDATE ... WHERE status IN (queued, running).
CancelBuild(b) ==
    /\ "cancel" \in Operations
    /\ builds[b].status \in BuildsInFlight
    /\ builds' = [builds EXCEPT ![b].status = "canceled"]
    /\ UNCHANGED <<artifacts, files, pluginRow, snapshots, lastRowID, req, collector>>

-----------------------------------------------------------------------------
(* SetDesired and AssessSupplyChain: what refers to a binary, what condemns it. *)

\* validateArtifactGate in the dry run; a deletion is not dry-run.
StartDesired(w, a, state) ==
    /\ "desire" \in Operations
    /\ req[w].at = "idle"
    /\ artifacts[a] # "absent"
    /\ state = "deleted" \/ artifacts[a] = "usable"
    /\ req' = [req EXCEPT ![w] = [IdleRequest EXCEPT !.at = "upsert", !.artifact = a,
                                              !.desired = state]]
    /\ UNCHANGED <<builds, artifacts, files, pluginRow, snapshots, lastRowID, collector>>

\* One transaction: what the row named before goes to the snapshots.  The row
\* and the snapshot may be inserts.
UpsertDesired(w) ==
    /\ req[w].at = "upsert"
    /\ req[w].ctx = "open"
    /\ snapshots' = snapshots \cup ({pluginRow.artifact} \ {NoArtifact})
    /\ pluginRow' = [artifact |-> req[w].artifact, desired |-> req[w].desired]
    /\ lastRowID' \in OtherRowIDs
    /\ req' = [req EXCEPT ![w] = IdleRequest]
    /\ UNCHANGED <<builds, artifacts, files, collector>>

\* A blocked supply chain assessment: UpdateArtifactStatus(rejected).
Reject(a) ==
    /\ "reject" \in Operations
    /\ artifacts[a] # "absent"
    /\ artifacts' = [artifacts EXCEPT ![a] = "rejected"]
    /\ UNCHANGED <<builds, files, pluginRow, snapshots, lastRowID, req, collector>>

-----------------------------------------------------------------------------
(* Requests that end early.                                                   *)

\* A statement whose error the handler returns.
RequestFails(w) ==
    /\ req[w].at \in {"save", "insert", "rowid", "read", "mark", "upsert"}
    /\ req[w].ctx = "done"
    /\ req' = [req EXCEPT ![w] = IdleRequest]
    /\ UNCHANGED <<builds, artifacts, files, pluginRow, snapshots, lastRowID, collector>>

\* CreateBuild or RunBuild finds no builder, platform or policy for the build.
BuildRefused(w) ==
    /\ req[w].at \in {"insert", "mark"}
    /\ req' = [req EXCEPT ![w] = IdleRequest]
    /\ UNCHANGED <<builds, artifacts, files, pluginRow, snapshots, lastRowID, collector>>

\* Request w is in the part of RunBuild from MarkBuildRunning to FinishBuild of b.
Runs(w, b) ==
    \/ req[w].at = "reread" /\ req[w].build = b
    \/ req[w].at \in {"build", "saveBinary", "finish"} /\ req[w].held = b

\* The client goes; a RunBuild at work goes on, and no statement of it succeeds.
Disconnect(w) ==
    /\ MayDisconnect
    /\ req[w].at # "idle"
    /\ req[w].ctx = "open"
    /\ req' = [req EXCEPT ![w].ctx = "done"]
    /\ orphaned' = orphaned \cup {b \in BuildIDs : Runs(w, b)}
    /\ UNCHANGED <<builds, artifacts, files, pluginRow, snapshots, lastRowID, collector>>

\* The database and the directory survive; a new connection has inserted nothing.
Crash ==
    /\ MayCrash
    /\ req' = [w \in BuildRequests |-> IdleRequest]
    /\ collector' = IdleGC
    /\ lastRowID' = 0
    /\ orphaned' = orphaned \cup {b \in BuildIDs : \E w \in BuildRequests : Runs(w, b)}
    /\ UNCHANGED <<builds, artifacts, files, pluginRow, snapshots>>

-----------------------------------------------------------------------------
(* RunGC: four queries of ReferencedArtifactIDs, the list of artifacts, then   *)
(* one removal and one update for each candidate.                              *)

GCReadsRow ==
    /\ "gc" \in Operations
    /\ collector.at = "idle"
    /\ collector' = [IdleGC EXCEPT !.at = "snapshots", !.refs = RowRefs,
                            !.before = RowRefs \cup snapshots, !.seen = Built]
    /\ UNCHANGED <<builds, artifacts, files, pluginRow, snapshots, lastRowID, req>>

GCReadsSnapshots ==
    /\ collector.at = "snapshots"
    /\ collector.ctx = "open"
    /\ collector' = [collector EXCEPT !.at = "inflight", !.refs = @ \cup snapshots]
    /\ UNCHANGED <<builds, artifacts, files, pluginRow, snapshots, lastRowID, req>>

\* Mutant: only running builds protect their source.
GCReadsRunning ==
    /\ collector.at = "inflight"
    /\ collector.ctx = "open"
    /\ collector' = [collector EXCEPT !.at = "outputs", !.refs = @ \cup
                 {Source(builds[b].source) : b \in {c \in Built : builds[c].status = "running"}}]
    /\ UNCHANGED <<builds, artifacts, files, pluginRow, snapshots, lastRowID, req>>

GCReadsInFlight ==
    /\ collector.at = "inflight"
    /\ collector.ctx = "open"
    /\ collector' = [collector EXCEPT !.at = "outputs", !.refs = @ \cup
                 {Source(builds[b].source) : b \in {c \in Built : builds[c].status \in BuildsInFlight}}]
    /\ UNCHANGED <<builds, artifacts, files, pluginRow, snapshots, lastRowID, req>>

GCReadsOutputs ==
    /\ collector.at = "outputs"
    /\ collector.ctx = "open"
    /\ collector' = [collector EXCEPT !.at = "list", !.refs = @ \cup
                 {builds[b].artifact : b \in {c \in Built : builds[c].status = "succeeded"}}]
    /\ UNCHANGED <<builds, artifacts, files, pluginRow, snapshots, lastRowID, req>>

\* Removable: not referenced, and a source or condemned.
Removable(a) ==
    /\ artifacts[a] # "absent"
    /\ a \notin collector.refs
    /\ a \in SourceArtifacts \/ artifacts[a] \in {"rejected", "deleted"}

GCLists ==
    /\ collector.at = "list"
    /\ collector.ctx = "open"
    /\ collector' = [collector EXCEPT !.at = "remove", !.candidates = {a \in Artifacts : Removable(a)}]
    /\ UNCHANGED <<builds, artifacts, files, pluginRow, snapshots, lastRowID, req>>

\* os.RemoveAll, which asks no context and nothing of the database.
GCRemoves(a) ==
    /\ collector.at = "remove"
    /\ a \in collector.candidates
    /\ files' = files \ {a}
    /\ collector' = [collector EXCEPT !.at = "mark", !.victim = a, !.candidates = @ \ {a}]
    /\ UNCHANGED <<builds, artifacts, pluginRow, snapshots, lastRowID, req>>

\* The directory cannot be removed.
GCSkips(a) ==
    /\ collector.at = "remove"
    /\ a \in collector.candidates
    /\ collector' = [collector EXCEPT !.candidates = @ \ {a}]
    /\ UNCHANGED <<builds, artifacts, files, pluginRow, snapshots, lastRowID, req>>

GCMarksDeleted ==
    /\ collector.at = "mark"
    /\ artifacts' = IF collector.ctx = "open" THEN [artifacts EXCEPT ![collector.victim] = "deleted"]
                               ELSE artifacts
    /\ collector' = [collector EXCEPT !.at = "remove", !.victim = NoArtifact]
    /\ UNCHANGED <<builds, files, pluginRow, snapshots, lastRowID, req>>

\* Done; or a dry run, or a query that failed.
GCEnds ==
    /\ \/ collector.at = "remove"
       \/ collector.at \in {"snapshots", "inflight", "outputs", "list"} /\ collector.ctx = "done"
    /\ collector' = IdleGC
    /\ UNCHANGED <<builds, artifacts, files, pluginRow, snapshots, lastRowID, req>>

GCDisconnect ==
    /\ MayDisconnect
    /\ collector.at # "idle"
    /\ collector.ctx = "open"
    /\ collector' = [collector EXCEPT !.ctx = "done"]
    /\ UNCHANGED <<builds, artifacts, files, pluginRow, snapshots, lastRowID, req>>

-----------------------------------------------------------------------------

\* What a request does on its own once it has begun.
RequestStep(w) ==
    \/ SaveUpload(w) \/ InsertBuild(w) \/ ReadRowID(w) \/ ReadBuild(w)
    \/ MarkBuildRunning(w) \/ RereadBuild(w) \/ BuildSucceeds(w) \/ BuildFails(w)
    \/ SaveBinary(w) \/ FinishBuild(w) \/ UpsertDesired(w)
    \/ RequestFails(w) \/ BuildRefused(w)

RequestStarts(w) ==
    \/ \E a \in Artifacts : StartUpload(w, a)
    \/ \E b \in BuildIDs : StartRun(w, b) \/ StartRetry(w, b)
    \/ \E a \in Binaries, state \in {"kept", "deleted"} : StartDesired(w, a, state)

GCStep ==
    \/ GCReadsRow \/ GCReadsSnapshots \/ GCReadsInFlight \/ GCReadsOutputs
    \/ GCLists \/ GCMarksDeleted \/ GCEnds \/ GCDisconnect
    \/ \E a \in Artifacts : GCRemoves(a) \/ GCSkips(a)

Next ==
    \/ /\ UNCHANGED orphaned
       /\ \/ \E w \in BuildRequests : RequestStarts(w) \/ RequestStep(w)
          \/ \E b \in BuildIDs : CancelBuild(b)
          \/ \E a \in Binaries : Reject(a)
          \/ GCStep
          \/ OtherInsert
    \/ \E w \in BuildRequests : Disconnect(w)
    \/ Crash

Spec == Init /\ [][Next]_vars

\* A request that has begun runs on: goroutines are scheduled and a builder ends.
FairSpec == Spec /\ \A w \in BuildRequests : WF_buildVars(RequestStep(w))

-----------------------------------------------------------------------------
(* Properties.                                                                *)

\* Types of the tables and of the locals.
TypeOK ==
    /\ builds \in [BuildIDs -> BuildRecord]
    /\ artifacts \in [Artifacts -> ArtifactStatuses]
    /\ files \subseteq Artifacts
    /\ pluginRow \in [artifact : Binaries \cup {NoArtifact}, desired : {"kept", "deleted"}]
    /\ snapshots \subseteq Binaries
    /\ lastRowID \in Nat
    /\ req \in [BuildRequests -> Request]
    /\ collector \in Collector
    /\ orphaned \subseteq BuildIDs

\* The statements of RunBuild after it has read its build.
InRun == {"mark", "reread", "build", "saveBinary", "finish"}

\* A row has a source from its insert on.
RowsConsistent ==
    \A b \in Built : builds[b].source \in Sources

\* What the locals of a request say about the tables at each statement.
RequestConsistent(w) ==
    /\ req[w].at = "save" => req[w].artifact \in Artifacts
    /\ req[w].at \in {"insert", "rowid"} => req[w].source \in Sources
    /\ req[w].at = "upsert" => req[w].artifact \in Binaries
    /\ req[w].at \in InRun \cup {"read"} => req[w].build \in Built
    /\ req[w].at \in InRun =>
          /\ req[w].source = builds[req[w].build].source
          /\ req[w].held \in {0, req[w].build}
          /\ req[w].artifact \in Binaries \cup {NoArtifact}
          /\ req[w].verdict \in {"failed", "succeeded"}
          /\ req[w].at \in {"reread", "build", "saveBinary"} \/ req[w].verdict = "succeeded"
                => builds[req[w].build].status # "queued"
          /\ req[w].verdict = "succeeded" =>
                /\ req[w].at = "finish"
                /\ req[w].artifact = Binary(req[w].source)
                /\ artifacts[req[w].artifact] # "absent"

RequestsConsistent == \A w \in BuildRequests : RequestConsistent(w)

\* What the collector has read protects what was there when it began.
ReferencesCollected ==
    /\ collector.seen \subseteq Built
    /\ collector.at = "mark" => collector.victim \in Artifacts
    /\ collector.at \notin {"remove", "mark"} => collector.candidates = {}
    /\ collector.candidates \cap collector.refs = {}
    /\ collector.at = "snapshots" => collector.before \subseteq collector.refs \cup snapshots
    /\ collector.at # "snapshots" => collector.before \subseteq collector.refs
    /\ collector.at \in {"outputs", "list", "remove", "mark"} =>
          \A b \in collector.seen : builds[b].status \in BuildsInFlight
                                => Source(builds[b].source) \in collector.refs

\* A build that reads succeeded names the binary of its own source, and that
\* binary has a row: whichever of several RunBuilds of it finished last, and
\* whatever was rejected or collected since.
SucceededNamesItsBinary ==
    \A b \in BuildIDs : builds[b].status = "succeeded" =>
        /\ builds[b].artifact = Binary(builds[b].source)
        /\ artifacts[builds[b].artifact] # "absent"

\* The inductive invariant of requests and collector: each local copy of a row
\* still agrees with the tables in what the next statement of its request, an
\* UPDATE or a removal that asks nothing, relies on.
BuildInvariant ==
    /\ TypeOK
    /\ RowsConsistent
    /\ RequestsConsistent
    /\ SucceededNamesItsBinary
    /\ ReferencesCollected

\* How the status of a row moves: the arrows of the design's state machine
\* (docs/plugin-system-design.md:3220-3223), a build that its policy fails
\* before it runs, and what FinishBuild writes over a row that another RunBuild
\* or a cancel has finished, because its UPDATE asks for the id only.
BuildMoves ==
    {<<"none", "queued">>, <<"queued", "running">>, <<"queued", "canceled">>,
     <<"running", "succeeded">>, <<"running", "failed">>, <<"running", "canceled">>,
     <<"queued", "failed">>}
    \cup (Finished \X {"succeeded", "failed"})

\* A row moves along these arrows alone, although several RunBuilds of it and a
\* cancel may be at different statements: one that has finished is not run
\* again, and queued never succeeds without running.  The design has two arrows
\* that the code does not: failed to queued (3224), where RetryBuild inserts a
\* row of its own, and none out of canceled (3221-3223), where the code has
\* canceled to succeeded and to failed.
FollowsBuildMoves ==
    [][\A b \in BuildIDs : builds'[b].status # builds[b].status
          => <<builds[b].status, builds'[b].status>> \in BuildMoves]_vars

\* The collector never removes the source of a build that was there when the
\* collection began and is still in flight.
GCKeepsSourcesInFlight ==
    [][\A b \in collector.seen : builds[b].status \in BuildsInFlight
          => ~(Source(builds[b].source) \in files /\ Source(builds[b].source) \notin files')]_vars

\* The collector never removes a binary that was desired or in a snapshot when
\* the collection began, although an upsert can move it from one table to the
\* other between the two queries.
GCKeepsDesired ==
    [][collector.before \cap files \subseteq files']_vars

\* A row that says running is being run by a RunBuild whose statements succeed,
\* unless a RunBuild of it lost its client or the process died (the context is
\* that of the HTTP request, and FinishBuild's error is dropped).
RunningHasRunner ==
    \A b \in BuildIDs : builds[b].status = "running" /\ b \notin orphaned =>
        \E w \in BuildRequests : Runs(w, b) /\ req[w].ctx = "open"

\* A build that is running ends, whoever else runs or cancels it, unless it is
\* orphaned: nothing else ever moves a row out of running but a cancel.
RunningFinishes ==
    \A b \in BuildIDs :
        (builds[b].status = "running") ~> (builds[b].status \in Finished \/ b \in orphaned)

\* What RunBuild's comment promises (manager.go:596): the record of a build
\* that runs always reaches its end in the table.
RunningAlwaysFinishes ==
    \A b \in BuildIDs : (builds[b].status = "running") ~> (builds[b].status \in Finished)

=============================================================================
