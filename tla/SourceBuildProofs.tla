--------------------------- MODULE SourceBuildProofs ---------------------------
(***************************************************************************)
(* Proofs about SourceBuild, for every set of sources and requests and any *)
(* number of builds.                                                       *)
(***************************************************************************)
EXTENDS SourceBuild, TLAPS

-----------------------------------------------------------------------------
(* The data.                                                                  *)

\* A source package and a binary are different artifacts, and each digest has
\* one of either: storeSourcePackage and StoreBuiltBinary never share an id.
LEMMA ArtifactsApart ==
    /\ \A s \in Sources : Source(s) \in SourceArtifacts /\ Binary(s) \in Binaries
    /\ SourceArtifacts \subseteq Artifacts /\ Binaries \subseteq Artifacts
    /\ \A a \in SourceArtifacts : a \notin Binaries
    /\ NoArtifact \notin Artifacts
<1>1. \A s \in Sources : Source(s) \in SourceArtifacts /\ Binary(s) \in Binaries
  BY DEF SourceArtifacts, Binaries
<1>2. \A s, t \in Sources : Source(s) # Binary(t) /\ Source(s) # NoArtifact /\ Binary(s) # NoArtifact
  BY DEF Source, Binary, NoArtifact
<1> QED
  BY <1>1, <1>2 DEF SourceArtifacts, Binaries, Artifacts

\* The records that handlers start from are of their type.
LEMMA IdleTyped ==
    /\ IdleRequest \in Request
    /\ IdleGC \in Collector
    /\ NoBuild \in BuildRecord
<1>1. IdleRequest \in Request
  BY DEF IdleRequest, Request, BuildStatuses
<1>2. IdleGC \in Collector
  BY DEF IdleGC, Collector
<1>3. NoBuild \in BuildRecord
  BY DEF NoBuild, BuildRecord, BuildStatuses
<1> QED
  BY <1>1, <1>2, <1>3

-----------------------------------------------------------------------------
(* The inductive invariant, one part and one action at a time.                *)

\* No statement of any handler writes a value of another type.
LEMMA TypeStep == BuildInvariant /\ [Next]_vars => TypeOK'
<1> SUFFICES ASSUME BuildInvariant, [Next]_vars PROVE TypeOK'
  OBVIOUS
<1> USE DEF BuildInvariant
<1>0. orphaned' \subseteq BuildIDs
  BY DEF Next, Disconnect, Crash, vars, TypeOK
<1> USE <1>0
<1>1. ASSUME NEW w \in BuildRequests, NEW a \in Artifacts, StartUpload(w, a) PROVE TypeOK'
  <2>1. files' \subseteq Artifacts
    BY <1>1, ArtifactsApart DEF StartUpload, TypeOK
  <2>2. req' \in [BuildRequests -> Request]
    <3>1. [IdleRequest EXCEPT !.at = "save", !.artifact = a] \in Request
      BY IdleTyped DEF Request
    <3> QED
      BY <1>1, <3>1 DEF StartUpload, TypeOK
  <2> QED
    BY <1>1, <2>1, <2>2 DEF StartUpload, TypeOK
<1>2. ASSUME NEW w \in BuildRequests, NEW b \in BuildIDs, StartRun(w, b) PROVE TypeOK'
  <2>1. req' \in [BuildRequests -> Request]
    <3>1. b \in Nat
      BY DEF BuildIDs
    <3>2. [IdleRequest EXCEPT !.at = "read", !.build = b] \in Request
      BY <3>1, IdleTyped DEF Request
    <3> QED
      BY <1>2, <3>2 DEF StartRun, TypeOK
  <2> QED
    BY <1>2, <2>1 DEF StartRun, TypeOK
<1>3. ASSUME NEW w \in BuildRequests, NEW b \in BuildIDs, StartRetry(w, b) PROVE TypeOK'
  <2>1. req' \in [BuildRequests -> Request]
    <3>1. builds[b].source \in Sources \cup {NoSource} /\ b \in Nat
      BY DEF TypeOK, BuildRecord, BuildIDs
    <3>2. [IdleRequest EXCEPT !.at = "insert", !.retryOf = b, !.source = builds[b].source] \in Request
      BY <3>1, IdleTyped DEF Request
    <3> QED
      BY <1>3, <3>2 DEF StartRetry, TypeOK
  <2> QED
    BY <1>3, <2>1 DEF StartRetry, TypeOK
<1>4. ASSUME NEW w \in BuildRequests, NEW a \in Binaries, NEW state \in {"kept", "deleted"}, StartDesired(w, a, state) PROVE TypeOK'
  <2>1. req' \in [BuildRequests -> Request]
    <3>1. [IdleRequest EXCEPT !.at = "upsert", !.artifact = a, !.desired = state] \in Request
      BY IdleTyped, ArtifactsApart DEF Request
    <3> QED
      BY <1>4, <3>1 DEF StartDesired, TypeOK
  <2> QED
    BY <1>4, <2>1 DEF StartDesired, TypeOK
<1>5. ASSUME NEW w \in BuildRequests, SaveUpload(w) PROVE TypeOK'
  <2>1. artifacts' \in [Artifacts -> ArtifactStatuses]
    BY <1>5, ArtifactsApart DEF SaveUpload, TypeOK, ArtifactStatuses, RequestsConsistent, RequestConsistent, RowsConsistent, InRun, Built, SaveArtifact
  <2>2. lastRowID' \in Nat
    BY <1>5, SourceBuildAssumption DEF SaveUpload, TypeOK, BuildIDs, RequestsConsistent, RequestConsistent, RowsConsistent, InRun, Built, SaveArtifact
  <2>3. req' \in [BuildRequests -> Request]
    <3>1. CASE req' = [req EXCEPT ![w] = IdleRequest]
      BY <3>1, IdleTyped DEF TypeOK
    <3>2. ASSUME NEW s \in Sources, req' = [req EXCEPT ![w].at = "insert", ![w].source = s]
          PROVE req' \in [BuildRequests -> Request]
      <4>1. req[w] \in Request
        BY DEF TypeOK
      <4>2. [req[w] EXCEPT !.at = "insert", !.source = s] \in Request
        BY <4>1 DEF Request
      <4> QED
        BY <3>2, <4>2 DEF TypeOK
    <3> QED
      BY <1>5, <3>1, <3>2 DEF SaveUpload
  <2> QED
    BY <1>5, <2>1, <2>2, <2>3 DEF SaveUpload, TypeOK
<1>6. ASSUME NEW w \in BuildRequests, InsertBuild(w) PROVE TypeOK'
  <2>1. builds' \in [BuildIDs -> BuildRecord]
    BY <1>6 DEF InsertBuild, TypeOK, BuildRecord, BuildStatuses, BuildsInFlight, Finished, RequestsConsistent, RequestConsistent, RowsConsistent, InRun, Built
  <2>2. lastRowID' \in Nat
    BY <1>6, SourceBuildAssumption DEF InsertBuild, TypeOK, BuildIDs, RequestsConsistent, RequestConsistent, RowsConsistent, InRun, Built
  <2>3. req' \in [BuildRequests -> Request]
    BY <1>6 DEF InsertBuild, TypeOK, Request
  <2> QED
    BY <1>6, <2>1, <2>2, <2>3 DEF InsertBuild, TypeOK
<1>7. ASSUME NEW w \in BuildRequests, ReadRowID(w) PROVE TypeOK'
  <2>1. req' \in [BuildRequests -> Request]
    BY <1>7, IdleTyped DEF ReadRowID, TypeOK, Request
  <2> QED
    BY <1>7, <2>1 DEF ReadRowID, TypeOK
<1>8. ASSUME NEW w \in BuildRequests, ReadBuild(w) PROVE TypeOK'
  <2>1. req' \in [BuildRequests -> Request]
    <3>1. req[w].build \in BuildIDs
      BY <1>8 DEF ReadBuild, RequestsConsistent, RequestConsistent, InRun, Built
    <3>2. req[w].build \in Nat /\ builds[req[w].build] \in BuildRecord
      BY <3>1 DEF TypeOK, BuildIDs
    <3>3. /\ builds[req[w].build].source \in Sources \cup {NoSource}
          /\ builds[req[w].build].artifact \in Artifacts \cup {NoArtifact}
      BY <3>2, ArtifactsApart DEF BuildRecord
    <3>4. CASE req' = [req EXCEPT ![w] = IdleRequest]
      BY <3>4, IdleTyped DEF TypeOK
    <3>5. ASSUME NEW next \in {"mark", "finish"},
                 req' = [req EXCEPT ![w].at = next, ![w].held = req[w].build,
                                    ![w].source = builds[req[w].build].source,
                                    ![w].artifact = builds[req[w].build].artifact,
                                    ![w].verdict = "failed"]
          PROVE req' \in [BuildRequests -> Request]
      <4>1. req[w] \in Request
        BY DEF TypeOK
      <4>2. [req[w] EXCEPT !.at = next, !.held = req[w].build,
                           !.source = builds[req[w].build].source,
                           !.artifact = builds[req[w].build].artifact,
                           !.verdict = "failed"] \in Request
        BY <3>2, <3>3, <4>1 DEF Request, BuildStatuses, Finished
      <4> QED
        BY <3>5, <4>2 DEF TypeOK
    <3> QED
      BY <1>8, <3>4, <3>5 DEF ReadBuild
  <2> QED
    BY <1>8, <2>1 DEF ReadBuild, TypeOK
<1>9. ASSUME NEW w \in BuildRequests, MarkBuildRunning(w) PROVE TypeOK'
  <2>1. builds' \in [BuildIDs -> BuildRecord]
    BY <1>9 DEF MarkBuildRunning, TypeOK, BuildRecord, BuildStatuses, BuildsInFlight, Finished, RequestsConsistent, RequestConsistent, RowsConsistent, InRun, Built
  <2>2. req' \in [BuildRequests -> Request]
    BY <1>9 DEF MarkBuildRunning, TypeOK, Request
  <2> QED
    BY <1>9, <2>1, <2>2 DEF MarkBuildRunning, TypeOK
<1>10. ASSUME NEW w \in BuildRequests, RereadBuild(w) PROVE TypeOK'
  <2>1. req' \in [BuildRequests -> Request]
    <3>1. req[w].build \in BuildIDs
      BY <1>10 DEF RereadBuild, RequestsConsistent, RequestConsistent, InRun, Built
    <3>2. req[w].build \in Nat /\ builds[req[w].build] \in BuildRecord
      BY <3>1 DEF TypeOK, BuildIDs
    <3>3. builds[req[w].build].artifact \in Artifacts \cup {NoArtifact}
      BY <3>2, ArtifactsApart DEF BuildRecord
    <3>4. PICK h \in Nat, a \in Artifacts \cup {NoArtifact} :
             req' = [req EXCEPT ![w].at = "build", ![w].held = h, ![w].artifact = a]
      BY <1>10, <3>2, <3>3 DEF RereadBuild
    <3>5. req[w] \in Request
      BY DEF TypeOK
    <3>6. [req[w] EXCEPT !.at = "build", !.held = h, !.artifact = a] \in Request
      BY <3>5 DEF Request
    <3> QED
      BY <3>4, <3>6 DEF TypeOK
  <2> QED
    BY <1>10, <2>1 DEF RereadBuild, TypeOK
<1>11. ASSUME NEW w \in BuildRequests, BuildSucceeds(w) PROVE TypeOK'
  <2>1. files' \subseteq Artifacts
    BY <1>11, ArtifactsApart DEF BuildSucceeds, TypeOK, RequestsConsistent, RequestConsistent, RowsConsistent, InRun, Built
  <2>2. req' \in [BuildRequests -> Request]
    BY <1>11 DEF BuildSucceeds, TypeOK, Request
  <2> QED
    BY <1>11, <2>1, <2>2 DEF BuildSucceeds, TypeOK
<1>12. ASSUME NEW w \in BuildRequests, BuildFails(w) PROVE TypeOK'
  <2>1. req' \in [BuildRequests -> Request]
    BY <1>12 DEF BuildFails, TypeOK, Request
  <2> QED
    BY <1>12, <2>1 DEF BuildFails, TypeOK
<1>13. ASSUME NEW w \in BuildRequests, SaveBinary(w) PROVE TypeOK'
  <2>1. artifacts' \in [Artifacts -> ArtifactStatuses]
    BY <1>13, ArtifactsApart DEF SaveBinary, TypeOK, ArtifactStatuses, RequestsConsistent, RequestConsistent, RowsConsistent, InRun, Built, SaveArtifact
  <2>2. lastRowID' \in Nat
    BY <1>13, SourceBuildAssumption DEF SaveBinary, TypeOK, BuildIDs, RequestsConsistent, RequestConsistent, RowsConsistent, InRun, Built, SaveArtifact
  <2>3. req' \in [BuildRequests -> Request]
    <3>1. Binary(req[w].source) \in Artifacts
      BY <1>13, ArtifactsApart DEF SaveBinary, RequestsConsistent, RequestConsistent, RowsConsistent, InRun
    <3> QED
      BY <1>13, <3>1 DEF SaveBinary, TypeOK, Request, BuildStatuses, Finished
  <2> QED
    BY <1>13, <2>1, <2>2, <2>3 DEF SaveBinary, TypeOK
<1>14. ASSUME NEW w \in BuildRequests, FinishBuild(w) PROVE TypeOK'
  <2>1. builds' \in [BuildIDs -> BuildRecord]
    BY <1>14 DEF FinishBuild, TypeOK, BuildRecord, BuildStatuses, BuildsInFlight, Finished, RequestsConsistent, RequestConsistent, RowsConsistent, InRun, Built
  <2>2. req' \in [BuildRequests -> Request]
    BY <1>14, IdleTyped DEF FinishBuild, TypeOK
  <2> QED
    BY <1>14, <2>1, <2>2 DEF FinishBuild, TypeOK
<1>15. ASSUME NEW w \in BuildRequests, UpsertDesired(w) PROVE TypeOK'
  <2>1. snapshots' \subseteq Binaries
    BY <1>15 DEF UpsertDesired, TypeOK, RequestsConsistent, RequestConsistent, RowsConsistent, InRun, Built
  <2>2. pluginRow' \in [artifact : Binaries \cup {NoArtifact}, desired : {"kept", "deleted"}]
    BY <1>15 DEF UpsertDesired, TypeOK, Request, RequestsConsistent, RequestConsistent, RowsConsistent, InRun, Built
  <2>3. lastRowID' \in Nat
    BY <1>15, SourceBuildAssumption DEF UpsertDesired, TypeOK, BuildIDs, RequestsConsistent, RequestConsistent, RowsConsistent, InRun, Built
  <2>4. req' \in [BuildRequests -> Request]
    BY <1>15, IdleTyped DEF UpsertDesired, TypeOK
  <2> QED
    BY <1>15, <2>1, <2>2, <2>3, <2>4 DEF UpsertDesired, TypeOK
<1>16. ASSUME NEW w \in BuildRequests, RequestFails(w) PROVE TypeOK'
  <2>1. req' \in [BuildRequests -> Request]
    BY <1>16, IdleTyped DEF RequestFails, TypeOK
  <2> QED
    BY <1>16, <2>1 DEF RequestFails, TypeOK
<1>17. ASSUME NEW w \in BuildRequests, BuildRefused(w) PROVE TypeOK'
  <2>1. req' \in [BuildRequests -> Request]
    BY <1>17, IdleTyped DEF BuildRefused, TypeOK
  <2> QED
    BY <1>17, <2>1 DEF BuildRefused, TypeOK
<1>18. ASSUME NEW w \in BuildRequests, Disconnect(w) PROVE TypeOK'
  <2>1. req' \in [BuildRequests -> Request]
    BY <1>18 DEF Disconnect, TypeOK, Request
  <2> QED
    BY <1>18, <2>1 DEF Disconnect, TypeOK
<1>19. ASSUME NEW b \in BuildIDs, CancelBuild(b) PROVE TypeOK'
  <2>1. builds' \in [BuildIDs -> BuildRecord]
    BY <1>19 DEF CancelBuild, TypeOK, BuildRecord, BuildStatuses, BuildsInFlight, Finished
  <2> QED
    BY <1>19, <2>1 DEF CancelBuild, TypeOK
<1>20. ASSUME NEW a \in Binaries, Reject(a) PROVE TypeOK'
  <2>1. artifacts' \in [Artifacts -> ArtifactStatuses]
    BY <1>20, ArtifactsApart DEF Reject, TypeOK, ArtifactStatuses
  <2> QED
    BY <1>20, <2>1 DEF Reject, TypeOK
<1>21. ASSUME OtherInsert PROVE TypeOK'
  <2>1. lastRowID' \in Nat
    BY <1>21, SourceBuildAssumption DEF OtherInsert, TypeOK, BuildIDs
  <2> QED
    BY <1>21, <2>1 DEF OtherInsert, TypeOK
<1>22. ASSUME Crash PROVE TypeOK'
  <2>1. req' \in [BuildRequests -> Request]
    BY <1>22, IdleTyped DEF Crash
  <2>2. collector' \in Collector
    BY <1>22, IdleTyped, ArtifactsApart DEF Crash, TypeOK, Collector, Artifacts, Built, RowRefs
  <2>3. lastRowID' \in Nat
    BY <1>22, SourceBuildAssumption DEF Crash, TypeOK, BuildIDs
  <2> QED
    BY <1>22, <2>1, <2>2, <2>3 DEF Crash, TypeOK
<1>23. ASSUME GCReadsRow PROVE TypeOK'
  <2>1. collector' \in Collector
    BY <1>23, IdleTyped, ArtifactsApart DEF GCReadsRow, TypeOK, Collector, Artifacts, Built, RowRefs
  <2> QED
    BY <1>23, <2>1 DEF GCReadsRow, TypeOK
<1>24. ASSUME GCReadsSnapshots PROVE TypeOK'
  <2>1. collector' \in Collector
    BY <1>24, IdleTyped, ArtifactsApart DEF GCReadsSnapshots, TypeOK, Collector, Artifacts, Built, RowRefs
  <2> QED
    BY <1>24, <2>1 DEF GCReadsSnapshots, TypeOK
<1>25. ASSUME GCReadsInFlight PROVE TypeOK'
  <2>1. collector' \in Collector
    <3> DEFINE R == {Source(builds[b].source) : b \in {c \in Built : builds[c].status \in BuildsInFlight}}
    <3>1. R \subseteq Artifacts
      BY ArtifactsApart DEF RowsConsistent
    <3> HIDE DEF R
    <3>2. collector' = [collector EXCEPT !.at = "outputs", !.refs = @ \cup R]
      BY <1>25 DEF GCReadsInFlight, R
    <3> QED
      BY <3>1, <3>2 DEF TypeOK, Collector
  <2> QED
    BY <1>25, <2>1 DEF GCReadsInFlight, TypeOK
<1>26. ASSUME GCReadsOutputs PROVE TypeOK'
  <2>1. collector' \in Collector
    <3> DEFINE R == {builds[b].artifact : b \in {c \in Built : builds[c].status = "succeeded"}}
    <3>1. R \subseteq Artifacts \cup {NoArtifact}
      BY ArtifactsApart DEF TypeOK, BuildRecord, Built
    <3> HIDE DEF R
    <3>2. collector' = [collector EXCEPT !.at = "list", !.refs = @ \cup R]
      BY <1>26 DEF GCReadsOutputs, R
    <3> QED
      BY <3>1, <3>2 DEF TypeOK, Collector
  <2> QED
    BY <1>26, <2>1 DEF GCReadsOutputs, TypeOK
<1>27. ASSUME GCLists PROVE TypeOK'
  <2>1. collector' \in Collector
    BY <1>27, IdleTyped, ArtifactsApart DEF GCLists, TypeOK, Collector, Artifacts, Built, RowRefs
  <2> QED
    BY <1>27, <2>1 DEF GCLists, TypeOK
<1>28. ASSUME GCMarksDeleted PROVE TypeOK'
  <2>1. artifacts' \in [Artifacts -> ArtifactStatuses]
    BY <1>28, ArtifactsApart DEF GCMarksDeleted, TypeOK, ArtifactStatuses, ReferencesCollected
  <2>2. collector' \in Collector
    BY <1>28, IdleTyped, ArtifactsApart DEF GCMarksDeleted, TypeOK, Collector, Artifacts, Built, RowRefs, ReferencesCollected
  <2> QED
    BY <1>28, <2>1, <2>2 DEF GCMarksDeleted, TypeOK
<1>29. ASSUME GCEnds PROVE TypeOK'
  <2>1. collector' \in Collector
    BY <1>29, IdleTyped, ArtifactsApart DEF GCEnds, TypeOK, Collector, Artifacts, Built, RowRefs
  <2> QED
    BY <1>29, <2>1 DEF GCEnds, TypeOK
<1>30. ASSUME GCDisconnect PROVE TypeOK'
  <2>1. collector' \in Collector
    BY <1>30, IdleTyped, ArtifactsApart DEF GCDisconnect, TypeOK, Collector, Artifacts, Built, RowRefs
  <2> QED
    BY <1>30, <2>1 DEF GCDisconnect, TypeOK
<1>31. ASSUME NEW a \in Artifacts, GCRemoves(a) PROVE TypeOK'
  <2>1. files' \subseteq Artifacts
    BY <1>31, ArtifactsApart DEF GCRemoves, TypeOK
  <2>2. collector' \in Collector
    BY <1>31, IdleTyped, ArtifactsApart DEF GCRemoves, TypeOK, Collector, Artifacts, Built, RowRefs
  <2> QED
    BY <1>31, <2>1, <2>2 DEF GCRemoves, TypeOK
<1>32. ASSUME NEW a \in Artifacts, GCSkips(a) PROVE TypeOK'
  <2>1. collector' \in Collector
    BY <1>32, IdleTyped, ArtifactsApart DEF GCSkips, TypeOK, Collector, Artifacts, Built, RowRefs
  <2> QED
    BY <1>32, <2>1 DEF GCSkips, TypeOK
<1>33. CASE UNCHANGED vars
  BY <1>33 DEF TypeOK, vars, buildVars
<1> QED
  BY <1>1, <1>2, <1>3, <1>4, <1>5, <1>6, <1>7, <1>8, <1>9, <1>10, <1>11, <1>12, <1>13, <1>14,
     <1>15, <1>16, <1>17, <1>18, <1>19, <1>20, <1>21, <1>22, <1>23, <1>24, <1>25, <1>26, <1>27, <1>28,
     <1>29, <1>30, <1>31, <1>32, <1>33
     DEF Next, RequestStarts, RequestStep, GCStep

\* Rows are never taken out of the tables, never change their source and are
\* never queued again: no handler issues a DELETE, UPDATEs leave source_id alone
\* and a retry inserts a row of its own.
TablesGrow ==
    /\ Built \subseteq Built'
    /\ \A b \in Built : builds'[b].source = builds[b].source
    /\ \A b \in Built : builds[b].status # "queued" => builds'[b].status # "queued"
    /\ \A a \in Artifacts : artifacts[a] # "absent" => artifacts'[a] # "absent"

\* Every step of every handler lets the tables grow only.
LEMMA RowsStay == BuildInvariant /\ [Next]_vars => TablesGrow
<1> SUFFICES ASSUME BuildInvariant, [Next]_vars PROVE TablesGrow
  OBVIOUS
<1> USE DEF BuildInvariant
<1>1. ASSUME NEW w \in BuildRequests, NEW a \in Artifacts, StartUpload(w, a) PROVE TablesGrow
  BY <1>1 DEF StartUpload, TablesGrow, Built
<1>2. ASSUME NEW w \in BuildRequests, NEW b \in BuildIDs, StartRun(w, b) PROVE TablesGrow
  BY <1>2 DEF StartRun, TablesGrow, Built
<1>3. ASSUME NEW w \in BuildRequests, NEW b \in BuildIDs, StartRetry(w, b) PROVE TablesGrow
  BY <1>3 DEF StartRetry, TablesGrow, Built
<1>4. ASSUME NEW w \in BuildRequests, NEW a \in Binaries, NEW state \in {"kept", "deleted"}, StartDesired(w, a, state) PROVE TablesGrow
  BY <1>4 DEF StartDesired, TablesGrow, Built
<1>5. ASSUME NEW w \in BuildRequests, SaveUpload(w) PROVE TablesGrow
  BY <1>5 DEF SaveUpload, SaveArtifact, TablesGrow, Built, TypeOK
<1>6. ASSUME NEW w \in BuildRequests, InsertBuild(w) PROVE TablesGrow
  BY <1>6 DEF InsertBuild, TablesGrow, Built, TypeOK, BuildRecord
<1>7. ASSUME NEW w \in BuildRequests, ReadRowID(w) PROVE TablesGrow
  BY <1>7 DEF ReadRowID, TablesGrow, Built
<1>8. ASSUME NEW w \in BuildRequests, ReadBuild(w) PROVE TablesGrow
  BY <1>8 DEF ReadBuild, TablesGrow, Built
<1>9. ASSUME NEW w \in BuildRequests, MarkBuildRunning(w) PROVE TablesGrow
  BY <1>9 DEF MarkBuildRunning, TablesGrow, Built, TypeOK, BuildRecord
<1>10. ASSUME NEW w \in BuildRequests, RereadBuild(w) PROVE TablesGrow
  BY <1>10 DEF RereadBuild, TablesGrow, Built
<1>11. ASSUME NEW w \in BuildRequests, BuildSucceeds(w) PROVE TablesGrow
  BY <1>11 DEF BuildSucceeds, TablesGrow, Built
<1>12. ASSUME NEW w \in BuildRequests, BuildFails(w) PROVE TablesGrow
  BY <1>12 DEF BuildFails, TablesGrow, Built
<1>13. ASSUME NEW w \in BuildRequests, SaveBinary(w) PROVE TablesGrow
  BY <1>13 DEF SaveBinary, SaveArtifact, TablesGrow, Built, TypeOK
<1>14. ASSUME NEW w \in BuildRequests, FinishBuild(w) PROVE TablesGrow
  BY <1>14, SMTT(30) DEF FinishBuild, TablesGrow, Built, TypeOK, BuildRecord, RequestsConsistent, RequestConsistent, InRun
<1>15. ASSUME NEW w \in BuildRequests, UpsertDesired(w) PROVE TablesGrow
  BY <1>15 DEF UpsertDesired, TablesGrow, Built
<1>16. ASSUME NEW w \in BuildRequests, RequestFails(w) PROVE TablesGrow
  BY <1>16 DEF RequestFails, TablesGrow, Built
<1>17. ASSUME NEW w \in BuildRequests, BuildRefused(w) PROVE TablesGrow
  BY <1>17 DEF BuildRefused, TablesGrow, Built
<1>18. ASSUME NEW w \in BuildRequests, Disconnect(w) PROVE TablesGrow
  BY <1>18 DEF Disconnect, TablesGrow, Built
<1>19. ASSUME NEW b \in BuildIDs, CancelBuild(b) PROVE TablesGrow
  BY <1>19 DEF CancelBuild, TablesGrow, Built, TypeOK, BuildRecord
<1>20. ASSUME NEW a \in Binaries, Reject(a) PROVE TablesGrow
  BY <1>20 DEF Reject, TablesGrow, Built, TypeOK
<1>21. ASSUME OtherInsert PROVE TablesGrow
  BY <1>21 DEF OtherInsert, TablesGrow, Built
<1>22. ASSUME Crash PROVE TablesGrow
  BY <1>22 DEF Crash, TablesGrow, Built
<1>23. ASSUME GCReadsRow PROVE TablesGrow
  BY <1>23 DEF GCReadsRow, TablesGrow, Built
<1>24. ASSUME GCReadsSnapshots PROVE TablesGrow
  BY <1>24 DEF GCReadsSnapshots, TablesGrow, Built
<1>25. ASSUME GCReadsInFlight PROVE TablesGrow
  BY <1>25 DEF GCReadsInFlight, TablesGrow, Built
<1>26. ASSUME GCReadsOutputs PROVE TablesGrow
  BY <1>26 DEF GCReadsOutputs, TablesGrow, Built
<1>27. ASSUME GCLists PROVE TablesGrow
  BY <1>27 DEF GCLists, TablesGrow, Built
<1>28. ASSUME GCMarksDeleted PROVE TablesGrow
  BY <1>28 DEF GCMarksDeleted, TablesGrow, Built, TypeOK
<1>29. ASSUME GCEnds PROVE TablesGrow
  BY <1>29 DEF GCEnds, TablesGrow, Built
<1>30. ASSUME GCDisconnect PROVE TablesGrow
  BY <1>30 DEF GCDisconnect, TablesGrow, Built
<1>31. ASSUME NEW a \in Artifacts, GCRemoves(a) PROVE TablesGrow
  BY <1>31 DEF GCRemoves, TablesGrow, Built
<1>32. ASSUME NEW a \in Artifacts, GCSkips(a) PROVE TablesGrow
  BY <1>32 DEF GCSkips, TablesGrow, Built
<1>33. CASE UNCHANGED vars
  BY <1>33 DEF vars, buildVars, TablesGrow, Built
<1> QED
  BY <1>1, <1>2, <1>3, <1>4, <1>5, <1>6, <1>7, <1>8, <1>9, <1>10, <1>11, <1>12, <1>13, <1>14,
     <1>15, <1>16, <1>17, <1>18, <1>19, <1>20, <1>21, <1>22, <1>23, <1>24, <1>25, <1>26, <1>27, <1>28,
     <1>29, <1>30, <1>31, <1>32, <1>33
     DEF Next, RequestStarts, RequestStep, GCStep

\* A build row is inserted with the source of its request and keeps it.
LEMMA RowsStep == BuildInvariant /\ [Next]_vars => RowsConsistent'
<1> SUFFICES ASSUME BuildInvariant, [Next]_vars PROVE RowsConsistent'
  OBVIOUS
<1> USE DEF BuildInvariant
<1>1. ASSUME NEW w \in BuildRequests, NEW a \in Artifacts, StartUpload(w, a) PROVE RowsConsistent'
  BY <1>1 DEF StartUpload, RowsConsistent, Built
<1>2. ASSUME NEW w \in BuildRequests, NEW b \in BuildIDs, StartRun(w, b) PROVE RowsConsistent'
  BY <1>2 DEF StartRun, RowsConsistent, Built
<1>3. ASSUME NEW w \in BuildRequests, NEW b \in BuildIDs, StartRetry(w, b) PROVE RowsConsistent'
  BY <1>3 DEF StartRetry, RowsConsistent, Built
<1>4. ASSUME NEW w \in BuildRequests, NEW a \in Binaries, NEW state \in {"kept", "deleted"}, StartDesired(w, a, state) PROVE RowsConsistent'
  BY <1>4 DEF StartDesired, RowsConsistent, Built
<1>5. ASSUME NEW w \in BuildRequests, SaveUpload(w) PROVE RowsConsistent'
  BY <1>5 DEF SaveUpload, RowsConsistent, Built
<1>6. ASSUME NEW w \in BuildRequests, InsertBuild(w) PROVE RowsConsistent'
  BY <1>6 DEF InsertBuild, RowsConsistent, Built, TypeOK, RequestsConsistent, RequestConsistent
<1>7. ASSUME NEW w \in BuildRequests, ReadRowID(w) PROVE RowsConsistent'
  BY <1>7 DEF ReadRowID, RowsConsistent, Built
<1>8. ASSUME NEW w \in BuildRequests, ReadBuild(w) PROVE RowsConsistent'
  BY <1>8 DEF ReadBuild, RowsConsistent, Built
<1>9. ASSUME NEW w \in BuildRequests, MarkBuildRunning(w) PROVE RowsConsistent'
  <2>1. Built' \subseteq Built
    BY <1>9 DEF MarkBuildRunning, Built, TypeOK, BuildRecord
  <2> QED
    BY <2>1, RowsStay DEF TablesGrow, RowsConsistent
<1>10. ASSUME NEW w \in BuildRequests, RereadBuild(w) PROVE RowsConsistent'
  BY <1>10 DEF RereadBuild, RowsConsistent, Built
<1>11. ASSUME NEW w \in BuildRequests, BuildSucceeds(w) PROVE RowsConsistent'
  BY <1>11 DEF BuildSucceeds, RowsConsistent, Built
<1>12. ASSUME NEW w \in BuildRequests, BuildFails(w) PROVE RowsConsistent'
  BY <1>12 DEF BuildFails, RowsConsistent, Built
<1>13. ASSUME NEW w \in BuildRequests, SaveBinary(w) PROVE RowsConsistent'
  BY <1>13 DEF SaveBinary, RowsConsistent, Built
<1>14. ASSUME NEW w \in BuildRequests, FinishBuild(w) PROVE RowsConsistent'
  <2>1. req[w].held \in BuildIDs => req[w].held \in Built
    BY <1>14 DEF FinishBuild, RequestsConsistent, RequestConsistent, InRun, BuildIDs
  <2>2. Built' \subseteq Built
    BY <1>14, <2>1 DEF FinishBuild, Built, TypeOK, BuildRecord
  <2> QED
    BY <2>2, RowsStay DEF TablesGrow, RowsConsistent
<1>15. ASSUME NEW w \in BuildRequests, UpsertDesired(w) PROVE RowsConsistent'
  BY <1>15 DEF UpsertDesired, RowsConsistent, Built
<1>16. ASSUME NEW w \in BuildRequests, RequestFails(w) PROVE RowsConsistent'
  BY <1>16 DEF RequestFails, RowsConsistent, Built
<1>17. ASSUME NEW w \in BuildRequests, BuildRefused(w) PROVE RowsConsistent'
  BY <1>17 DEF BuildRefused, RowsConsistent, Built
<1>18. ASSUME NEW w \in BuildRequests, Disconnect(w) PROVE RowsConsistent'
  BY <1>18 DEF Disconnect, RowsConsistent, Built
<1>19. ASSUME NEW b \in BuildIDs, CancelBuild(b) PROVE RowsConsistent'
  <2>1. Built' \subseteq Built
    BY <1>19 DEF CancelBuild, Built, TypeOK, BuildRecord, BuildsInFlight
  <2> QED
    BY <2>1, RowsStay DEF TablesGrow, RowsConsistent
<1>20. ASSUME NEW a \in Binaries, Reject(a) PROVE RowsConsistent'
  BY <1>20 DEF Reject, RowsConsistent, Built
<1>21. ASSUME OtherInsert PROVE RowsConsistent'
  BY <1>21 DEF OtherInsert, RowsConsistent, Built
<1>22. ASSUME Crash PROVE RowsConsistent'
  BY <1>22 DEF Crash, RowsConsistent, Built
<1>23. ASSUME GCReadsRow PROVE RowsConsistent'
  BY <1>23 DEF GCReadsRow, RowsConsistent, Built
<1>24. ASSUME GCReadsSnapshots PROVE RowsConsistent'
  BY <1>24 DEF GCReadsSnapshots, RowsConsistent, Built
<1>25. ASSUME GCReadsInFlight PROVE RowsConsistent'
  BY <1>25 DEF GCReadsInFlight, RowsConsistent, Built
<1>26. ASSUME GCReadsOutputs PROVE RowsConsistent'
  BY <1>26 DEF GCReadsOutputs, RowsConsistent, Built
<1>27. ASSUME GCLists PROVE RowsConsistent'
  BY <1>27 DEF GCLists, RowsConsistent, Built
<1>28. ASSUME GCMarksDeleted PROVE RowsConsistent'
  BY <1>28 DEF GCMarksDeleted, RowsConsistent, Built
<1>29. ASSUME GCEnds PROVE RowsConsistent'
  BY <1>29 DEF GCEnds, RowsConsistent, Built
<1>30. ASSUME GCDisconnect PROVE RowsConsistent'
  BY <1>30 DEF GCDisconnect, RowsConsistent, Built
<1>31. ASSUME NEW a \in Artifacts, GCRemoves(a) PROVE RowsConsistent'
  BY <1>31 DEF GCRemoves, RowsConsistent, Built
<1>32. ASSUME NEW a \in Artifacts, GCSkips(a) PROVE RowsConsistent'
  BY <1>32 DEF GCSkips, RowsConsistent, Built
<1>33. CASE UNCHANGED vars
  BY <1>33 DEF vars, buildVars, RowsConsistent, Built
<1> QED
  BY <1>1, <1>2, <1>3, <1>4, <1>5, <1>6, <1>7, <1>8, <1>9, <1>10, <1>11, <1>12, <1>13, <1>14,
     <1>15, <1>16, <1>17, <1>18, <1>19, <1>20, <1>21, <1>22, <1>23, <1>24, <1>25, <1>26, <1>27, <1>28,
     <1>29, <1>30, <1>31, <1>32, <1>33
     DEF Next, RequestStarts, RequestStep, GCStep

\* A request whose locals a step leaves alone stays consistent: rows are never
\* deleted, so a copy of a row keeps naming a row with the same source.
LEMMA OthersStay ==
    ASSUME BuildInvariant, [Next]_vars, NEW v \in BuildRequests, req'[v] = req[v]
    PROVE  RequestConsistent(v)'
<1>1. RequestConsistent(v)
  BY DEF BuildInvariant, RequestsConsistent
<1>2. TablesGrow
  BY RowsStay
<1>3. req[v].artifact \in Artifacts \cup {NoArtifact}
  BY DEF BuildInvariant, TypeOK, Request
<1>4. req[v].at \in InRun \cup {"read"} => req[v].build \in Built /\ req[v].build \in Built'
  BY <1>1, <1>2 DEF RequestConsistent, TablesGrow
<1>5. req[v].at \in InRun =>
        /\ builds'[req[v].build].source = builds[req[v].build].source
        /\ builds[req[v].build].status # "queued" => builds'[req[v].build].status # "queued"
  BY <1>2, <1>4 DEF TablesGrow
<1>6. req[v].at \in InRun /\ req[v].verdict = "succeeded" => artifacts'[req[v].artifact] # "absent"
  <2>1. req[v].at \in InRun => req[v].source \in Sources
    BY <1>1, <1>4 DEF RequestConsistent, BuildInvariant, RowsConsistent
  <2> QED
    BY <1>1, <1>2, <2>1, ArtifactsApart DEF RequestConsistent, TablesGrow
<1> QED
  BY <1>1, <1>4, <1>5, <1>6 DEF RequestConsistent

\* Each statement leaves its own request consistent, and disturbs no other.
LEMMA RequestsStep == BuildInvariant /\ [Next]_vars => RequestsConsistent'
<1> SUFFICES ASSUME BuildInvariant, [Next]_vars PROVE RequestsConsistent'
  OBVIOUS
<1> USE DEF BuildInvariant
<1>1. ASSUME NEW w \in BuildRequests, NEW a \in Artifacts, StartUpload(w, a) PROVE RequestsConsistent'
  <2>1. RequestConsistent(w)'
    BY <1>1 DEF StartUpload, TypeOK, RequestConsistent, IdleRequest, InRun, Built
  <2>2. \A v \in BuildRequests \ {w} : req'[v] = req[v]
    BY <1>1 DEF StartUpload, TypeOK
  <2> QED
    BY <2>1, <2>2, OthersStay DEF RequestsConsistent
<1>2. ASSUME NEW w \in BuildRequests, NEW b \in BuildIDs, StartRun(w, b) PROVE RequestsConsistent'
  <2>1. RequestConsistent(w)'
    BY <1>2 DEF StartRun, TypeOK, RequestConsistent, IdleRequest, InRun, Built
  <2>2. \A v \in BuildRequests \ {w} : req'[v] = req[v]
    BY <1>2 DEF StartRun, TypeOK
  <2> QED
    BY <2>1, <2>2, OthersStay DEF RequestsConsistent
<1>3. ASSUME NEW w \in BuildRequests, NEW b \in BuildIDs, StartRetry(w, b) PROVE RequestsConsistent'
  <2>1. RequestConsistent(w)'
    BY <1>3 DEF StartRetry, TypeOK, RequestConsistent, IdleRequest, InRun, RowsConsistent, Built
  <2>2. \A v \in BuildRequests \ {w} : req'[v] = req[v]
    BY <1>3 DEF StartRetry, TypeOK
  <2> QED
    BY <2>1, <2>2, OthersStay DEF RequestsConsistent
<1>4. ASSUME NEW w \in BuildRequests, NEW a \in Binaries, NEW state \in {"kept", "deleted"}, StartDesired(w, a, state) PROVE RequestsConsistent'
  <2>1. RequestConsistent(w)'
    BY <1>4 DEF StartDesired, TypeOK, RequestConsistent, IdleRequest, InRun, Built
  <2>2. \A v \in BuildRequests \ {w} : req'[v] = req[v]
    BY <1>4 DEF StartDesired, TypeOK
  <2> QED
    BY <2>1, <2>2, OthersStay DEF RequestsConsistent
<1>5. ASSUME NEW w \in BuildRequests, SaveUpload(w) PROVE RequestsConsistent'
  <2>1. RequestConsistent(w)'
    BY <1>5 DEF SaveUpload, TypeOK, Request, RequestConsistent, IdleRequest, InRun
  <2>2. \A v \in BuildRequests \ {w} : req'[v] = req[v]
    BY <1>5 DEF SaveUpload, TypeOK
  <2> QED
    BY <2>1, <2>2, OthersStay DEF RequestsConsistent
<1>6. ASSUME NEW w \in BuildRequests, InsertBuild(w) PROVE RequestsConsistent'
  <2>1. RequestConsistent(w)'
    BY <1>6 DEF InsertBuild, TypeOK, Request, RequestsConsistent, RequestConsistent, InRun
  <2>2. \A v \in BuildRequests \ {w} : req'[v] = req[v]
    BY <1>6 DEF InsertBuild, TypeOK
  <2> QED
    BY <2>1, <2>2, OthersStay DEF RequestsConsistent
<1>7. ASSUME NEW w \in BuildRequests, ReadRowID(w) PROVE RequestsConsistent'
  <2>1. RequestConsistent(w)'
    BY <1>7 DEF ReadRowID, TypeOK, Request, RequestConsistent, IdleRequest, InRun, Built
  <2>2. \A v \in BuildRequests \ {w} : req'[v] = req[v]
    BY <1>7 DEF ReadRowID, TypeOK
  <2> QED
    BY <2>1, <2>2, OthersStay DEF RequestsConsistent
<1>8. ASSUME NEW w \in BuildRequests, ReadBuild(w) PROVE RequestsConsistent'
  <2>1. RequestConsistent(w)'
    BY <1>8 DEF ReadBuild, TypeOK, Request, BuildRecord, RequestsConsistent, RequestConsistent, IdleRequest, InRun, Built
  <2>2. \A v \in BuildRequests \ {w} : req'[v] = req[v]
    BY <1>8 DEF ReadBuild, TypeOK
  <2> QED
    BY <2>1, <2>2, OthersStay DEF RequestsConsistent
<1>9. ASSUME NEW w \in BuildRequests, MarkBuildRunning(w) PROVE RequestsConsistent'
  <2>1. RequestConsistent(w)'
    <3>1. builds'[req[w].build].status # "queued"
      BY <1>9 DEF MarkBuildRunning, TypeOK, BuildRecord, RequestsConsistent, RequestConsistent, InRun, Built
    <3> QED
      BY <1>9, <3>1, RowsStay DEF MarkBuildRunning, TablesGrow, TypeOK, Request, RequestsConsistent, RequestConsistent, InRun
  <2>2. \A v \in BuildRequests \ {w} : req'[v] = req[v]
    BY <1>9 DEF MarkBuildRunning, TypeOK
  <2> QED
    BY <2>1, <2>2, OthersStay DEF RequestsConsistent
<1>10. ASSUME NEW w \in BuildRequests, RereadBuild(w) PROVE RequestsConsistent'
  <2>1. RequestConsistent(w)'
    BY <1>10 DEF RereadBuild, TypeOK, Request, BuildRecord, RequestsConsistent, RequestConsistent, InRun, Built
  <2>2. \A v \in BuildRequests \ {w} : req'[v] = req[v]
    BY <1>10 DEF RereadBuild, TypeOK
  <2> QED
    BY <2>1, <2>2, OthersStay DEF RequestsConsistent
<1>11. ASSUME NEW w \in BuildRequests, BuildSucceeds(w) PROVE RequestsConsistent'
  <2>1. RequestConsistent(w)'
    BY <1>11 DEF BuildSucceeds, TypeOK, Request, RequestsConsistent, RequestConsistent, InRun, Built
  <2>2. \A v \in BuildRequests \ {w} : req'[v] = req[v]
    BY <1>11 DEF BuildSucceeds, TypeOK
  <2> QED
    BY <2>1, <2>2, OthersStay DEF RequestsConsistent
<1>12. ASSUME NEW w \in BuildRequests, BuildFails(w) PROVE RequestsConsistent'
  <2>1. RequestConsistent(w)'
    BY <1>12 DEF BuildFails, TypeOK, Request, RequestsConsistent, RequestConsistent, InRun, Built
  <2>2. \A v \in BuildRequests \ {w} : req'[v] = req[v]
    BY <1>12 DEF BuildFails, TypeOK
  <2> QED
    BY <2>1, <2>2, OthersStay DEF RequestsConsistent
<1>13. ASSUME NEW w \in BuildRequests, SaveBinary(w) PROVE RequestsConsistent'
  <2>1. RequestConsistent(w)'
    BY <1>13, RowsStay, ArtifactsApart DEF SaveBinary, SaveArtifact, TablesGrow, TypeOK, Request, RequestsConsistent, RequestConsistent, InRun, RowsConsistent
  <2>2. \A v \in BuildRequests \ {w} : req'[v] = req[v]
    BY <1>13 DEF SaveBinary, TypeOK
  <2> QED
    BY <2>1, <2>2, OthersStay DEF RequestsConsistent
<1>14. ASSUME NEW w \in BuildRequests, FinishBuild(w) PROVE RequestsConsistent'
  <2>1. RequestConsistent(w)'
    BY <1>14 DEF FinishBuild, TypeOK, RequestConsistent, IdleRequest, InRun
  <2>2. \A v \in BuildRequests \ {w} : req'[v] = req[v]
    BY <1>14 DEF FinishBuild, TypeOK
  <2> QED
    BY <2>1, <2>2, OthersStay DEF RequestsConsistent
<1>15. ASSUME NEW w \in BuildRequests, UpsertDesired(w) PROVE RequestsConsistent'
  <2>1. RequestConsistent(w)'
    BY <1>15 DEF UpsertDesired, TypeOK, RequestConsistent, IdleRequest, InRun
  <2>2. \A v \in BuildRequests \ {w} : req'[v] = req[v]
    BY <1>15 DEF UpsertDesired, TypeOK
  <2> QED
    BY <2>1, <2>2, OthersStay DEF RequestsConsistent
<1>16. ASSUME NEW w \in BuildRequests, RequestFails(w) PROVE RequestsConsistent'
  <2>1. RequestConsistent(w)'
    BY <1>16 DEF RequestFails, TypeOK, RequestConsistent, IdleRequest, InRun
  <2>2. \A v \in BuildRequests \ {w} : req'[v] = req[v]
    BY <1>16 DEF RequestFails, TypeOK
  <2> QED
    BY <2>1, <2>2, OthersStay DEF RequestsConsistent
<1>17. ASSUME NEW w \in BuildRequests, BuildRefused(w) PROVE RequestsConsistent'
  <2>1. RequestConsistent(w)'
    BY <1>17 DEF BuildRefused, TypeOK, RequestConsistent, IdleRequest, InRun
  <2>2. \A v \in BuildRequests \ {w} : req'[v] = req[v]
    BY <1>17 DEF BuildRefused, TypeOK
  <2> QED
    BY <2>1, <2>2, OthersStay DEF RequestsConsistent
<1>18. ASSUME NEW w \in BuildRequests, Disconnect(w) PROVE RequestsConsistent'
  <2>1. RequestConsistent(w)'
    BY <1>18 DEF Disconnect, TypeOK, Request, RequestsConsistent, RequestConsistent, Built
  <2>2. \A v \in BuildRequests \ {w} : req'[v] = req[v]
    BY <1>18 DEF Disconnect, TypeOK
  <2> QED
    BY <2>1, <2>2, OthersStay DEF RequestsConsistent
<1>19. ASSUME NEW b \in BuildIDs, CancelBuild(b) PROVE RequestsConsistent'
  BY <1>19, OthersStay DEF CancelBuild, RequestsConsistent
<1>20. ASSUME NEW a \in Binaries, Reject(a) PROVE RequestsConsistent'
  BY <1>20, OthersStay DEF Reject, RequestsConsistent
<1>21. ASSUME OtherInsert PROVE RequestsConsistent'
  BY <1>21, OthersStay DEF OtherInsert, RequestsConsistent
<1>22. ASSUME Crash PROVE RequestsConsistent'
  BY <1>22 DEF Crash, RequestsConsistent, RequestConsistent, IdleRequest, InRun
<1>23. ASSUME GCReadsRow PROVE RequestsConsistent'
  BY <1>23, OthersStay DEF GCReadsRow, RequestsConsistent
<1>24. ASSUME GCReadsSnapshots PROVE RequestsConsistent'
  BY <1>24, OthersStay DEF GCReadsSnapshots, RequestsConsistent
<1>25. ASSUME GCReadsInFlight PROVE RequestsConsistent'
  BY <1>25, OthersStay DEF GCReadsInFlight, RequestsConsistent
<1>26. ASSUME GCReadsOutputs PROVE RequestsConsistent'
  BY <1>26, OthersStay DEF GCReadsOutputs, RequestsConsistent
<1>27. ASSUME GCLists PROVE RequestsConsistent'
  BY <1>27, OthersStay DEF GCLists, RequestsConsistent
<1>28. ASSUME GCMarksDeleted PROVE RequestsConsistent'
  BY <1>28, OthersStay DEF GCMarksDeleted, RequestsConsistent
<1>29. ASSUME GCEnds PROVE RequestsConsistent'
  BY <1>29, OthersStay DEF GCEnds, RequestsConsistent
<1>30. ASSUME GCDisconnect PROVE RequestsConsistent'
  BY <1>30, OthersStay DEF GCDisconnect, RequestsConsistent
<1>31. ASSUME NEW a \in Artifacts, GCRemoves(a) PROVE RequestsConsistent'
  BY <1>31, OthersStay DEF GCRemoves, RequestsConsistent
<1>32. ASSUME NEW a \in Artifacts, GCSkips(a) PROVE RequestsConsistent'
  BY <1>32, OthersStay DEF GCSkips, RequestsConsistent
<1>33. CASE UNCHANGED vars
  BY <1>33, OthersStay DEF vars, buildVars, RequestsConsistent
<1> QED
  BY <1>1, <1>2, <1>3, <1>4, <1>5, <1>6, <1>7, <1>8, <1>9, <1>10, <1>11, <1>12, <1>13, <1>14,
     <1>15, <1>16, <1>17, <1>18, <1>19, <1>20, <1>21, <1>22, <1>23, <1>24, <1>25, <1>26, <1>27, <1>28,
     <1>29, <1>30, <1>31, <1>32, <1>33
     DEF Next, RequestStarts, RequestStep, GCStep

\* SaveArtifact comes before FinishBuild, and the row it saved stays.
LEMMA SucceededStep == BuildInvariant /\ [Next]_vars => SucceededNamesItsBinary'
<1> SUFFICES ASSUME BuildInvariant, [Next]_vars PROVE SucceededNamesItsBinary'
  OBVIOUS
<1> USE DEF BuildInvariant
<1>1. ASSUME NEW w \in BuildRequests, NEW a \in Artifacts, StartUpload(w, a) PROVE SucceededNamesItsBinary'
  BY <1>1 DEF StartUpload, SucceededNamesItsBinary
<1>2. ASSUME NEW w \in BuildRequests, NEW b \in BuildIDs, StartRun(w, b) PROVE SucceededNamesItsBinary'
  BY <1>2 DEF StartRun, SucceededNamesItsBinary
<1>3. ASSUME NEW w \in BuildRequests, NEW b \in BuildIDs, StartRetry(w, b) PROVE SucceededNamesItsBinary'
  BY <1>3 DEF StartRetry, SucceededNamesItsBinary
<1>4. ASSUME NEW w \in BuildRequests, NEW a \in Binaries, NEW state \in {"kept", "deleted"}, StartDesired(w, a, state) PROVE SucceededNamesItsBinary'
  BY <1>4 DEF StartDesired, SucceededNamesItsBinary
<1>5. ASSUME NEW w \in BuildRequests, SaveUpload(w) PROVE SucceededNamesItsBinary'
  <2>1. \A b \in BuildIDs : builds[b].status = "succeeded" => builds[b].artifact \in Artifacts
    BY ArtifactsApart DEF SucceededNamesItsBinary, RowsConsistent, Built
  <2> QED
    BY <1>5, <2>1, RowsStay DEF SaveUpload, SucceededNamesItsBinary, TablesGrow
<1>6. ASSUME NEW w \in BuildRequests, InsertBuild(w) PROVE SucceededNamesItsBinary'
  BY <1>6 DEF InsertBuild, SucceededNamesItsBinary, TypeOK, BuildRecord
<1>7. ASSUME NEW w \in BuildRequests, ReadRowID(w) PROVE SucceededNamesItsBinary'
  BY <1>7 DEF ReadRowID, SucceededNamesItsBinary
<1>8. ASSUME NEW w \in BuildRequests, ReadBuild(w) PROVE SucceededNamesItsBinary'
  BY <1>8 DEF ReadBuild, SucceededNamesItsBinary
<1>9. ASSUME NEW w \in BuildRequests, MarkBuildRunning(w) PROVE SucceededNamesItsBinary'
  BY <1>9 DEF MarkBuildRunning, SucceededNamesItsBinary, TypeOK, BuildRecord
<1>10. ASSUME NEW w \in BuildRequests, RereadBuild(w) PROVE SucceededNamesItsBinary'
  BY <1>10 DEF RereadBuild, SucceededNamesItsBinary
<1>11. ASSUME NEW w \in BuildRequests, BuildSucceeds(w) PROVE SucceededNamesItsBinary'
  BY <1>11 DEF BuildSucceeds, SucceededNamesItsBinary
<1>12. ASSUME NEW w \in BuildRequests, BuildFails(w) PROVE SucceededNamesItsBinary'
  BY <1>12 DEF BuildFails, SucceededNamesItsBinary
<1>13. ASSUME NEW w \in BuildRequests, SaveBinary(w) PROVE SucceededNamesItsBinary'
  <2>1. \A b \in BuildIDs : builds[b].status = "succeeded" => builds[b].artifact \in Artifacts
    BY ArtifactsApart DEF SucceededNamesItsBinary, RowsConsistent, Built
  <2> QED
    BY <1>13, <2>1, RowsStay DEF SaveBinary, SucceededNamesItsBinary, TablesGrow
<1>14. ASSUME NEW w \in BuildRequests, FinishBuild(w) PROVE SucceededNamesItsBinary'
  <2>1. CASE req[w].ctx = "open" /\ req[w].held \in BuildIDs
    <3>1. req[w].held = req[w].build
      BY <1>14, <2>1 DEF FinishBuild, RequestsConsistent, RequestConsistent, InRun, BuildIDs
    <3>2. req[w].verdict = "succeeded" =>
             /\ req[w].artifact = Binary(builds[req[w].held].source)
             /\ artifacts[req[w].artifact] # "absent"
      BY <1>14, <3>1 DEF FinishBuild, RequestsConsistent, RequestConsistent, InRun
    <3> QED
      BY <1>14, <2>1, <3>2 DEF FinishBuild, SucceededNamesItsBinary, TypeOK, BuildRecord
  <2>2. CASE UNCHANGED builds
    BY <1>14, <2>2 DEF FinishBuild, SucceededNamesItsBinary
  <2> QED
    BY <1>14, <2>1, <2>2 DEF FinishBuild
<1>15. ASSUME NEW w \in BuildRequests, UpsertDesired(w) PROVE SucceededNamesItsBinary'
  BY <1>15 DEF UpsertDesired, SucceededNamesItsBinary
<1>16. ASSUME NEW w \in BuildRequests, RequestFails(w) PROVE SucceededNamesItsBinary'
  BY <1>16 DEF RequestFails, SucceededNamesItsBinary
<1>17. ASSUME NEW w \in BuildRequests, BuildRefused(w) PROVE SucceededNamesItsBinary'
  BY <1>17 DEF BuildRefused, SucceededNamesItsBinary
<1>18. ASSUME NEW w \in BuildRequests, Disconnect(w) PROVE SucceededNamesItsBinary'
  BY <1>18 DEF Disconnect, SucceededNamesItsBinary
<1>19. ASSUME NEW b \in BuildIDs, CancelBuild(b) PROVE SucceededNamesItsBinary'
  BY <1>19 DEF CancelBuild, SucceededNamesItsBinary, TypeOK, BuildRecord
<1>20. ASSUME NEW a \in Binaries, Reject(a) PROVE SucceededNamesItsBinary'
  <2>1. \A b \in BuildIDs : builds[b].status = "succeeded" => builds[b].artifact \in Artifacts
    BY ArtifactsApart DEF SucceededNamesItsBinary, RowsConsistent, Built
  <2> QED
    BY <1>20, <2>1, RowsStay DEF Reject, SucceededNamesItsBinary, TablesGrow
<1>21. ASSUME OtherInsert PROVE SucceededNamesItsBinary'
  BY <1>21 DEF OtherInsert, SucceededNamesItsBinary
<1>22. ASSUME Crash PROVE SucceededNamesItsBinary'
  BY <1>22 DEF Crash, SucceededNamesItsBinary
<1>23. ASSUME GCReadsRow PROVE SucceededNamesItsBinary'
  BY <1>23 DEF GCReadsRow, SucceededNamesItsBinary
<1>24. ASSUME GCReadsSnapshots PROVE SucceededNamesItsBinary'
  BY <1>24 DEF GCReadsSnapshots, SucceededNamesItsBinary
<1>25. ASSUME GCReadsInFlight PROVE SucceededNamesItsBinary'
  BY <1>25 DEF GCReadsInFlight, SucceededNamesItsBinary
<1>26. ASSUME GCReadsOutputs PROVE SucceededNamesItsBinary'
  BY <1>26 DEF GCReadsOutputs, SucceededNamesItsBinary
<1>27. ASSUME GCLists PROVE SucceededNamesItsBinary'
  BY <1>27 DEF GCLists, SucceededNamesItsBinary
<1>28. ASSUME GCMarksDeleted PROVE SucceededNamesItsBinary'
  <2>1. \A b \in BuildIDs : builds[b].status = "succeeded" => builds[b].artifact \in Artifacts
    BY ArtifactsApart DEF SucceededNamesItsBinary, RowsConsistent, Built
  <2> QED
    BY <1>28, <2>1, RowsStay DEF GCMarksDeleted, SucceededNamesItsBinary, TablesGrow
<1>29. ASSUME GCEnds PROVE SucceededNamesItsBinary'
  BY <1>29 DEF GCEnds, SucceededNamesItsBinary
<1>30. ASSUME GCDisconnect PROVE SucceededNamesItsBinary'
  BY <1>30 DEF GCDisconnect, SucceededNamesItsBinary
<1>31. ASSUME NEW a \in Artifacts, GCRemoves(a) PROVE SucceededNamesItsBinary'
  BY <1>31 DEF GCRemoves, SucceededNamesItsBinary
<1>32. ASSUME NEW a \in Artifacts, GCSkips(a) PROVE SucceededNamesItsBinary'
  BY <1>32 DEF GCSkips, SucceededNamesItsBinary
<1>33. CASE UNCHANGED vars
  BY <1>33 DEF vars, buildVars, SucceededNamesItsBinary
<1> QED
  BY <1>1, <1>2, <1>3, <1>4, <1>5, <1>6, <1>7, <1>8, <1>9, <1>10, <1>11, <1>12, <1>13, <1>14,
     <1>15, <1>16, <1>17, <1>18, <1>19, <1>20, <1>21, <1>22, <1>23, <1>24, <1>25, <1>26, <1>27, <1>28,
     <1>29, <1>30, <1>31, <1>32, <1>33
     DEF Next, RequestStarts, RequestStep, GCStep

\* While the collector's locals do not change, and the snapshots only grow, what
\* it has read keeps protecting: a build that was not in flight when the sources
\* were read is not in flight later, unless it is new.
LEMMA Protected ==
    ASSUME BuildInvariant, [Next]_vars, collector' = collector, snapshots \subseteq snapshots',
           \A b \in Built : builds'[b].status \in BuildsInFlight => builds[b].status \in BuildsInFlight
    PROVE  ReferencesCollected'
<1>1. ReferencesCollected /\ TablesGrow
  BY RowsStay DEF BuildInvariant
<1>2. collector.seen \subseteq Built /\ collector.seen \subseteq Built'
  BY <1>1 DEF ReferencesCollected, TablesGrow
<1>3. collector.at \in {"outputs", "list", "remove", "mark"} =>
         \A b \in collector.seen : builds'[b].status \in BuildsInFlight
                               => Source(builds'[b].source) \in collector.refs
  BY <1>1, <1>2 DEF ReferencesCollected, TablesGrow
<1> QED
  BY <1>1, <1>2, <1>3 DEF ReferencesCollected

\* The four queries of ReferencedArtifactIDs, in their order, miss nothing that
\* was there when they began.
LEMMA ReferencesStep == BuildInvariant /\ [Next]_vars => ReferencesCollected'
<1> SUFFICES ASSUME BuildInvariant, [Next]_vars PROVE ReferencesCollected'
  OBVIOUS
<1> USE DEF BuildInvariant
<1>1. ASSUME NEW w \in BuildRequests, NEW a \in Artifacts, StartUpload(w, a) PROVE ReferencesCollected'
  BY <1>1 DEF StartUpload, ReferencesCollected, Built
<1>2. ASSUME NEW w \in BuildRequests, NEW b \in BuildIDs, StartRun(w, b) PROVE ReferencesCollected'
  BY <1>2 DEF StartRun, ReferencesCollected, Built
<1>3. ASSUME NEW w \in BuildRequests, NEW b \in BuildIDs, StartRetry(w, b) PROVE ReferencesCollected'
  BY <1>3 DEF StartRetry, ReferencesCollected, Built
<1>4. ASSUME NEW w \in BuildRequests, NEW a \in Binaries, NEW state \in {"kept", "deleted"}, StartDesired(w, a, state) PROVE ReferencesCollected'
  BY <1>4 DEF StartDesired, ReferencesCollected, Built
<1>5. ASSUME NEW w \in BuildRequests, SaveUpload(w) PROVE ReferencesCollected'
  BY <1>5 DEF SaveUpload, ReferencesCollected, Built
<1>6. ASSUME NEW w \in BuildRequests, InsertBuild(w) PROVE ReferencesCollected'
  BY <1>6, Protected DEF InsertBuild
<1>7. ASSUME NEW w \in BuildRequests, ReadRowID(w) PROVE ReferencesCollected'
  BY <1>7 DEF ReadRowID, ReferencesCollected, Built
<1>8. ASSUME NEW w \in BuildRequests, ReadBuild(w) PROVE ReferencesCollected'
  BY <1>8 DEF ReadBuild, ReferencesCollected, Built
<1>9. ASSUME NEW w \in BuildRequests, MarkBuildRunning(w) PROVE ReferencesCollected'
  <2>1. \A b \in Built : builds'[b].status \in BuildsInFlight => builds[b].status \in BuildsInFlight
    BY <1>9 DEF MarkBuildRunning, BuildsInFlight, Built, TypeOK, BuildRecord
  <2> QED
    BY <1>9, <2>1, Protected DEF MarkBuildRunning
<1>10. ASSUME NEW w \in BuildRequests, RereadBuild(w) PROVE ReferencesCollected'
  BY <1>10 DEF RereadBuild, ReferencesCollected, Built
<1>11. ASSUME NEW w \in BuildRequests, BuildSucceeds(w) PROVE ReferencesCollected'
  BY <1>11 DEF BuildSucceeds, ReferencesCollected, Built
<1>12. ASSUME NEW w \in BuildRequests, BuildFails(w) PROVE ReferencesCollected'
  BY <1>12 DEF BuildFails, ReferencesCollected, Built
<1>13. ASSUME NEW w \in BuildRequests, SaveBinary(w) PROVE ReferencesCollected'
  BY <1>13 DEF SaveBinary, ReferencesCollected, Built
<1>14. ASSUME NEW w \in BuildRequests, FinishBuild(w) PROVE ReferencesCollected'
  <2>1. req[w].verdict \notin BuildsInFlight
    BY <1>14 DEF FinishBuild, RequestsConsistent, RequestConsistent, InRun, BuildsInFlight
  <2>2. \A b \in Built : builds'[b].status \in BuildsInFlight => builds[b].status \in BuildsInFlight
    BY <1>14, <2>1 DEF FinishBuild, Built, TypeOK, BuildRecord
  <2> QED
    BY <1>14, <2>2, Protected DEF FinishBuild
<1>15. ASSUME NEW w \in BuildRequests, UpsertDesired(w) PROVE ReferencesCollected'
  BY <1>15 DEF UpsertDesired, ReferencesCollected, Built
<1>16. ASSUME NEW w \in BuildRequests, RequestFails(w) PROVE ReferencesCollected'
  BY <1>16 DEF RequestFails, ReferencesCollected, Built
<1>17. ASSUME NEW w \in BuildRequests, BuildRefused(w) PROVE ReferencesCollected'
  BY <1>17 DEF BuildRefused, ReferencesCollected, Built
<1>18. ASSUME NEW w \in BuildRequests, Disconnect(w) PROVE ReferencesCollected'
  BY <1>18 DEF Disconnect, ReferencesCollected, Built
<1>19. ASSUME NEW b \in BuildIDs, CancelBuild(b) PROVE ReferencesCollected'
  BY <1>19, Protected DEF CancelBuild
<1>20. ASSUME NEW a \in Binaries, Reject(a) PROVE ReferencesCollected'
  BY <1>20 DEF Reject, ReferencesCollected, Built
<1>21. ASSUME OtherInsert PROVE ReferencesCollected'
  BY <1>21 DEF OtherInsert, ReferencesCollected, Built
<1>22. ASSUME Crash PROVE ReferencesCollected'
  BY <1>22 DEF Crash, ReferencesCollected, IdleGC
<1>23. ASSUME GCReadsRow PROVE ReferencesCollected'
  BY <1>23 DEF GCReadsRow, ReferencesCollected, IdleGC, RowRefs, Built
<1>24. ASSUME GCReadsSnapshots PROVE ReferencesCollected'
  <2>1. collector.refs \subseteq collector'.refs /\ snapshots \subseteq collector'.refs
    BY <1>24 DEF GCReadsSnapshots, TypeOK, Collector
  <2>2. UNCHANGED <<collector.seen, collector.before, collector.candidates, builds, snapshots>>
    BY <1>24 DEF GCReadsSnapshots, TypeOK, Collector
  <2>3. collector'.at = "inflight"
    BY <1>24 DEF GCReadsSnapshots, TypeOK, Collector
  <2> QED
    BY <1>24, <2>1, <2>2, <2>3 DEF GCReadsSnapshots, ReferencesCollected, Built
<1>25. ASSUME GCReadsInFlight PROVE ReferencesCollected'
  <2>1. \A b \in collector.seen : builds[b].status \in BuildsInFlight => Source(builds[b].source) \in collector'.refs
    BY <1>25 DEF GCReadsInFlight, ReferencesCollected, TypeOK, Collector
  <2>2. collector.refs \subseteq collector'.refs /\ collector'.at = "outputs"
    BY <1>25 DEF GCReadsInFlight, TypeOK, Collector
  <2>3. UNCHANGED <<collector.seen, collector.before, collector.candidates, builds, snapshots>>
    BY <1>25 DEF GCReadsInFlight, TypeOK, Collector
  <2> QED
    BY <1>25, <2>1, <2>2, <2>3 DEF GCReadsInFlight, ReferencesCollected, Built
<1>26. ASSUME GCReadsOutputs PROVE ReferencesCollected'
  <2>1. collector.refs \subseteq collector'.refs
    BY <1>26 DEF GCReadsOutputs, TypeOK, Collector
  <2>2. UNCHANGED <<collector.seen, collector.before, collector.candidates, builds, snapshots>>
    BY <1>26 DEF GCReadsOutputs, TypeOK, Collector
  <2>3. collector'.at = "list"
    BY <1>26 DEF GCReadsOutputs, TypeOK, Collector
  <2> QED
    BY <1>26, <2>1, <2>2, <2>3 DEF GCReadsOutputs, ReferencesCollected, Built
<1>27. ASSUME GCLists PROVE ReferencesCollected'
  BY <1>27 DEF GCLists, Removable, ReferencesCollected, TypeOK, Collector, Built
<1>28. ASSUME GCMarksDeleted PROVE ReferencesCollected'
  BY <1>28 DEF GCMarksDeleted, ReferencesCollected, TypeOK, Collector, Built
<1>29. ASSUME GCEnds PROVE ReferencesCollected'
  BY <1>29 DEF GCEnds, ReferencesCollected, IdleGC
<1>30. ASSUME GCDisconnect PROVE ReferencesCollected'
  BY <1>30 DEF GCDisconnect, ReferencesCollected, TypeOK, Collector, Built
<1>31. ASSUME NEW a \in Artifacts, GCRemoves(a) PROVE ReferencesCollected'
  BY <1>31 DEF GCRemoves, ReferencesCollected, TypeOK, Collector, Built
<1>32. ASSUME NEW a \in Artifacts, GCSkips(a) PROVE ReferencesCollected'
  BY <1>32 DEF GCSkips, ReferencesCollected, TypeOK, Collector, Built
<1>33. CASE UNCHANGED vars
  BY <1>33 DEF vars, buildVars, ReferencesCollected, Built
<1> QED
  BY <1>1, <1>2, <1>3, <1>4, <1>5, <1>6, <1>7, <1>8, <1>9, <1>10, <1>11, <1>12, <1>13, <1>14,
     <1>15, <1>16, <1>17, <1>18, <1>19, <1>20, <1>21, <1>22, <1>23, <1>24, <1>25, <1>26, <1>27, <1>28,
     <1>29, <1>30, <1>31, <1>32, <1>33
     DEF Next, RequestStarts, RequestStep, GCStep

-----------------------------------------------------------------------------
(* What the invariant is for.                                                 *)

\* Only the collector takes a directory away, and only one it did not find
\* referenced.
LEMMA OnlyGCRemoves ==
    ASSUME Next
    PROVE  files \subseteq files' \/ \E a \in Artifacts : GCRemoves(a)
<1>1. ASSUME NEW w \in BuildRequests, NEW a \in Artifacts, StartUpload(w, a) PROVE files \subseteq files'
  BY <1>1 DEF StartUpload
<1>2. ASSUME NEW w \in BuildRequests, NEW b \in BuildIDs, StartRun(w, b) PROVE files \subseteq files'
  BY <1>2 DEF StartRun
<1>3. ASSUME NEW w \in BuildRequests, NEW b \in BuildIDs, StartRetry(w, b) PROVE files \subseteq files'
  BY <1>3 DEF StartRetry
<1>4. ASSUME NEW w \in BuildRequests, NEW a \in Binaries, NEW state \in {"kept", "deleted"}, StartDesired(w, a, state) PROVE files \subseteq files'
  BY <1>4 DEF StartDesired
<1>5. ASSUME NEW w \in BuildRequests, SaveUpload(w) PROVE files \subseteq files'
  BY <1>5 DEF SaveUpload
<1>6. ASSUME NEW w \in BuildRequests, InsertBuild(w) PROVE files \subseteq files'
  BY <1>6 DEF InsertBuild
<1>7. ASSUME NEW w \in BuildRequests, ReadRowID(w) PROVE files \subseteq files'
  BY <1>7 DEF ReadRowID
<1>8. ASSUME NEW w \in BuildRequests, ReadBuild(w) PROVE files \subseteq files'
  BY <1>8 DEF ReadBuild
<1>9. ASSUME NEW w \in BuildRequests, MarkBuildRunning(w) PROVE files \subseteq files'
  BY <1>9 DEF MarkBuildRunning
<1>10. ASSUME NEW w \in BuildRequests, RereadBuild(w) PROVE files \subseteq files'
  BY <1>10 DEF RereadBuild
<1>11. ASSUME NEW w \in BuildRequests, BuildSucceeds(w) PROVE files \subseteq files'
  BY <1>11 DEF BuildSucceeds
<1>12. ASSUME NEW w \in BuildRequests, BuildFails(w) PROVE files \subseteq files'
  BY <1>12 DEF BuildFails
<1>13. ASSUME NEW w \in BuildRequests, SaveBinary(w) PROVE files \subseteq files'
  BY <1>13 DEF SaveBinary
<1>14. ASSUME NEW w \in BuildRequests, FinishBuild(w) PROVE files \subseteq files'
  BY <1>14 DEF FinishBuild
<1>15. ASSUME NEW w \in BuildRequests, UpsertDesired(w) PROVE files \subseteq files'
  BY <1>15 DEF UpsertDesired
<1>16. ASSUME NEW w \in BuildRequests, RequestFails(w) PROVE files \subseteq files'
  BY <1>16 DEF RequestFails
<1>17. ASSUME NEW w \in BuildRequests, BuildRefused(w) PROVE files \subseteq files'
  BY <1>17 DEF BuildRefused
<1>18. ASSUME NEW w \in BuildRequests, Disconnect(w) PROVE files \subseteq files'
  BY <1>18 DEF Disconnect
<1>19. ASSUME NEW b \in BuildIDs, CancelBuild(b) PROVE files \subseteq files'
  BY <1>19 DEF CancelBuild
<1>20. ASSUME NEW a \in Binaries, Reject(a) PROVE files \subseteq files'
  BY <1>20 DEF Reject
<1>21. ASSUME OtherInsert PROVE files \subseteq files'
  BY <1>21 DEF OtherInsert
<1>22. ASSUME Crash PROVE files \subseteq files'
  BY <1>22 DEF Crash
<1>23. ASSUME GCReadsRow PROVE files \subseteq files'
  BY <1>23 DEF GCReadsRow
<1>24. ASSUME GCReadsSnapshots PROVE files \subseteq files'
  BY <1>24 DEF GCReadsSnapshots
<1>25. ASSUME GCReadsInFlight PROVE files \subseteq files'
  BY <1>25 DEF GCReadsInFlight
<1>26. ASSUME GCReadsOutputs PROVE files \subseteq files'
  BY <1>26 DEF GCReadsOutputs
<1>27. ASSUME GCLists PROVE files \subseteq files'
  BY <1>27 DEF GCLists
<1>28. ASSUME GCMarksDeleted PROVE files \subseteq files'
  BY <1>28 DEF GCMarksDeleted
<1>29. ASSUME GCEnds PROVE files \subseteq files'
  BY <1>29 DEF GCEnds
<1>30. ASSUME GCDisconnect PROVE files \subseteq files'
  BY <1>30 DEF GCDisconnect
<1>31. ASSUME NEW a \in Artifacts, GCSkips(a) PROVE files \subseteq files'
  BY <1>31 DEF GCSkips
<1> QED
  BY <1>1, <1>2, <1>3, <1>4, <1>5, <1>6, <1>7, <1>8, <1>9, <1>10, <1>11, <1>12, <1>13, <1>14,
     <1>15, <1>16, <1>17, <1>18, <1>19, <1>20, <1>21, <1>22, <1>23, <1>24, <1>25, <1>26, <1>27, <1>28,
     <1>29, <1>30, <1>31
     DEF Next, RequestStarts, RequestStep, GCStep

\* The status of row b is left alone or follows an arrow of BuildMoves.
Moved(b) ==
    builds'[b].status # builds[b].status
        => <<builds[b].status, builds'[b].status>> \in BuildMoves

\* Every step moves every row along BuildMoves: MarkBuildRunning asks for a
\* queued row, and a RunBuild that writes succeeded has seen its row run.
LEMMA MovesStep ==
    ASSUME BuildInvariant, [Next]_vars, NEW b \in BuildIDs
    PROVE  Moved(b)
<1> USE DEF BuildInvariant, Moved
<1>0. /\ builds[b].status \in BuildStatuses
      /\ builds[b].status \in Finished \cup {"running"} =>
            \A v \in {"failed", "succeeded"} : <<builds[b].status, v>> \in BuildMoves
  BY DEF TypeOK, BuildRecord, BuildMoves, Finished
<1>1. ASSUME NEW w \in BuildRequests, InsertBuild(w) PROVE Moved(b)
  BY <1>1 DEF InsertBuild, TypeOK, Built, BuildMoves
<1>2. ASSUME NEW w \in BuildRequests, MarkBuildRunning(w) PROVE Moved(b)
  BY <1>2 DEF MarkBuildRunning, TypeOK, BuildRecord, BuildMoves
<1>3. ASSUME NEW w \in BuildRequests, FinishBuild(w) PROVE Moved(b)
  <2>1. /\ req[w].verdict \in {"failed", "succeeded"}
        /\ req[w].held \in {0, req[w].build} /\ req[w].build \in Built
        /\ req[w].verdict = "succeeded" => builds[req[w].build].status # "queued"
    BY <1>3 DEF FinishBuild, RequestsConsistent, RequestConsistent, InRun
  <2>2. CASE builds'[b] = builds[b]
    BY <2>2
  <2>3. CASE builds'[b] # builds[b]
    <3>1. b = req[w].held /\ builds'[b].status = req[w].verdict
      BY <1>3, <2>3 DEF FinishBuild, TypeOK, BuildRecord
    <3>2. b = req[w].build /\ builds[b].status # "none"
      BY <2>1, <3>1 DEF Built, BuildIDs
    <3>3. CASE builds[b].status = "queued"
      BY <2>1, <3>1, <3>2, <3>3 DEF BuildMoves
    <3>4. CASE builds[b].status # "queued"
      BY <1>0, <2>1, <3>1, <3>2, <3>4 DEF BuildStatuses, BuildsInFlight
    <3> QED
      BY <3>3, <3>4
  <2> QED
    BY <2>2, <2>3
<1>4. ASSUME NEW c \in BuildIDs, CancelBuild(c) PROVE Moved(b)
  BY <1>4 DEF CancelBuild, TypeOK, BuildRecord, BuildMoves, BuildsInFlight
<1>5. ASSUME NEW w \in BuildRequests, NEW a \in Artifacts, StartUpload(w, a) PROVE Moved(b)
  BY <1>5 DEF StartUpload
<1>6. ASSUME NEW w \in BuildRequests, NEW c \in BuildIDs, StartRun(w, c) PROVE Moved(b)
  BY <1>6 DEF StartRun
<1>7. ASSUME NEW w \in BuildRequests, NEW c \in BuildIDs, StartRetry(w, c) PROVE Moved(b)
  BY <1>7 DEF StartRetry
<1>8. ASSUME NEW w \in BuildRequests, NEW a \in Binaries, NEW state \in {"kept", "deleted"}, StartDesired(w, a, state) PROVE Moved(b)
  BY <1>8 DEF StartDesired
<1>9. ASSUME NEW w \in BuildRequests, SaveUpload(w) PROVE Moved(b)
  BY <1>9 DEF SaveUpload
<1>10. ASSUME NEW w \in BuildRequests, ReadRowID(w) PROVE Moved(b)
  BY <1>10 DEF ReadRowID
<1>11. ASSUME NEW w \in BuildRequests, ReadBuild(w) PROVE Moved(b)
  BY <1>11 DEF ReadBuild
<1>12. ASSUME NEW w \in BuildRequests, RereadBuild(w) PROVE Moved(b)
  BY <1>12 DEF RereadBuild
<1>13. ASSUME NEW w \in BuildRequests, BuildSucceeds(w) PROVE Moved(b)
  BY <1>13 DEF BuildSucceeds
<1>14. ASSUME NEW w \in BuildRequests, BuildFails(w) PROVE Moved(b)
  BY <1>14 DEF BuildFails
<1>15. ASSUME NEW w \in BuildRequests, SaveBinary(w) PROVE Moved(b)
  BY <1>15 DEF SaveBinary
<1>16. ASSUME NEW w \in BuildRequests, UpsertDesired(w) PROVE Moved(b)
  BY <1>16 DEF UpsertDesired
<1>17. ASSUME NEW w \in BuildRequests, RequestFails(w) PROVE Moved(b)
  BY <1>17 DEF RequestFails
<1>18. ASSUME NEW w \in BuildRequests, BuildRefused(w) PROVE Moved(b)
  BY <1>18 DEF BuildRefused
<1>19. ASSUME NEW w \in BuildRequests, Disconnect(w) PROVE Moved(b)
  BY <1>19 DEF Disconnect
<1>20. ASSUME NEW a \in Binaries, Reject(a) PROVE Moved(b)
  BY <1>20 DEF Reject
<1>21. ASSUME OtherInsert PROVE Moved(b)
  BY <1>21 DEF OtherInsert
<1>22. ASSUME Crash PROVE Moved(b)
  BY <1>22 DEF Crash
<1>23. ASSUME GCReadsRow PROVE Moved(b)
  BY <1>23 DEF GCReadsRow
<1>24. ASSUME GCReadsSnapshots PROVE Moved(b)
  BY <1>24 DEF GCReadsSnapshots
<1>25. ASSUME GCReadsInFlight PROVE Moved(b)
  BY <1>25 DEF GCReadsInFlight
<1>26. ASSUME GCReadsOutputs PROVE Moved(b)
  BY <1>26 DEF GCReadsOutputs
<1>27. ASSUME GCLists PROVE Moved(b)
  BY <1>27 DEF GCLists
<1>28. ASSUME GCMarksDeleted PROVE Moved(b)
  BY <1>28 DEF GCMarksDeleted
<1>29. ASSUME GCEnds PROVE Moved(b)
  BY <1>29 DEF GCEnds
<1>30. ASSUME GCDisconnect PROVE Moved(b)
  BY <1>30 DEF GCDisconnect
<1>31. ASSUME NEW a \in Artifacts, GCRemoves(a) PROVE Moved(b)
  BY <1>31 DEF GCRemoves
<1>32. ASSUME NEW a \in Artifacts, GCSkips(a) PROVE Moved(b)
  BY <1>32 DEF GCSkips
<1>33. CASE UNCHANGED vars
  BY <1>33 DEF vars, buildVars
<1> QED
  BY <1>1, <1>2, <1>3, <1>4, <1>5, <1>6, <1>7, <1>8, <1>9, <1>10, <1>11, <1>12, <1>13, <1>14,
     <1>15, <1>16, <1>17, <1>18, <1>19, <1>20, <1>21, <1>22, <1>23, <1>24, <1>25, <1>26, <1>27, <1>28,
     <1>29, <1>30, <1>31, <1>32, <1>33
     DEF Next, RequestStarts, RequestStep, GCStep

\* The tables are empty and nothing is in progress when the program starts for
\* the first time.
LEMMA InitInvariant == Init => BuildInvariant
<1> SUFFICES ASSUME Init PROVE BuildInvariant
  OBVIOUS
<1>1. Built = {}
  BY DEF Init, Built, NoBuild
<1>2. TypeOK
  BY IdleTyped DEF Init, TypeOK, ArtifactStatuses
<1>3. RowsConsistent
  BY <1>1 DEF RowsConsistent
<1>4. RequestsConsistent
  BY DEF Init, RequestsConsistent, RequestConsistent, IdleRequest, InRun
<1>5. SucceededNamesItsBinary
  BY DEF Init, SucceededNamesItsBinary, NoBuild
<1>6. ReferencesCollected
  BY DEF Init, ReferencesCollected, IdleGC
<1> QED
  BY <1>2, <1>3, <1>4, <1>5, <1>6 DEF BuildInvariant

\* Requests, cancellations, collections, disconnections and restarts, in any
\* number and order, keep every local copy of a row usable for what follows.
THEOREM BuildInvariantHolds == Spec => []BuildInvariant
<1>1. BuildInvariant /\ [Next]_vars => BuildInvariant'
  BY TypeStep, RowsStep, RequestsStep, SucceededStep, ReferencesStep DEF BuildInvariant
<1> QED
  BY <1>1, InitInvariant, PTL DEF Spec

\* plugin_builds never says succeeded without the row of the binary built from
\* the same source: RunBuild saves the artifact first and artifacts keep rows.
THEOREM SucceededBuildsNameTheirBinary == Spec => []SucceededNamesItsBinary
<1>1. BuildInvariant => SucceededNamesItsBinary
  BY DEF BuildInvariant
<1> QED
  BY <1>1, BuildInvariantHolds, PTL

\* The status of a build moves along BuildMoves only, whichever of several
\* RunBuilds, retries and cancellations of one build come late, and whoever
\* leaves or crashes in between.
THEOREM BuildsFollowTheirMoves == Spec => FollowsBuildMoves
<1>1. BuildInvariant /\ [Next]_vars => [\A b \in BuildIDs : Moved(b)]_vars
  BY MovesStep
<1> QED
  BY <1>1, BuildInvariantHolds, PTL DEF Spec, FollowsBuildMoves, Moved

\* RunGC removes no binary that was desired or in a snapshot when it began: the
\* plugins table is read before the snapshots, and an upsert saves the old row
\* as a snapshot in the same transaction.
THEOREM CollectorKeepsDesired == Spec => GCKeepsDesired
<1>1. BuildInvariant /\ [Next]_vars => [collector.before \cap files \subseteq files']_vars
  <2> SUFFICES ASSUME BuildInvariant, Next PROVE collector.before \cap files \subseteq files'
    OBVIOUS
  <2>1. ASSUME NEW a \in Artifacts, GCRemoves(a) PROVE collector.before \cap files \subseteq files'
    <3>1. a \notin collector.refs /\ collector.before \subseteq collector.refs
      BY <2>1 DEF GCRemoves, BuildInvariant, ReferencesCollected
    <3> QED
      BY <2>1, <3>1 DEF GCRemoves
  <2> QED
    BY <2>1, OnlyGCRemoves
<1> QED
  BY <1>1, BuildInvariantHolds, PTL DEF Spec, GCKeepsDesired

\* RunGC removes no source of a build that it could have seen and that is queued
\* or running when the directory goes: no status leads back to them.
THEOREM CollectorKeepsSources == Spec => GCKeepsSourcesInFlight
<1> DEFINE Kept == \A b \in collector.seen : builds[b].status \in BuildsInFlight
                     => ~(Source(builds[b].source) \in files /\ Source(builds[b].source) \notin files')
<1>1. BuildInvariant /\ [Next]_vars => [Kept]_vars
  <2> SUFFICES ASSUME BuildInvariant, Next PROVE Kept
    OBVIOUS
  <2>1. ASSUME NEW a \in Artifacts, GCRemoves(a) PROVE Kept
    <3>1. a \notin collector.refs
      BY <2>1 DEF GCRemoves, BuildInvariant, ReferencesCollected
    <3>2. \A b \in collector.seen : builds[b].status \in BuildsInFlight => Source(builds[b].source) \in collector.refs
      BY <2>1 DEF GCRemoves, BuildInvariant, ReferencesCollected
    <3> QED
      BY <2>1, <3>1, <3>2 DEF GCRemoves
  <2> QED
    BY <2>1, OnlyGCRemoves
<1> QED
  BY <1>1, BuildInvariantHolds, PTL DEF Spec, GCKeepsSourcesInFlight

-----------------------------------------------------------------------------
(* Who finishes a build that is running.                                      *)

\* A RunBuild lets go of its build in FinishBuild only, and that writes a final
\* status into the row.
LEMMA RunnerStep ==
    ASSUME BuildInvariant, RunningHasRunner, [Next]_vars
    PROVE  RunningHasRunner'
<1> SUFFICES ASSUME NEW b \in BuildIDs, builds'[b].status = "running", b \notin orphaned'
             PROVE  \E v \in BuildRequests : Runs(v, b)' /\ req'[v].ctx = "open"
  BY DEF RunningHasRunner
<1> DEFINE Held(v) == Runs(v, b) /\ req[v].ctx = "open"
           Goal == \E v \in BuildRequests : Held(v)'
<1> USE DEF BuildInvariant
<1>o. orphaned \subseteq orphaned'
  BY DEF Next, Disconnect, Crash, vars
<1>0. ASSUME builds[b].status = "running", \A v \in BuildRequests : Held(v) => Held(v)'
      PROVE Goal
  BY <1>0, <1>o DEF RunningHasRunner
<1>1. ASSUME NEW w \in BuildRequests, NEW a \in Artifacts, StartUpload(w, a) PROVE Goal
  <2>1. builds[b].status = "running"
    BY <1>1 DEF StartUpload
  <2>2. \A v \in BuildRequests : Held(v) => Held(v)'
    BY <1>1 DEF StartUpload, Runs, TypeOK, Request
  <2> QED
    BY <1>0, <2>1, <2>2
<1>2. ASSUME NEW w \in BuildRequests, NEW c \in BuildIDs, StartRun(w, c) PROVE Goal
  <2>1. builds[b].status = "running"
    BY <1>2 DEF StartRun
  <2>2. \A v \in BuildRequests : Held(v) => Held(v)'
    BY <1>2 DEF StartRun, Runs, TypeOK, Request
  <2> QED
    BY <1>0, <2>1, <2>2
<1>3. ASSUME NEW w \in BuildRequests, NEW c \in BuildIDs, StartRetry(w, c) PROVE Goal
  <2>1. builds[b].status = "running"
    BY <1>3 DEF StartRetry
  <2>2. \A v \in BuildRequests : Held(v) => Held(v)'
    BY <1>3 DEF StartRetry, Runs, TypeOK, Request
  <2> QED
    BY <1>0, <2>1, <2>2
<1>4. ASSUME NEW w \in BuildRequests, NEW a \in Binaries, NEW state \in {"kept", "deleted"}, StartDesired(w, a, state) PROVE Goal
  <2>1. builds[b].status = "running"
    BY <1>4 DEF StartDesired
  <2>2. \A v \in BuildRequests : Held(v) => Held(v)'
    BY <1>4 DEF StartDesired, Runs, TypeOK, Request
  <2> QED
    BY <1>0, <2>1, <2>2
<1>5. ASSUME NEW w \in BuildRequests, SaveUpload(w) PROVE Goal
  <2>1. builds[b].status = "running"
    BY <1>5 DEF SaveUpload
  <2>2. \A v \in BuildRequests : Held(v) => Held(v)'
    BY <1>5 DEF SaveUpload, Runs, TypeOK, Request
  <2> QED
    BY <1>0, <2>1, <2>2
<1>6. ASSUME NEW w \in BuildRequests, InsertBuild(w) PROVE Goal
  <2>1. builds[b].status = "running"
    BY <1>6 DEF InsertBuild, TypeOK, BuildRecord
  <2>2. \A v \in BuildRequests : Held(v) => Held(v)'
    BY <1>6 DEF InsertBuild, Runs, TypeOK, Request
  <2> QED
    BY <1>0, <2>1, <2>2
<1>7. ASSUME NEW w \in BuildRequests, ReadRowID(w) PROVE Goal
  <2>1. builds[b].status = "running"
    BY <1>7 DEF ReadRowID
  <2>2. \A v \in BuildRequests : Held(v) => Held(v)'
    BY <1>7 DEF ReadRowID, Runs, TypeOK, Request
  <2> QED
    BY <1>0, <2>1, <2>2
<1>8. ASSUME NEW w \in BuildRequests, ReadBuild(w) PROVE Goal
  <2>1. builds[b].status = "running"
    BY <1>8 DEF ReadBuild
  <2>2. \A v \in BuildRequests : Held(v) => Held(v)'
    BY <1>8 DEF ReadBuild, Runs, TypeOK, Request
  <2> QED
    BY <1>0, <2>1, <2>2
<1>9. ASSUME NEW w \in BuildRequests, MarkBuildRunning(w) PROVE Goal
  <2>1. CASE b = req[w].build
    BY <1>9, <2>1 DEF MarkBuildRunning, Runs, TypeOK, Request
  <2>2. CASE b # req[w].build
    <3>1. builds[b].status = "running"
      BY <1>9, <2>2 DEF MarkBuildRunning, TypeOK, BuildRecord
    <3>2. \A v \in BuildRequests : Held(v) => Held(v)'
      BY <1>9 DEF MarkBuildRunning, Runs, TypeOK, Request
    <3> QED
      BY <1>0, <3>1, <3>2
  <2> QED
    BY <2>1, <2>2
<1>10. ASSUME NEW w \in BuildRequests, RereadBuild(w) PROVE Goal
  <2>1. builds[b].status = "running"
    BY <1>10 DEF RereadBuild
  <2>2. \A v \in BuildRequests : Held(v) => Held(v)'
    BY <1>10 DEF RereadBuild, Runs, TypeOK, Request
  <2> QED
    BY <1>0, <2>1, <2>2
<1>11. ASSUME NEW w \in BuildRequests, BuildSucceeds(w) PROVE Goal
  <2>1. builds[b].status = "running"
    BY <1>11 DEF BuildSucceeds
  <2>2. \A v \in BuildRequests : Held(v) => Held(v)'
    BY <1>11 DEF BuildSucceeds, Runs, TypeOK, Request
  <2> QED
    BY <1>0, <2>1, <2>2
<1>12. ASSUME NEW w \in BuildRequests, BuildFails(w) PROVE Goal
  <2>1. builds[b].status = "running"
    BY <1>12 DEF BuildFails
  <2>2. \A v \in BuildRequests : Held(v) => Held(v)'
    BY <1>12 DEF BuildFails, Runs, TypeOK, Request
  <2> QED
    BY <1>0, <2>1, <2>2
<1>13. ASSUME NEW w \in BuildRequests, SaveBinary(w) PROVE Goal
  <2>1. builds[b].status = "running"
    BY <1>13 DEF SaveBinary
  <2>2. \A v \in BuildRequests : Held(v) => Held(v)'
    BY <1>13 DEF SaveBinary, Runs, TypeOK, Request
  <2> QED
    BY <1>0, <2>1, <2>2
<1>14. ASSUME NEW w \in BuildRequests, FinishBuild(w) PROVE Goal
  <2>1. req[w].verdict # "running"
    BY <1>14 DEF FinishBuild, RequestsConsistent, RequestConsistent, InRun
  <2>2. builds[b].status = "running" /\ (req[w].held # b \/ req[w].ctx # "open")
    BY <1>14, <2>1 DEF FinishBuild, TypeOK, BuildRecord
  <2>3. \A v \in BuildRequests : Held(v) => Held(v)'
    BY <1>14, <2>2 DEF FinishBuild, Runs, TypeOK, Request
  <2> QED
    BY <1>0, <2>2, <2>3
<1>15. ASSUME NEW w \in BuildRequests, UpsertDesired(w) PROVE Goal
  <2>1. builds[b].status = "running"
    BY <1>15 DEF UpsertDesired
  <2>2. \A v \in BuildRequests : Held(v) => Held(v)'
    BY <1>15 DEF UpsertDesired, Runs, TypeOK, Request
  <2> QED
    BY <1>0, <2>1, <2>2
<1>16. ASSUME NEW w \in BuildRequests, RequestFails(w) PROVE Goal
  <2>1. builds[b].status = "running"
    BY <1>16 DEF RequestFails
  <2>2. \A v \in BuildRequests : Held(v) => Held(v)'
    BY <1>16 DEF RequestFails, Runs, TypeOK, Request
  <2> QED
    BY <1>0, <2>1, <2>2
<1>17. ASSUME NEW w \in BuildRequests, BuildRefused(w) PROVE Goal
  <2>1. builds[b].status = "running"
    BY <1>17 DEF BuildRefused
  <2>2. \A v \in BuildRequests : Held(v) => Held(v)'
    BY <1>17 DEF BuildRefused, Runs, TypeOK, Request
  <2> QED
    BY <1>0, <2>1, <2>2
<1>18. ASSUME NEW w \in BuildRequests, Disconnect(w) PROVE Goal
  <2>1. builds[b].status = "running" /\ ~Runs(w, b)
    BY <1>18 DEF Disconnect
  <2>2. \A v \in BuildRequests : Held(v) => Held(v)'
    BY <1>18, <2>1 DEF Disconnect, Runs, TypeOK, Request
  <2> QED
    BY <1>0, <2>1, <2>2
<1>19. ASSUME NEW c \in BuildIDs, CancelBuild(c) PROVE Goal
  BY <1>19, <1>0 DEF CancelBuild, Runs, TypeOK, BuildRecord
<1>20. ASSUME NEW a \in Binaries, Reject(a) PROVE Goal
  BY <1>20, <1>0 DEF Reject, Runs
<1>21. ASSUME OtherInsert PROVE Goal
  BY <1>21, <1>0 DEF OtherInsert, Runs
<1>22. ASSUME Crash PROVE Goal
  BY <1>22, <1>o DEF Crash, RunningHasRunner
<1>23. ASSUME GCReadsRow PROVE Goal
  BY <1>23, <1>0 DEF GCReadsRow, Runs
<1>24. ASSUME GCReadsSnapshots PROVE Goal
  BY <1>24, <1>0 DEF GCReadsSnapshots, Runs
<1>25. ASSUME GCReadsInFlight PROVE Goal
  BY <1>25, <1>0 DEF GCReadsInFlight, Runs
<1>26. ASSUME GCReadsOutputs PROVE Goal
  BY <1>26, <1>0 DEF GCReadsOutputs, Runs
<1>27. ASSUME GCLists PROVE Goal
  BY <1>27, <1>0 DEF GCLists, Runs
<1>28. ASSUME GCMarksDeleted PROVE Goal
  BY <1>28, <1>0 DEF GCMarksDeleted, Runs
<1>29. ASSUME GCEnds PROVE Goal
  BY <1>29, <1>0 DEF GCEnds, Runs
<1>30. ASSUME GCDisconnect PROVE Goal
  BY <1>30, <1>0 DEF GCDisconnect, Runs
<1>31. ASSUME NEW a \in Artifacts, GCRemoves(a) PROVE Goal
  BY <1>31, <1>0 DEF GCRemoves, Runs
<1>32. ASSUME NEW a \in Artifacts, GCSkips(a) PROVE Goal
  BY <1>32, <1>0 DEF GCSkips, Runs
<1>33. CASE UNCHANGED vars
  BY <1>33, <1>0 DEF vars, buildVars, Runs
<1> QED
  BY <1>1, <1>2, <1>3, <1>4, <1>5, <1>6, <1>7, <1>8, <1>9, <1>10, <1>11, <1>12, <1>13, <1>14,
     <1>15, <1>16, <1>17, <1>18, <1>19, <1>20, <1>21, <1>22, <1>23, <1>24, <1>25, <1>26, <1>27, <1>28,
     <1>29, <1>30, <1>31, <1>32, <1>33
     DEF Next, RequestStarts, RequestStep, GCStep

\* A build that reads running is held by a RunBuild whose statements succeed,
\* however many run it and whoever cancels it, from the UPDATE that says running
\* to the one that says how it ended; only a RunBuild that loses its client, or
\* the process, at work leaves a row that no request will finish.
THEOREM RunningBuildsHaveRunners == Spec => []RunningHasRunner
<1>1. Init => RunningHasRunner
  BY DEF Init, RunningHasRunner, NoBuild
<1>2. BuildInvariant /\ RunningHasRunner /\ [Next]_vars => RunningHasRunner'
  BY RunnerStep
<1> QED
  BY <1>1, <1>2, BuildInvariantHolds, PTL DEF Spec
=============================================================================
