----------------------------- MODULE ArtifactStore -----------------------------
(* Uploaded packages and built binaries: files under a directory named for   *)
(* the digest of the runtime entry (of the package, for sources), then the   *)
(* row of plugin_artifacts (artifact.go; Manager.UploadArtifact).  Nothing   *)
(* is locked: uploads of packages with the same entry share their directory. *)
(* Collection is in SourceBuild.                                             *)

CONSTANTS
    Entries,     \* artifact ids: digests of runtime entries, of sources
    Packages,    \* digests of packages
    EntryOf,     \* the artifact a package becomes
    PackageKind,      \* "binary", "source", or "built" for what a build hands over
    FaultOf,     \* the first check that a package fails, "none" when it is sound
    Uploads,     \* concurrent uploads and builds
    NoPackage

ASSUME ArtifactAssumption ==
    /\ EntryOf \in [Packages -> Entries]
    /\ PackageKind \in [Packages -> {"binary", "source", "built"}]
    /\ FaultOf \in [Packages -> {"none", "manifest", "conformance", "content", "late"}]
    /\ NoPackage \notin Packages
    /\ \A p, q \in Packages : PackageKind[p] = "source" /\ EntryOf[p] = EntryOf[q] => p = q

VARIABLES
    entryFile,    \* "none", "torn" between truncation and write, or "whole"
    package,      \* the distribution package of an artifact, and its .tmp
    artifactRow,  \* package_sha256 of the artifact's row; NoPackage without a row
    upload,       \* the uploads: package, stage, file being written
    brokenOff     \* history: artifacts whose entry's last write failed

artifactVars == <<entryFile, package, artifactRow, upload, brokenOff>>

(* What is written, in the code's order.  WriteFile truncates the entry and  *)
(* fills it with one write of bytes that the artifact's id determines.  The  *)
(* package is created, or truncated, and then written piece by piece, each   *)
(* writer at its own offset: an upload copies onto the package itself, a     *)
(* build writes the .tmp beside it and renames that.                         *)
FirstStage == [binary |-> "entry", built |-> "entry", source |-> "create"]
StageAfter ==
    [binary |-> [entry |-> "fill", fill |-> "create", create |-> "head", head |-> "tail",
                 tail |-> "late", late |-> "row"],
     built  |-> [entry |-> "fill", fill |-> "create", create |-> "head", head |-> "tail",
                 tail |-> "rename", rename |-> "row"],
     source |-> [create |-> "head", head |-> "tail", tail |-> "entry", entry |-> "fill",
                 fill |-> "late", late |-> "row"]]

(* A file of two pieces, each from the package last written there.  spoiled  *)
(* is history: two uploads had it open at once, or one gave up writing it.   *)
NoFile == [head |-> NoPackage, tail |-> NoPackage, is |-> "absent"]
Places == {"target", "tmp"}

NoUpload == [pkg |-> NoPackage, at |-> "idle", to |-> "none"]
Of(u) == EntryOf[upload[u].pkg]
Following(u) == StageAfter[PackageKind[upload[u].pkg]][upload[u].at]
NextStage(u) == upload' = [upload EXCEPT ![u].at = Following(u)]
PlaceOf(p) == IF PackageKind[p] = "built" THEN "tmp" ELSE "target"

(* An open file keeps its writers when it is renamed or removed.             *)
Writes(u, a, place) == upload[u].at \in {"head", "tail"} /\ Of(u) = a /\ upload[u].to = place

ArtifactInit ==
    /\ entryFile = [a \in Entries |-> "none"]
    /\ package = [a \in Entries |-> [place \in Places |-> NoFile]]
    /\ artifactRow = [a \in Entries |-> NoPackage]
    /\ upload = [u \in Uploads |-> NoUpload] /\ brokenOff = {}

-----------------------------------------------------------------------------
(* The checks that precede every write: the manifest, the conformance report *)
(* and the runtime entry or the sources.  A package that fails one has       *)
(* changed nothing.                                                          *)
ManifestPasses(p) == FaultOf[p] # "manifest"
ConformancePasses(p) == FaultOf[p] # "conformance"
ContentPasses(p) == FaultOf[p] # "content"

BeginUpload(u, p) ==
    /\ upload[u].at = "idle"
    /\ ManifestPasses(p) /\ ConformancePasses(p) /\ ContentPasses(p)
    /\ upload' = [upload EXCEPT ![u] = 
           [pkg |-> p, at |-> FirstStage[PackageKind[p]], to |-> "none"]]
    /\ UNCHANGED <<entryFile, package, artifactRow, brokenOff>>

TruncateEntry(u) ==
    /\ upload[u].at = "entry" /\ NextStage(u)
    /\ entryFile' = [entryFile EXCEPT ![Of(u)] = "torn"]
    /\ UNCHANGED <<package, artifactRow, brokenOff>>

FillEntry(u) ==
    /\ upload[u].at = "fill" /\ NextStage(u)
    /\ entryFile' = [entryFile EXCEPT ![Of(u)] = "whole"]
    /\ brokenOff' = brokenOff \ {Of(u)}
    /\ UNCHANGED <<package, artifactRow>>

(* os.Create: the file of that name is emptied under whoever is writing it.  *)
CreatePackage(u) ==
    LET place == PlaceOf(upload[u].pkg) IN
    /\ upload[u].at = "create"
    /\ upload' = [upload EXCEPT ![u] = [@ EXCEPT !.at = Following(u), !.to = place]]
    /\ package' = [package EXCEPT ![Of(u)][place] =
           [NoFile EXCEPT !.is = IF \E v \in Uploads : Writes(v, Of(u), place) THEN "spoiled" ELSE "sound"]]
    /\ UNCHANGED <<entryFile, artifactRow, brokenOff>>

(* A piece goes to the open file, wherever its name has gone; the last one   *)
(* closes it.                                                                *)
WritePackage(u) ==
    LET to == IF upload[u].at = "tail" THEN "none" ELSE upload[u].to IN
    /\ upload[u].at \in {"head", "tail"}
    /\ upload' = [upload EXCEPT ![u] = [@ EXCEPT !.at = Following(u), !.to = to]]
    /\ package' = [package EXCEPT ![Of(u)] = [place \in Places |->
           IF Writes(u, Of(u), place) THEN [package[Of(u)][place] EXCEPT ![upload[u].at] = upload[u].pkg]
           ELSE package[Of(u)][place]]]
    /\ UNCHANGED <<entryFile, artifactRow, brokenOff>>

(* os.Rename: the .tmp, whoever wrote it, becomes the package.  It fails     *)
(* when another build has renamed or removed it.                             *)
RenamePackage(u) ==
    /\ upload[u].at = "rename" /\ package[Of(u)]["tmp"].is # "absent"
    /\ package' = [package EXCEPT ![Of(u)] =
           [place \in Places |-> IF place = "target" THEN @["tmp"] ELSE NoFile]]
    /\ upload' = [v \in Uploads |->
           CASE v = u -> [upload[u] EXCEPT !.at = Following(u)]
             [] v # u /\ Writes(v, Of(u), "tmp") -> [upload[v] EXCEPT !.to = "target"]
             [] v # u /\ Writes(v, Of(u), "target") -> [upload[v] EXCEPT !.to = "gone"]
             [] OTHER -> upload[v]]
    /\ UNCHANGED <<entryFile, artifactRow, brokenOff>>

(* Provenance and SBOM are read after the files are in place.                *)
LatePasses(p) == FaultOf[p] # "late"

LateChecks(u) ==
    /\ upload[u].at = "late"
    /\ IF LatePasses(upload[u].pkg) THEN NextStage(u) ELSE upload' = [upload EXCEPT ![u] = NoUpload]
    /\ UNCHANGED <<entryFile, package, artifactRow, brokenOff>>

(* SaveArtifact: insert, or update everything but the identity.              *)
SaveArtifactRow(u) ==
    /\ upload[u].at = "row"
    /\ artifactRow' = [artifactRow EXCEPT ![Of(u)] = upload[u].pkg]
    /\ upload' = [upload EXCEPT ![u] = NoUpload]
    /\ UNCHANGED <<entryFile, package, brokenOff>>

(* Mutant: the error of a write is dropped.                                  *)
RowAnyway(u) == [upload[u] EXCEPT !.at = "row", !.to = "none"]

(* A step fails: what is written stays, the error ends the upload.           *)
AfterFailure(u) == NoUpload

UploadFails(u) ==
    /\ upload[u].at \in {"entry", "fill", "create", "rename", "row"}
    /\ upload' = [upload EXCEPT ![u] = AfterFailure(u)]
    /\ brokenOff' = brokenOff \cup {a \in {Of(u)} : upload[u].at = "fill"}
    /\ UNCHANGED <<entryFile, package, artifactRow>>

(* A write of a piece fails; a build then removes the .tmp of that name,     *)
(* which another build may be writing.                                       *)
PieceFails(u) ==
    LET removes == PlaceOf(upload[u].pkg) = "tmp" IN
    /\ upload[u].at \in {"head", "tail"}
    /\ package' = [package EXCEPT ![Of(u)] = [place \in Places |->
           IF removes /\ place = "tmp" THEN NoFile
           ELSE [package[Of(u)][place] EXCEPT !.is = IF Writes(u, Of(u), place) THEN "spoiled" ELSE @]]]
    /\ upload' = [v \in Uploads |->
           CASE v = u -> AfterFailure(u)
             [] v # u /\ removes /\ Writes(v, Of(u), "tmp") -> [upload[v] EXCEPT !.to = "gone"]
             [] OTHER -> upload[v]]
    /\ UNCHANGED <<entryFile, artifactRow, brokenOff>>

ArtifactNext ==
    \E u \in Uploads :
        \/ \E p \in Packages : BeginUpload(u, p)
        \/ TruncateEntry(u) \/ FillEntry(u) \/ CreatePackage(u) \/ WritePackage(u) \/ RenamePackage(u)
        \/ LateChecks(u) \/ SaveArtifactRow(u) \/ UploadFails(u) \/ PieceFails(u)

ArtifactSpec == ArtifactInit /\ [][ArtifactNext]_artifactVars

-----------------------------------------------------------------------------
(* An artifact with a row can be loaded and handed on: its entry and its     *)
(* package are on disk in full, and every piece of the package comes from    *)
(* one upload.  The entry may be missing only while an upload of the same    *)
(* artifact rewrites it or after one broke off.  The package may be torn     *)
(* while it is written, or for good once it is spoiled: two writers had it   *)
(* open at the same time (copyFile copies in place, and builds share one     *)
(* .tmp) or one gave up half way.  The row is the last thing that any upload *)
(* writes, and no rename or removal by another upload puts an unfinished     *)
(* file in the package's place unnoticed.                                    *)
RowHasItsEntry ==
    \A a \in Entries : artifactRow[a] # NoPackage =>
        /\ entryFile[a] = "whole" \/ a \in brokenOff \/ \E u \in Uploads : upload[u].at = "fill" /\ Of(u) = a
        /\ LET file == package[a]["target"]
           IN  \/ file.is = "spoiled" \/ \E u \in Uploads : Writes(u, a, "target")
               \/ file.head # NoPackage /\ file.head = file.tail

=============================================================================
