----------------------------- MODULE PluginStore -----------------------------
(***************************************************************************)
(* What a plugin keeps through its operations handle: plugin_data records, *)
(* files with their plugin_files rows, diagnostic packages with theirs     *)
(* (internal/pluginmanager/operations.go, repository.go), and RunGC, which *)
(* lists first and deletes afterwards.  No lock covers a row together with *)
(* its file, so every statement and every file operation is a step.        *)
(***************************************************************************)
EXTENDS Integers, FiniteSets

CONSTANTS
    Items,      \* data keys, file names, diagnostic packages
    KindOf,     \* "data", "file" or "diagnostic"
    Callers,    \* goroutines of the plugin and of the administrator
    Sizes,      \* sizes of the values
    Quota,      \* dataQuota and fileQuota
    MaxClock,   \* bound of the clock
    MaxOps,     \* bound of the operations
    NoRow

ASSUME PluginStoreAssumption ==
    /\ KindOf \in [Items -> {"data", "file", "diagnostic"}]
    /\ Sizes \subseteq Nat /\ Quota \in Nat
    /\ NoRow \notin Items /\ NoRow \notin [size : Nat, exp : Nat]

VARIABLES
    clock,
    row,        \* the row of each item: its size and expires_at
    disk,       \* files that exist
    caller,     \* the operation of each caller
    gc,         \* the collector's pass
    crowded,    \* ghost: two writes overlapped, or a usage query failed
    ops

storeVars == <<clock, row, disk, caller, gc, crowded, ops>>

NoCall == [op |-> "none", item |-> NoRow]
NoPass == [pc |-> "idle", todo |-> {}, seen |-> {}]

HasFile(x) == KindOf[x] # "data"
Rows(kind) == {x \in Items : KindOf[x] = kind /\ row[x] # NoRow}

\* PluginDataUsage, PluginFileUsage: the bytes that the rows account for.
Bytes(kind) == UNION {{x} \X (1..row[x].size) : x \in Rows(kind)}
Usage(kind) == Cardinality(Bytes(kind))

SizeOf(x) == IF row[x] = NoRow THEN 0 ELSE row[x].size

StoreInit ==
    /\ clock = 1 /\ row = [x \in Items |-> NoRow] /\ disk = {}
    /\ caller = [c \in Callers |-> NoCall]
    /\ gc = NoPass /\ crowded = FALSE /\ ops = 0

-----------------------------------------------------------------------------
(* Put, Write and DiagnosticPackage.                                       *)

InFlight(x) == {c \in Callers : caller[c].item = x}
WritesOf(kind) == {c \in Callers : caller[c].op = "write" /\ KindOf[caller[c].item] = kind}

\* retentionDeadline; a diagnostic package always has one.
Deadlines(x) == IF KindOf[x] = "diagnostic" THEN {clock + 1} ELSE {0, clock + 1}

\* The usage is read first; an error of the query counts as no usage.
ReadUsage(c, x, size, exp) ==
    /\ caller[c] = NoCall /\ ops < MaxOps /\ ops' = ops + 1
    /\ KindOf[x] = "diagnostic" => row[x] = NoRow /\ InFlight(x) = {}
    /\ exp \in Deadlines(x)
    /\ \E usage \in {Usage(KindOf[x]), 0} :
        /\ caller' = [caller EXCEPT ![c] =
                [op |-> "write", item |-> x, pc |-> "check", size |-> size, exp |-> exp,
                 usage |-> usage]]
        /\ crowded' = \/ crowded \/ usage # Usage(KindOf[x])
                      \/ WritesOf(KindOf[x]) # {}
    /\ UNCHANGED <<clock, row, disk, gc>>

CurrentUsage(usage, old, size) == usage

\* Only the growth of an existing item counts.
NextUsage(usage, old, size) == usage + size - old

\* The size of the old value is a second query.  Diagnostics have no quota.
CheckQuota(c) ==
    LET w == caller[c] x == w.item
        fits == KindOf[x] = "diagnostic" \/ NextUsage(w.usage, SizeOf(x), w.size) <= Quota
    IN
    /\ w.op = "write" /\ w.pc = "check"
    /\ caller' = [caller EXCEPT ![c] =
            IF ~fits THEN NoCall
            ELSE [@ EXCEPT !.pc = IF HasFile(x) THEN "disk" ELSE "row"]]
    /\ UNCHANGED <<clock, row, disk, gc, crowded, ops>>

\* os.WriteFile: on an error the row is never written.
WriteFile(c) ==
    LET w == caller[c] IN
    /\ w.op = "write" /\ w.pc = "disk"
    /\ \/ /\ disk' = disk \cup {w.item}
          /\ caller' = [caller EXCEPT ![c].pc = "row"]
       \/ /\ caller' = [caller EXCEPT ![c] = NoCall]
          /\ disk' \in {disk, disk \cup {w.item}}
    /\ UNCHANGED <<clock, row, gc, crowded, ops>>

\* PutPluginData, UpsertPluginFile, SaveDiagnostic.
WriteRow(c) ==
    LET w == caller[c] x == w.item IN
    /\ w.op = "write" /\ w.pc = "row"
    /\ \/ row' = [row EXCEPT ![x] = [size |-> w.size, exp |-> w.exp]]
       \/ UNCHANGED row
    /\ caller' = [caller EXCEPT ![c] = NoCall]
    /\ UNCHANGED <<clock, disk, gc, crowded, ops>>

\* Delete: the file, then the row.
DeleteStored(c, x) ==
    /\ caller[c] = NoCall /\ ops < MaxOps /\ ops' = ops + 1
    /\ KindOf[x] # "diagnostic"
    /\ disk' = disk \ {x}
    /\ caller' = [caller EXCEPT ![c] = [op |-> "delete", item |-> x]]
    /\ UNCHANGED <<clock, row, gc, crowded>>

DeleteRow(c) ==
    /\ caller[c].op = "delete"
    /\ row' = [row EXCEPT ![caller[c].item] = NoRow]
    /\ caller' = [caller EXCEPT ![c] = NoCall]
    /\ UNCHANGED <<clock, disk, gc, crowded, ops>>

-----------------------------------------------------------------------------
(* RunGC.                                                                  *)

expired(x) == row[x].exp > 0 /\ row[x].exp <= clock

Listed(kind) == {[item |-> x, how |-> "row"] : x \in {y \in Rows(kind) : expired(y)}}

GCListsData ==
    /\ gc.pc = "idle" /\ ops < MaxOps /\ ops' = ops + 1
    /\ gc' = [pc |-> "files", todo |-> Listed("data"), seen |-> {}]
    /\ UNCHANGED <<clock, row, disk, caller, crowded>>

GCListsFiles ==
    /\ gc.pc = "files"
    /\ gc' = [pc |-> "diagnostics", todo |-> gc.todo \cup Listed("file"), seen |-> Rows("file")]
    /\ UNCHANGED <<clock, row, disk, caller, crowded, ops>>

\* A diagnostic whose file is missing goes as well.
GCListsDiagnostics ==
    /\ gc.pc = "diagnostics"
    /\ gc' = [pc |-> "walk",
              todo |-> gc.todo \cup Listed("diagnostic") \cup
                       {[item |-> x, how |-> "row"] : x \in Rows("diagnostic") \ disk},
              seen |-> gc.seen \cup Rows("diagnostic")]
    /\ UNCHANGED <<clock, row, disk, caller, crowded, ops>>

\* Files that no listed row names are orphans.  A dry run ends here.
GCWalks ==
    /\ gc.pc = "walk"
    /\ \/ gc' = [gc EXCEPT !.pc = "remove", !.todo = @ \cup
                    {[item |-> x, how |-> "file"] : x \in disk \ gc.seen}]
       \/ gc' = NoPass
    /\ UNCHANGED <<clock, row, disk, caller, crowded, ops>>

\* Row by row, and the file before its row, whatever happened since.
GCRemovesFile(job) ==
    /\ gc.pc = "remove" /\ job \in gc.todo
    /\ disk' = disk \ {job.item}
    /\ gc' = [gc EXCEPT !.todo =
                (@ \ {job}) \cup (IF job.how = "row" THEN {[job EXCEPT !.how = "last"]} ELSE {})]
    /\ job.how # "last"
    /\ UNCHANGED <<clock, row, caller, crowded, ops>>

GCRemovesRow(job) ==
    /\ gc.pc = "remove" /\ job \in gc.todo /\ job.how = "last"
    /\ row' = [row EXCEPT ![job.item] = NoRow]
    /\ gc' = [gc EXCEPT !.todo = @ \ {job}]
    /\ UNCHANGED <<clock, disk, caller, crowded, ops>>

GCDone ==
    /\ gc.pc = "remove" /\ gc.todo = {}
    /\ gc' = NoPass
    /\ UNCHANGED <<clock, row, disk, caller, crowded, ops>>

StoreTick ==
    /\ clock < MaxClock
    /\ clock' = clock + 1
    /\ UNCHANGED <<row, disk, caller, gc, crowded, ops>>

StoreNext ==
    \/ \E c \in Callers :
        \/ \E x \in Items, size \in Sizes : \E exp \in Deadlines(x) : ReadUsage(c, x, size, exp)
        \/ CheckQuota(c) \/ WriteFile(c) \/ WriteRow(c) \/ DeleteRow(c)
        \/ \E x \in Items : DeleteStored(c, x)
    \/ GCListsData \/ GCListsFiles \/ GCListsDiagnostics \/ GCWalks \/ GCDone
    \/ \E job \in gc.todo : GCRemovesFile(job) \/ GCRemovesRow(job)
    \/ StoreTick

StoreSpec == StoreInit /\ [][StoreNext]_storeVars

-----------------------------------------------------------------------------
\* The quota holds unless two writes overlapped or a usage query failed (Put,
\* Write read the usage, then the old size, then write).
QuotaHeldAlone ==
    ~crowded => Usage("data") <= Quota /\ Usage("file") <= Quota
=============================================================================
