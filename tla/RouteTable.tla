----------------------------- MODULE RouteTable -----------------------------
(* The routes: the table, the snapshot connections read, and the lock that   *)
(* keeps the order of the two.                                               *)
EXTENDS Naturals, FiniteSets

CONSTANTS
    Writers,     \* concurrent PUT and DELETE requests
    RouteHosts,
    Upstreams,
    NoRoute, NoWriter

ASSUME RouteAssumption == NoRoute \notin Upstreams /\ NoWriter \notin Writers

VARIABLES
    routes,     \* table routes: upstream and the enabled flag
    snapshot,   \* routeSnapshot
    routeLock,  \* routeWriteLock: its holder
    writer,     \* the requests, with the rows EnabledMap returned
    behind      \* a refresh failed after its write: for the properties

routeVars == <<routes, snapshot, routeLock, writer, behind>>

NoRouteRow == [to |-> NoRoute, enabled |-> FALSE]
RouteRows == [to : Upstreams, enabled : BOOLEAN] \cup {NoRouteRow}

-----------------------------------------------------------------------------
EnabledMap(table) == [h \in RouteHosts |-> IF table[h].enabled THEN table[h].to ELSE NoRoute]

RouteInit ==
    /\ routes \in [RouteHosts -> RouteRows]
    /\ snapshot = EnabledMap(routes)
    /\ routeLock = NoWriter
    /\ writer = [w \in Writers |-> [at |-> "idle", read |-> snapshot]]
    /\ behind = FALSE

Lock(w) ==
    /\ writer[w].at = "idle" /\ routeLock = NoWriter
    /\ routeLock' = w
    /\ writer' = [writer EXCEPT ![w].at = "write"]
    /\ UNCHANGED <<routes, snapshot, behind>>

(* Mutant: the lock is released with the commit.                             *)
WriteThenUnlock(w, h, row) ==
    /\ writer[w].at = "write"
    /\ routes' = [routes EXCEPT ![h] = row]
    /\ writer' = [writer EXCEPT ![w].at = "refresh"]
    /\ routeLock' = NoWriter
    /\ UNCHANGED <<snapshot, behind>>

(* Upsert or Delete commits (a deleted route is the empty row).              *)
UpsertRoute(w, h, row) ==
    /\ writer[w].at = "write"
    /\ routes' = [routes EXCEPT ![h] = row]
    /\ writer' = [writer EXCEPT ![w].at = "refresh"]
    /\ UNCHANGED <<snapshot, routeLock, behind>>

(* The host or the upstream is rejected, or the transaction fails.           *)
WriteFails(w) ==
    /\ writer[w].at = "write"
    /\ writer' = [writer EXCEPT ![w].at = "idle"]
    /\ routeLock' = NoWriter
    /\ UNCHANGED <<routes, snapshot, behind>>

RefreshReads(w) ==
    /\ writer[w].at = "refresh"
    /\ writer' = [writer EXCEPT ![w] = [at |-> "publish", read |-> EnabledMap(routes)]]
    /\ UNCHANGED <<routes, snapshot, routeLock, behind>>

(* The request's context ends after the commit.                              *)
RefreshFails(w) ==
    /\ writer[w].at = "refresh"
    /\ writer' = [writer EXCEPT ![w].at = "idle"]
    /\ routeLock' = NoWriter
    /\ behind' = TRUE
    /\ UNCHANGED <<routes, snapshot>>

PublishRoutes(w) ==
    /\ writer[w].at = "publish"
    /\ snapshot' = writer[w].read
    /\ writer' = [writer EXCEPT ![w].at = "idle"]
    /\ routeLock' = NoWriter
    /\ behind' = FALSE
    /\ UNCHANGED routes

RouteNext ==
    \E w \in Writers :
      \/ Lock(w) \/ WriteFails(w) \/ RefreshReads(w) \/ RefreshFails(w) \/ PublishRoutes(w)
      \/ \E h \in RouteHosts, row \in RouteRows : UpsertRoute(w, h, row)

RouteSpec == RouteInit /\ [][RouteNext]_routeVars

-----------------------------------------------------------------------------
(* Types of the table, of the snapshot and of the requests.                  *)
RouteTypeOK ==
    /\ routes \in [RouteHosts -> RouteRows]
    /\ snapshot \in [RouteHosts -> Upstreams \cup {NoRoute}]
    /\ routeLock \in Writers \cup {NoWriter}
    /\ writer \in [Writers -> [at : {"idle", "write", "refresh", "publish"},
                               read : [RouteHosts -> Upstreams \cup {NoRoute}]]]
    /\ behind \in BOOLEAN

(* No request is between its commit and its refresh.                         *)
NoRefreshInFlight == \A w \in Writers : writer[w].at \in {"idle", "write"}

(* Two overlapping changes never leave connections with the older routes:    *)
(* between changes the snapshot is the table, unless the last change said    *)
(* that its refresh failed.                                                  *)
SnapshotFollowsTable == NoRefreshInFlight /\ ~behind => snapshot = EnabledMap(routes)

=============================================================================
