------------------------------ MODULE EdgeProofs ------------------------------
(* Proofs about the parts that meet the world outside: routes, accounts,     *)
(* streams, plugin listeners, the shared port, the path of a connection, the *)
(* delivery of events and the storage of plugins.                            *)
(* Each part has an inductive invariant, and the property follows from it.   *)
EXTENDS RouteTable, AdminAccounts, SessionStreams, IngressListeners, SharedPort,
        ConnectionPath, EventDelivery, PluginStore, FiniteSetTheorems, WellFoundedInduction, TLAPS

-----------------------------------------------------------------------------
(* Routes: a request that is past its lock holds it, and what it read to     *)
(* publish is still the table.                                               *)
RouteInvariant ==
    /\ RouteTypeOK
    /\ \A w \in Writers : writer[w].at # "idle" => routeLock = w
    /\ \A w \in Writers : writer[w].at = "publish" => writer[w].read = EnabledMap(routes)
    /\ SnapshotFollowsTable

(* EnabledMap gives every host an upstream or none.                          *)
LEMMA EnabledMapType ==
    ASSUME NEW table \in [RouteHosts -> RouteRows]
    PROVE  EnabledMap(table) \in [RouteHosts -> Upstreams \cup {NoRoute}]
<1>1. \A rec \in RouteRows : rec.to \in Upstreams \cup {NoRoute}
  BY DEF RouteRows, NoRouteRow
<1>. QED  BY <1>1 DEF EnabledMap

(* The invariant of the routes holds at the start.                           *)
LEMMA RouteInitially == RouteInit => RouteInvariant
<1>. SUFFICES ASSUME RouteInit PROVE RouteInvariant
  OBVIOUS
<1>1. EnabledMap(routes) \in [RouteHosts -> Upstreams \cup {NoRoute}]
  BY EnabledMapType DEF RouteInit
<1>. QED  BY <1>1 DEF RouteInit, RouteInvariant, RouteTypeOK, SnapshotFollowsTable

(* A step of a request keeps it.                                             *)
LEMMA RouteStep ==
    ASSUME RouteInvariant, [RouteNext]_routeVars
    PROVE  RouteInvariant'
<1>. USE RouteAssumption DEF RouteInvariant, RouteTypeOK, SnapshotFollowsTable, NoRefreshInFlight
<1>1. CASE UNCHANGED routeVars
  BY <1>1 DEF routeVars, EnabledMap
<1>2. ASSUME NEW w \in Writers, Lock(w) PROVE RouteInvariant'
  BY <1>2 DEF Lock, EnabledMap
<1>3. ASSUME NEW w \in Writers, WriteFails(w) PROVE RouteInvariant'
  BY <1>3 DEF WriteFails, EnabledMap
<1>4. ASSUME NEW w \in Writers, RefreshReads(w) PROVE RouteInvariant'
  BY <1>4, EnabledMapType DEF RefreshReads
<1>5. ASSUME NEW w \in Writers, RefreshFails(w) PROVE RouteInvariant'
  BY <1>5 DEF RefreshFails, EnabledMap
<1>6. ASSUME NEW w \in Writers, PublishRoutes(w) PROVE RouteInvariant'
  <2>1. EnabledMap(routes)' = EnabledMap(routes)
    BY <1>6 DEF PublishRoutes, EnabledMap
  <2>. QED  BY <1>6, <2>1 DEF PublishRoutes
<1>7. ASSUME NEW w \in Writers, NEW h \in RouteHosts, NEW rec \in RouteRows, UpsertRoute(w, h, rec)
      PROVE  RouteInvariant'
  BY <1>7 DEF UpsertRoute
<1>. QED  BY <1>1, <1>2, <1>3, <1>4, <1>5, <1>6, <1>7 DEF RouteNext

(* For every number of requests and hosts: overlapping route changes never   *)
(* leave the connections with older routes than the table's                  *)
(* (adminroute, routeWriteLock).                                             *)
THEOREM RoutesFollowTable == RouteSpec => []SnapshotFollowsTable
<1>1. RouteInvariant => SnapshotFollowsTable
  BY DEF RouteInvariant
<1>. QED  BY <1>1, RouteInitially, RouteStep, PTL DEF RouteSpec

-----------------------------------------------------------------------------
(* Streams: the flag is up as soon as a closing is past its start, and a     *)
(* stream that joined and is open is on the list that is being closed or     *)
(* about to be closed by the continuation that brought it.                   *)
StreamInvariant ==
    /\ StreamTypeOK
    /\ \A k \in Closers : closer[k].at # "idle" => forced
    /\ \A k \in Closers : closer[k].at = "done" => closer[k].left = {}
    /\ \A k \in Closers : closer[k].at \in {"close", "done"} =>
          \A s \in streams \cap open : s \in closer[k].left \/ (s \in Streams /\ tracker[s] = "closing")

(* The invariant of the streams holds at the start.                          *)
LEMMA StreamInitially == StreamInit => StreamInvariant
<1>. SUFFICES ASSUME StreamInit PROVE StreamInvariant
  OBVIOUS
<1>1. StreamTypeOK
  BY DEF StreamInit, StreamTypeOK
<1>2. \A k \in Closers : closer[k].at = "idle"
  BY DEF StreamInit
<1>. QED  BY <1>1, <1>2 DEF StreamInvariant

(* A step of a continuation or of a closing keeps it.                        *)
LEMMA StreamStep ==
    ASSUME StreamInvariant, [StreamNext]_streamVars
    PROVE  StreamInvariant'
<1>. USE StreamAssumption DEF StreamInvariant, StreamTypeOK
<1>1. CASE UNCHANGED streamVars
  BY <1>1 DEF streamVars
<1>2. ASSUME NEW s \in Streams, TrackStream(s) PROVE StreamInvariant'
  BY <1>2 DEF TrackStream
<1>3. ASSUME NEW s \in Streams, CloseTracked(s) PROVE StreamInvariant'
  BY <1>3 DEF CloseTracked
<1>4. ASSUME NEW k \in Closers, RequestForceClose(k) PROVE StreamInvariant'
  BY <1>4 DEF RequestForceClose
<1>5. ASSUME NEW k \in Closers, CopyStreams(k) PROVE StreamInvariant'
  BY <1>5 DEF CopyStreams
<1>6. ASSUME NEW k \in Closers, CloseOne(k) PROVE StreamInvariant'
  BY <1>6 DEF CloseOne
<1>7. ASSUME NEW k \in Closers, CloserReturns(k) PROVE StreamInvariant'
  BY <1>7 DEF CloserReturns
<1>8. CASE FinishSession
  BY <1>8 DEF FinishSession
<1>. QED  BY <1>1, <1>2, <1>3, <1>4, <1>5, <1>6, <1>7, <1>8 DEF StreamNext

(* For every number of streams and closings: once a forced closing has       *)
(* returned no stream of the session stays open unnoticed                    *)
(* (trackConnectionSessionStream, closeConnectionSessionStreams).            *)
THEOREM ForcedClosingIsComplete == StreamSpec => []ForcedSessionIsClosed
<1>1. StreamInvariant => ForcedSessionIsClosed
  BY DEF StreamInvariant, ForcedSessionIsClosed
<1>. QED  BY <1>1, StreamInitially, StreamStep, PTL DEF StreamSpec

-----------------------------------------------------------------------------
(* Listeners: a socket between net.Listen and its registration is open and   *)
(* is nobody's entry yet.                                                    *)
IngressInvariant ==
    /\ IngressTypeOK
    /\ OpenListenerIsKnown
    /\ \A s \in Sockets : start[s] = "register" => s \in listening
    /\ entry.socket # NoSocket => start[entry.socket] = "done"
    /\ entry.state = "none" => entry.socket = NoSocket

(* The invariant of the listeners holds at the start.                        *)
LEMMA IngressInitially == IngressInit => IngressInvariant
BY IngressAssumption DEF IngressInit, IngressInvariant, IngressTypeOK, OpenListenerIsKnown

(* A step of a start, of a closing or of the manager keeps it.               *)
LEMMA IngressStep ==
    ASSUME IngressInvariant, [IngressNext]_ingressVars
    PROVE  IngressInvariant'
<1>. USE IngressAssumption DEF IngressInvariant, IngressTypeOK, OpenListenerIsKnown
<1>1. CASE UNCHANGED ingressVars
  BY <1>1 DEF ingressVars
<1>2. ASSUME NEW s \in Sockets, BeginStart(s) PROVE IngressInvariant'
  BY <1>2 DEF BeginStart
<1>3. ASSUME NEW s \in Sockets, CheckReserved(s) PROVE IngressInvariant'
  BY <1>3 DEF CheckReserved
<1>4. ASSUME NEW s \in Sockets, ListenPort(s) PROVE IngressInvariant'
  <2>1. CASE InUse(port[s])
    BY <1>4, <2>1 DEF ListenPort
  <2>2. CASE ~InUse(port[s])
    BY <1>4, <2>2 DEF ListenPort
  <2>. QED  BY <2>1, <2>2
<1>5. ASSUME NEW s \in Sockets, Register(s) PROVE IngressInvariant'
  BY <1>5 DEF Register, CloseOld
<1>6. ASSUME NEW state \in {"disabled", "draining"}, CloseListener(state) PROVE IngressInvariant'
  BY <1>6 DEF CloseListener
<1>7. CASE BeginClose
  BY <1>7 DEF BeginClose
<1>8. CASE CloseIngress
  BY <1>8 DEF CloseIngress
<1>9. ASSUME NEW r \in SUBSET Ports, RefreshReserved(r) PROVE IngressInvariant'
  BY <1>9 DEF RefreshReserved
<1>. QED  BY <1>1, <1>2, <1>3, <1>4, <1>5, <1>6, <1>7, <1>8, <1>9 DEF IngressNext

(* For every number of overlapping starts: no open listener is lost          *)
(* (StartIngressListener, closePluginIngress).                               *)
THEOREM ListenersAreKnown == IngressSpec => []OpenListenerIsKnown
<1>1. IngressInvariant => OpenListenerIsKnown
  BY DEF IngressInvariant
<1>. QED  BY <1>1, IngressInitially, IngressStep, PTL DEF IngressSpec

-----------------------------------------------------------------------------
(* Accounts: as soon as there is an account, a session, a login or a request *)
(* of an administrator, there is an enabled administrator; the first row     *)
(* that is inserted is one.                                                  *)
SomeAdmin == \E u \in Users : EnabledAdmin(u)

AdminInvariant ==
    /\ AdminTypeOK
    /\ LastAdminStays
    /\ sessions # {} => SomeAdmin
    /\ \A c \in AdminCalls :
          /\ call[c].at = "login" => SomeAdmin
          /\ call[c].at = "insert" =>
               SomeAdmin \/ (call[c].row.role = "admin" /\ ~call[c].row.disabled)

(* An idle request is typed.                                                 *)
LEMMA IdleType ==
    Idle \in [at : {"idle", "insert", "revoke", "login"}, user : Users,
             row : [role : UserRoles \cup {"none"}, disabled : BOOLEAN]]
<1>1. (CHOOSE u \in Users : TRUE) \in Users
  BY AdminAssumption
<1>. QED  BY <1>1 DEF Idle, Absent

(* The invariant of the accounts holds at the start.                         *)
LEMMA AdminInitially == AdminInit => AdminInvariant
<1>. SUFFICES ASSUME AdminInit PROVE AdminInvariant
  OBVIOUS
<1>1. AdminTypeOK
  BY IdleType, AdminAssumption DEF AdminInit, AdminTypeOK, Absent
<1>2. \A c \in AdminCalls : call[c].at = "idle"
  BY DEF AdminInit, Idle
<1>. QED  BY <1>1, <1>2 DEF AdminInit, AdminInvariant, LastAdminStays, Exists

(* A change of one account leaves an enabled administrator when there was    *)
(* one that is not that account, or when it makes the account one.           *)
LEMMA AdminKept ==
    ASSUME AdminTypeOK, NEW u \in Users, NEW rec, users' = [users EXCEPT ![u] = rec],
           (\E v \in Users \ {u} : EnabledAdmin(v)) \/ (rec.role = "admin" /\ ~rec.disabled)
    PROVE  SomeAdmin'
BY DEF AdminTypeOK, SomeAdmin, EnabledAdmin

(* A step of a request keeps the invariant.                                  *)
LEMMA AdminStep ==
    ASSUME AdminInvariant, [AdminNext]_adminVars
    PROVE  AdminInvariant'
<1>. USE AdminAssumption DEF AdminInvariant
<1>0. /\ AdminTypeOK
      /\ Absent \in [role : UserRoles \cup {"none"}, disabled : BOOLEAN]
      /\ Absent.role = "none"
  BY DEF Absent
<1>1. CASE UNCHANGED adminVars
  BY <1>1 DEF adminVars, AdminTypeOK, LastAdminStays, SomeAdmin, EnabledAdmin, Exists
<1>2. ASSUME NEW c \in AdminCalls, NEW u \in Users, Setup(c, u) PROVE AdminInvariant'
  BY <1>2 DEF Setup, AdminTypeOK, LastAdminStays, SomeAdmin, EnabledAdmin, Exists, UserRoles
<1>3. ASSUME NEW c \in AdminCalls, NEW u \in Users, DeleteUser(c, u) PROVE AdminInvariant'
  <2>1. AdminTypeOK'
    BY <1>0, <1>3, IdleType DEF DeleteUser, AdminTypeOK
  <2>2. SomeAdmin'
    <3>1. SomeAdmin
      BY <1>3 DEF DeleteUser, LastAdminStays, SomeAdmin
    <3>2. \E v \in Users \ {u} : EnabledAdmin(v)
      BY <1>3, <3>1 DEF DeleteUser, OtherEnabledAdmin, SomeAdmin, EnabledAdmin
    <3>. QED  BY <1>0, <1>3, <3>2, AdminKept DEF DeleteUser
  <2>. QED  BY <2>1, <2>2 DEF LastAdminStays, SomeAdmin
<1>4. ASSUME NEW c \in AdminCalls, NEW u \in Users, Authenticate(c, u) PROVE AdminInvariant'
  <2>1. SomeAdmin
    BY <1>4 DEF Authenticate, LastAdminStays, SomeAdmin
  <2>2. SomeAdmin'
    BY <1>4, <2>1 DEF Authenticate, SomeAdmin, EnabledAdmin
  <2>3. AdminTypeOK'
    BY <1>0, <1>4 DEF Authenticate, AdminTypeOK
  <2>. QED  BY <2>2, <2>3 DEF LastAdminStays, SomeAdmin
<1>5. ASSUME NEW c \in AdminCalls, NEW u \in Users,
             NEW rec \in [role : UserRoles, disabled : BOOLEAN], CreateUser(c, u, rec)
      PROVE  AdminInvariant'
  <2>1. SomeAdmin'
    BY <1>5 DEF CreateUser, Authorised, SomeAdmin, EnabledAdmin
  <2>2. AdminTypeOK'
    BY <1>0, <1>5 DEF CreateUser, AdminTypeOK
  <2>. QED  BY <2>1, <2>2 DEF LastAdminStays, SomeAdmin
<1>6. ASSUME NEW c \in AdminCalls, NEW u \in Users, NEW password \in BOOLEAN,
             NEW rec \in [role : UserRoles, disabled : BOOLEAN], Patch(c, u, rec, password)
      PROVE  AdminInvariant'
  <2>1. AdminTypeOK'
    BY <1>0, <1>6, IdleType DEF Patch, AdminTypeOK
  <2>2. SomeAdmin
    BY <1>6 DEF Patch, Authorised
  <2>3. SomeAdmin'
    <3>1. CASE UNCHANGED users
      BY <2>2, <3>1 DEF SomeAdmin, EnabledAdmin
    <3>2. CASE users' = [users EXCEPT ![u] = rec]
      <4>1. CASE users[u].role = "admin" /\ (rec.role # "admin" \/ rec.disabled) /\ users' # users
        BY <1>0, <1>6, <3>2, <4>1, AdminKept DEF Patch, OtherEnabledAdmin
      <4>2. CASE rec.role = "admin" /\ ~rec.disabled
        BY <1>0, <3>2, <4>2, AdminKept
      <4>3. CASE users[u].role # "admin"
        BY <1>0, <2>2, <3>2, <4>3, AdminKept DEF SomeAdmin, EnabledAdmin
      <4>. QED  BY <3>1, <4>1, <4>2, <4>3
    <3>. QED  BY <1>6, <3>1, <3>2 DEF Patch
  <2>. QED  BY <2>1, <2>3 DEF LastAdminStays, SomeAdmin
<1>7. ASSUME NEW c \in AdminCalls, Insert(c) PROVE AdminInvariant'
  <2>1. AdminTypeOK'
    BY <1>0, <1>7, IdleType DEF Insert, Finish, AdminTypeOK
  <2>2. SomeAdmin'
    <3>1. CASE Exists(call[c].user)
      BY <1>0, <1>7, <3>1 DEF Insert, LastAdminStays, SomeAdmin, EnabledAdmin, AdminTypeOK
    <3>2. CASE ~Exists(call[c].user)
      <4>1. users' = [users EXCEPT ![call[c].user] = call[c].row] /\ call[c].user \in Users
        BY <1>0, <1>7, <3>2 DEF Insert, AdminTypeOK
      <4>2. ~EnabledAdmin(call[c].user)
        BY <1>0, <3>2 DEF Exists, EnabledAdmin
      <4>3. SomeAdmin \/ (call[c].row.role = "admin" /\ ~call[c].row.disabled)
        BY <1>7 DEF Insert
      <4>. QED  BY <1>0, <4>1, <4>2, <4>3, AdminKept DEF SomeAdmin
    <3>. QED  BY <3>1, <3>2
  <2>. QED  BY <2>1, <2>2 DEF LastAdminStays, SomeAdmin
<1>8. ASSUME NEW c \in AdminCalls, Revoke(c) PROVE AdminInvariant'
  <2>1. AdminTypeOK'
    BY <1>0, <1>8, IdleType DEF Revoke, Finish, AdminTypeOK
  <2>2. SomeAdmin' = SomeAdmin /\ LastAdminStays'
    BY <1>8 DEF Revoke, SomeAdmin, EnabledAdmin, LastAdminStays, Exists
  <2>3. \A b \in AdminCalls : call'[b] = call[b] \/ call'[b].at = "idle"
    BY <1>0, <1>8 DEF Revoke, Finish, AdminTypeOK, Idle
  <2>4. sessions' # {} => sessions # {}
    BY <1>8 DEF Revoke
  <2>. QED  BY <2>1, <2>2, <2>3, <2>4
<1>9. ASSUME NEW c \in AdminCalls, CreateSession(c) PROVE AdminInvariant'
  <2>1. AdminTypeOK'
    BY <1>0, <1>9, IdleType DEF CreateSession, Finish, AdminTypeOK
  <2>2. SomeAdmin'
    BY <1>9 DEF CreateSession, SomeAdmin, EnabledAdmin
  <2>. QED  BY <2>1, <2>2 DEF LastAdminStays, SomeAdmin
<1>10. CASE EndSession
  <2>1. AdminTypeOK'
    BY <1>0, <1>10 DEF EndSession, AdminTypeOK
  <2>2. SomeAdmin' = SomeAdmin /\ LastAdminStays' /\ (sessions' # {} => sessions # {})
    BY <1>10 DEF EndSession, SomeAdmin, EnabledAdmin, LastAdminStays, Exists
  <2>. QED  BY <1>10, <2>1, <2>2 DEF EndSession
<1>. QED
  BY <1>1, <1>2, <1>3, <1>4, <1>5, <1>6, <1>7, <1>8, <1>9, <1>10 DEF AdminNext

(* For every number of accounts and of overlapping requests: the             *)
(* administration never locks itself out (adminuser Repository.Patch,        *)
(* Delete, createInitialAdmin).                                              *)
THEOREM AdministrationStaysOpen == AdminSpec => []LastAdminStays
<1>1. AdminInvariant => LastAdminStays
  BY DEF AdminInvariant
<1>. QED  BY <1>1, AdminInitially, AdminStep, PTL DEF AdminSpec

-----------------------------------------------------------------------------
(* The path of a connection: a stage has asked, or has yet to ask, every     *)
(* plugin that was published all along, and the earlier stage has asked it.  *)
FilteredSoFar(r, now_published) ==
    /\ r.through \subseteq now_published
    /\ r.at = "connection" => \A p \in r.through : <<"connection", p>> \in r.passed \/ p \in r.todo
    /\ r.at = "handshake" => \A p \in r.through :
          /\ <<"connection", p>> \in r.passed
          /\ <<"handshake", p>> \in r.passed \/ p \in r.todo
    /\ r.at \in {"status", "route", "dial", "relaying"} => \A p \in r.through :
          <<"connection", p>> \in r.passed /\ <<"handshake", p>> \in r.passed

PathInvariant ==
    /\ PathTypeOK
    /\ \A c \in Connections : FilteredSoFar(conn[c], published)

(* The handler that is asked next is one of those that are left.             *)
LEMMA FirstIsLeft ==
    ASSUME NEW left \in SUBSET Plugins, left # {}
    PROVE  First(left) \in left
<1>. DEFINE Less == {ss \in Nat \X Nat : ss[1] < ss[2]}
<1>1. left \in SUBSET Nat
  BY PathAssumption
<1>2. IsWellFoundedOn(Less, Nat)
  BY NatLessThanWellFounded DEF OpToRel
<1>3. \E p \in left : \A q \in left : ~(<<q, p>> \in Less)
  <2>. HIDE DEF Less
  <2>. QED  BY <1>1, <1>2, WFMin
<1>4. \E p \in left : \A q \in left : p <= q
  <2>1. PICK p \in left : \A q \in left : ~(<<q, p>> \in Less)
    BY <1>3
  <2>2. ASSUME NEW q \in left PROVE p <= q
    <3>1. p \in Nat /\ q \in Nat
      BY <1>1
    <3>2. <<q, p>> \in Nat \X Nat /\ <<q, p>>[1] = q /\ <<q, p>>[2] = p
      BY <3>1
    <3>3. ~(q < p)
      BY <2>1, <3>2
    <3>. QED  BY <3>1, <3>3
  <2>. QED  BY <2>2
<1>. QED  BY <1>4 DEF First

(* A step that gives one connection a good record keeps the invariant.       *)
LEMMA OneConnectionMoves ==
    ASSUME PathInvariant, NEW c \in Connections, NEW r \in Conns,
           conn' = [conn EXCEPT ![c] = r], FilteredSoFar(r, published),
           UNCHANGED <<published, clearing, switches>>,
           routeCache' \in [ServerHosts -> [by : Plugins \cup {0}, refuse : BOOLEAN]]
    PROVE  PathInvariant'
BY DEF PathInvariant, PathTypeOK, FilteredSoFar

(* A connection that is routed keeps what the filters have let through.      *)
LEMMA RouteIsFiltered ==
    ASSUME NEW r \in Conns, r.at = "route", FilteredSoFar(r, published),
           NEW e \in [by : Plugins \cup {0}, refuse : BOOLEAN]
    PROVE  Route(r, e) \in Conns /\ FilteredSoFar(Route(r, e), published)
BY DEF Route, Closed, Conns, FilteredSoFar

(* The invariant of the path holds at the start.                             *)
LEMMA PathInitially == PathInit => PathInvariant
<1>. SUFFICES ASSUME PathInit PROVE PathInvariant
  OBVIOUS
<1>1. (CHOOSE h \in ServerHosts : TRUE) \in ServerHosts
  BY PathAssumption
<1>2. Fresh \in Conns /\ FilteredSoFar(Fresh, published)
  BY <1>1 DEF Fresh, Conns, FilteredSoFar
<1>3. PathTypeOK
  <2>1. NoEntry \in [by : Plugins \cup {0}, refuse : BOOLEAN] /\ 0 \in 0 .. MaxSwitches
    BY PathAssumption DEF NoEntry
  <2>2. conn \in [Connections -> Conns]
    BY <1>2 DEF PathInit
  <2>. QED  BY <2>1, <2>2 DEF PathInit, PathTypeOK
<1>. QED  BY <1>2, <1>3 DEF PathInvariant, PathInit

(* A step of a connection or of the administrator keeps it.                  *)
LEMMA PathStep ==
    ASSUME PathInvariant, [PathNext]_pathVars
    PROVE  PathInvariant'
<1>0. /\ published \subseteq Plugins
      /\ routeCache \in [ServerHosts -> [by : Plugins \cup {0}, refuse : BOOLEAN]]
      /\ \A c \in Connections : conn[c] \in Conns /\ FilteredSoFar(conn[c], published)
  BY DEF PathInvariant, PathTypeOK
<1>1. CASE UNCHANGED pathVars
  BY <1>1 DEF pathVars, PathInvariant, PathTypeOK, FilteredSoFar
<1>2. ASSUME NEW c \in Connections, Connect(c) PROVE PathInvariant'
  <2>. DEFINE r == Enter([conn[c] EXCEPT !.through = published], "connection")
  <2>1. r \in Conns /\ FilteredSoFar(r, published)
    BY <1>0 DEF Enter, Conns, FilteredSoFar
  <2>2. conn' = [conn EXCEPT ![c] = r] /\ UNCHANGED <<published, routeCache, clearing, switches>>
    BY <1>2 DEF Connect
  <2>. HIDE DEF r
  <2>. QED  BY <1>0, <2>1, <2>2, OneConnectionMoves
<1>3. ASSUME NEW c \in Connections, NEW stage \in {"connection", "handshake"},
             NEW answer \in {"skip", "allow", "block", "error"}, Filter(c, stage, answer)
      PROVE  PathInvariant'
  <2>. DEFINE p == First(conn[c].todo)
  <2>. DEFINE next == [conn[c] EXCEPT !.todo = @ \ {p},
                                      !.passed = IF answer # "error" \/ p \notin FailClosed
                                                 THEN @ \cup {<<stage, p>>} ELSE @]
  <2>. DEFINE r == IF Refuses(p, answer) THEN Closed(next) ELSE next
  <2>1. p \in Plugins
    BY <1>0, <1>3, FirstIsLeft DEF Filter, Asks, Conns
  <2>2. next \in Conns /\ next.through = conn[c].through /\ next.at = stage
    <3>1. <<stage, p>> \in {"connection", "handshake"} \X Plugins
      BY <2>1
    <3>2. conn[c].at = stage
      BY <1>3 DEF Filter, Asks
    <3>. HIDE DEF p
    <3>. QED  BY <1>0, <3>1, <3>2 DEF Conns
  <2>3. ~Refuses(p, answer) => next.passed = conn[c].passed \cup {<<stage, p>>}
    BY <1>0 DEF Refuses, Conns
  <2>4. next.todo = conn[c].todo \ {p}
    BY <1>0 DEF Conns
  <2>5. ~Refuses(p, answer) => FilteredSoFar(next, published)
    <3>. HIDE DEF p, next
    <3>. QED  BY <1>0, <1>3, <2>2, <2>3, <2>4 DEF FilteredSoFar, Filter, Asks
  <2>6. Refuses(p, answer) => Closed(next) \in Conns /\ FilteredSoFar(Closed(next), published)
    <3>. HIDE DEF p, next
    <3>. QED  BY <1>0, <2>2 DEF Closed, Conns, FilteredSoFar
  <2>7. r \in Conns /\ FilteredSoFar(r, published)
    <3>. HIDE DEF p, next
    <3>. QED  BY <2>2, <2>5, <2>6
  <2>8. conn' = [conn EXCEPT ![c] = r] /\ UNCHANGED <<published, routeCache, clearing, switches>>
    BY <1>3 DEF Filter
  <2>. HIDE DEF r
  <2>. QED  BY <1>0, <2>7, <2>8, OneConnectionMoves
<1>4. ASSUME NEW c \in Connections, NEW h \in ServerHosts, RewriteHost(c, h) PROVE PathInvariant'
  <2>. DEFINE p == First(conn[c].todo)
  <2>. DEFINE r == [conn[c] EXCEPT !.todo = @ \ {p}, !.host = h, !.passed = @ \cup {<<"handshake", p>>}]
  <2>1. p \in Plugins
    BY <1>0, <1>4, FirstIsLeft DEF RewriteHost, Asks, Conns
  <2>2. r \in Conns /\ FilteredSoFar(r, published)
    <3>1. <<"handshake", p>> \in {"connection", "handshake"} \X Plugins
      BY <2>1
    <3>2. conn[c].at = "handshake"
      BY <1>4 DEF RewriteHost, Asks
    <3>. HIDE DEF p
    <3>3. r \in Conns
      BY <1>0, <3>1, ZenonT(30) DEF Conns
    <3>4. /\ r.at = "handshake" /\ r.through = conn[c].through /\ r.todo = conn[c].todo \ {p}
          /\ r.passed = conn[c].passed \cup {<<"handshake", p>>}
      BY <1>0, <3>2 DEF Conns
    <3>. HIDE DEF r
    <3>. QED  BY <1>0, <3>2, <3>3, <3>4 DEF FilteredSoFar
  <2>3. conn' = [conn EXCEPT ![c] = r] /\ UNCHANGED <<published, routeCache, clearing, switches>>
    <3>1. conn \in [Connections -> Conns]
      BY DEF PathInvariant, PathTypeOK
    <3>. HIDE DEF p
    <3>. QED  BY <1>0, <1>4, <3>1 DEF RewriteHost, Conns, p
  <2>. HIDE DEF r
  <2>. QED  BY <1>0, <2>2, <2>3, OneConnectionMoves
<1>5. ASSUME NEW c \in Connections, NEW h \in ServerHosts, ReadHandshake(c, h) PROVE PathInvariant'
  <2>. DEFINE r == Enter([conn[c] EXCEPT !.host = h], "handshake")
  <2>1. r \in Conns /\ FilteredSoFar(r, published)
    BY <1>0, <1>5 DEF Conns, FilteredSoFar, ReadHandshake, Asked, Enter
  <2>2. conn' = [conn EXCEPT ![c] = r] /\ UNCHANGED <<published, routeCache, clearing, switches>>
    BY <1>5 DEF ReadHandshake
  <2>. HIDE DEF r
  <2>. QED  BY <1>0, <2>1, <2>2, OneConnectionMoves
<1>6. ASSUME NEW c \in Connections, BadPacket(c) PROVE PathInvariant'
  <2>. DEFINE r == Closed(conn[c])
  <2>1. r \in Conns /\ FilteredSoFar(r, published)
    BY <1>0, <1>6 DEF Conns, FilteredSoFar, BadPacket, Closed
  <2>2. conn' = [conn EXCEPT ![c] = r] /\ UNCHANGED <<published, routeCache, clearing, switches>>
    BY <1>6 DEF BadPacket
  <2>. HIDE DEF r
  <2>. QED  BY <1>0, <2>1, <2>2, OneConnectionMoves
<1>7. ASSUME NEW c \in Connections, NEW stage \in {"status", "route"}, NextState(c, stage) PROVE PathInvariant'
  <2>. DEFINE r == Enter(conn[c], stage)
  <2>1. r \in Conns /\ FilteredSoFar(r, published)
    BY <1>0, <1>7 DEF Conns, FilteredSoFar, NextState, Asked, Enter
  <2>2. conn' = [conn EXCEPT ![c] = r] /\ UNCHANGED <<published, routeCache, clearing, switches>>
    BY <1>7 DEF NextState
  <2>. HIDE DEF r
  <2>. QED  BY <1>0, <2>1, <2>2, OneConnectionMoves
<1>8. ASSUME NEW c \in Connections, NEW answer \in {"response", "error", "pass"}, StatusPing(c, answer)
      PROVE  PathInvariant'
  <2>. DEFINE r == CASE answer = "response" -> Closed(conn[c])
                     [] answer = "error" -> [conn[c] EXCEPT !.todo = {}]
                     [] answer = "pass" -> [conn[c] EXCEPT !.todo = @ \ {First(@)}]
  <2>1. r \in Conns /\ FilteredSoFar(r, published)
    BY <1>0, <1>8 DEF Conns, FilteredSoFar, StatusPing, Asks, Closed
  <2>2. conn' = [conn EXCEPT ![c] = r] /\ UNCHANGED <<published, routeCache, clearing, switches>>
    BY <1>8 DEF StatusPing
  <2>. HIDE DEF r
  <2>. QED  BY <1>0, <2>1, <2>2, OneConnectionMoves
<1>9. ASSUME NEW c \in Connections, StatusUnanswered(c) PROVE PathInvariant'
  <2>. DEFINE r == Enter(conn[c], "route")
  <2>1. r \in Conns /\ FilteredSoFar(r, published)
    BY <1>0, <1>9 DEF Conns, FilteredSoFar, StatusUnanswered, Asked, Enter
  <2>2. conn' = [conn EXCEPT ![c] = r] /\ UNCHANGED <<published, routeCache, clearing, switches>>
    BY <1>9 DEF StatusUnanswered
  <2>. HIDE DEF r
  <2>. QED  BY <1>0, <2>1, <2>2, OneConnectionMoves
<1>10. ASSUME NEW c \in Connections, NEW refuse \in BOOLEAN, Decide(c, refuse) PROVE PathInvariant'
  <2>. DEFINE e == [by |-> First(conn[c].todo), refuse |-> refuse]
  <2>. DEFINE r == Route(conn[c], e)
  <2>1. First(conn[c].todo) \in Plugins
    BY <1>0, <1>10, FirstIsLeft DEF Decide, Asks, Conns
  <2>2. r \in Conns /\ FilteredSoFar(r, published)
    BY <1>0, <1>10, <2>1, RouteIsFiltered DEF Decide, Asks
  <2>3. /\ conn' = [conn EXCEPT ![c] = r]
        /\ routeCache' = [routeCache EXCEPT ![conn[c].host] = e]
        /\ UNCHANGED <<published, clearing, switches>>
    BY <1>10 DEF Decide
  <2>4. routeCache' \in [ServerHosts -> [by : Plugins \cup {0}, refuse : BOOLEAN]]
    BY <1>0, <2>1, <2>3 DEF Conns
  <2>. HIDE DEF r
  <2>. QED  BY <1>0, <2>2, <2>3, <2>4, OneConnectionMoves
<1>11. ASSUME NEW c \in Connections, Pass(c) PROVE PathInvariant'
  <2>. DEFINE r == [conn[c] EXCEPT !.todo = @ \ {First(@)}]
  <2>1. r \in Conns /\ FilteredSoFar(r, published)
    BY <1>0, <1>11 DEF Conns, FilteredSoFar, Pass, Asks
  <2>2. conn' = [conn EXCEPT ![c] = r] /\ UNCHANGED <<published, routeCache, clearing, switches>>
    BY <1>0, <1>11 DEF Pass, Conns, PathInvariant, PathTypeOK
  <2>. HIDE DEF r
  <2>. QED  BY <1>0, <2>1, <2>2, OneConnectionMoves
<1>12. ASSUME NEW c \in Connections, ProviderFails(c) PROVE PathInvariant'
  <2>. DEFINE r == [conn[c] EXCEPT !.todo = {}]
  <2>1. r \in Conns /\ FilteredSoFar(r, published)
    BY <1>0, <1>12 DEF Conns, FilteredSoFar, ProviderFails, Asks
  <2>2. conn' = [conn EXCEPT ![c] = r] /\ UNCHANGED <<published, routeCache, clearing, switches>>
    BY <1>0, <1>12 DEF ProviderFails, Conns, PathInvariant, PathTypeOK
  <2>. HIDE DEF r
  <2>. QED  BY <1>0, <2>1, <2>2, OneConnectionMoves
<1>13. ASSUME NEW c \in Connections, AcceptorPanics(c) PROVE PathInvariant'
  <2>. DEFINE r == Route(conn[c], Fallback(conn[c].host))
  <2>1. r \in Conns /\ FilteredSoFar(r, published)
    BY <1>0, <1>13, RouteIsFiltered DEF Fallback, AcceptorPanics, Asks
  <2>2. conn' = [conn EXCEPT ![c] = r] /\ UNCHANGED <<published, routeCache, clearing, switches>>
    BY <1>13 DEF AcceptorPanics
  <2>. HIDE DEF r
  <2>. QED  BY <1>0, <2>1, <2>2, OneConnectionMoves
<1>14. ASSUME NEW c \in Connections, Undecided(c) PROVE PathInvariant'
  <2>. DEFINE r == Route(conn[c], IF Cached(conn[c].host) THEN routeCache[conn[c].host] ELSE Fallback(conn[c].host))
  <2>1. r \in Conns /\ FilteredSoFar(r, published)
    BY <1>0, <1>14, RouteIsFiltered DEF Fallback, Undecided, Conns
  <2>2. conn' = [conn EXCEPT ![c] = r] /\ UNCHANGED <<published, routeCache, clearing, switches>>
    BY <1>14 DEF Undecided
  <2>. HIDE DEF r
  <2>. QED  BY <1>0, <2>1, <2>2, OneConnectionMoves
<1>15. ASSUME NEW c \in Connections, NEW ok \in BOOLEAN, Dial(c, ok) PROVE PathInvariant'
  <2>. DEFINE r == [conn[c] EXCEPT !.at = IF ok THEN "relaying" ELSE "closed"]
  <2>1. r \in Conns /\ FilteredSoFar(r, published)
    BY <1>0, <1>15 DEF Conns, FilteredSoFar, Dial
  <2>2. conn' = [conn EXCEPT ![c] = r] /\ UNCHANGED <<published, routeCache, clearing, switches>>
    BY <1>0, <1>15 DEF Dial, Conns, PathInvariant, PathTypeOK
  <2>. HIDE DEF r
  <2>. QED  BY <1>0, <2>1, <2>2, OneConnectionMoves
<1>16. ASSUME NEW c \in Connections, HangUp(c) PROVE PathInvariant'
  <2>. DEFINE r == Closed(conn[c])
  <2>1. r \in Conns /\ FilteredSoFar(r, published)
    BY <1>0, <1>16 DEF Conns, FilteredSoFar, HangUp, Closed
  <2>2. conn' = [conn EXCEPT ![c] = r] /\ UNCHANGED <<published, routeCache, clearing, switches>>
    BY <1>16 DEF HangUp
  <2>. HIDE DEF r
  <2>. QED  BY <1>0, <2>1, <2>2, OneConnectionMoves
<1>17. ASSUME NEW p \in Plugins, EnableExtensions(p) PROVE PathInvariant'
  <2>1. published' = published \cup {p} /\ conn' = conn
    BY <1>17 DEF EnableExtensions, PublishExtensions
  <2>2. PathTypeOK'
    BY <1>17, <2>1, PathAssumption DEF EnableExtensions, PathInvariant, PathTypeOK
  <2>. QED  BY <1>0, <2>1, <2>2 DEF PathInvariant, FilteredSoFar
<1>18. ASSUME NEW p \in Plugins, RemoveExtensions(p) PROVE PathInvariant'
  <2>1. \A c \in Connections : /\ conn'[c] = [conn[c] EXCEPT !.through = @ \ {p}]
                              /\ conn'[c] \in Conns
                              /\ FilteredSoFar(conn'[c], published')
    BY <1>0, <1>18 DEF RemoveExtensions, Conns, FilteredSoFar
  <2>2. PathTypeOK'
    BY <1>18, <2>1, PathAssumption DEF RemoveExtensions, PathInvariant, PathTypeOK
  <2>. QED  BY <2>1, <2>2 DEF PathInvariant
<1>19. ASSUME \/ ClearRouteCache \/ RefreshRouteProviders \/ \E h \in ServerHosts : ExpireRoute(h)
       PROVE  PathInvariant'
  <2>1. published' = published /\ conn' = conn
    BY <1>19 DEF ClearRouteCache, RefreshRouteProviders, ExpireRoute
  <2>2. PathTypeOK'
    <3>1. NoEntry \in [by : Plugins \cup {0}, refuse : BOOLEAN]
      BY DEF NoEntry
    <3>2. routeCache' \in [ServerHosts -> [by : Plugins \cup {0}, refuse : BOOLEAN]]
      BY <1>0, <1>19, <3>1 DEF ClearRouteCache, RefreshRouteProviders, ExpireRoute
    <3>3. clearing' \in BOOLEAN
      BY <1>19 DEF ClearRouteCache, RefreshRouteProviders, ExpireRoute, PathInvariant, PathTypeOK
    <3>4. switches' \in 0 .. MaxSwitches
      BY <1>19, PathAssumption
         DEF ClearRouteCache, RefreshRouteProviders, ExpireRoute, PathInvariant, PathTypeOK
    <3>. QED  BY <2>1, <3>2, <3>3, <3>4 DEF PathInvariant, PathTypeOK
  <2>. QED  BY <1>0, <2>1, <2>2 DEF PathInvariant
<1>. QED
  BY <1>1, <1>2, <1>3, <1>4, <1>5, <1>6, <1>7, <1>8, <1>9, <1>10, <1>11, <1>12, <1>13, <1>14,
     <1>15, <1>16, <1>17, <1>18, <1>19 DEF PathNext, FilterConnection, FilterHandshake

(* For every number of plugins, connections and administrator's operations:  *)
(* no bytes reach an upstream past a filter that was published all the time  *)
(* (FilterConnection, FilterHandshake, publishExtensionsLocked).             *)
THEOREM FiltersAlwaysCover == PathSpec => []FiltersCover
<1>1. PathInvariant => FiltersCover
  <2>. SUFFICES ASSUME PathInvariant, NEW c \in Connections, conn[c].at \in {"dial", "relaying"},
                       NEW x \in {"connection", "handshake"} \X conn[c].through
                PROVE  x \in conn[c].passed
    BY DEF FiltersCover
  <2>1. PICK stage \in {"connection", "handshake"}, p \in conn[c].through : x = <<stage, p>>
    OBVIOUS
  <2>2. <<"connection", p>> \in conn[c].passed /\ <<"handshake", p>> \in conn[c].passed
    BY DEF PathInvariant, FilteredSoFar
  <2>. QED  BY <2>1, <2>2
<1>. QED  BY <1>1, PathInitially, PathStep, PTL DEF PathSpec

-----------------------------------------------------------------------------
(* The shared port: a connection is counted as long as it is on its way to a *)
(* handler, the queue never exceeds its length, and the HTTP server has      *)
(* nothing left once its Serve has returned.                                 *)
PortInvariant ==
    /\ PortTypeOK
    /\ \A c \in Clients : client[c] \in {"reading", "delivering", "refused"} => c \in routing
    /\ Cardinality(InBacklog) <= Backlog
    /\ serve \in {"waitRouting", "returned"} =>
          web = "ended" /\ \A c \in Clients : client[c] # "served"
    /\ serve = "returned" => routing = {}

(* The queue is finite, and one that loses connections is no longer.         *)
LEMMA BacklogShrinks ==
    ASSUME NEW bigger \in SUBSET Clients, NEW smaller \in SUBSET bigger, Cardinality(bigger) <= Backlog
    PROVE  Cardinality(smaller) <= Backlog
<1>1. IsFiniteSet(bigger) /\ IsFiniteSet(smaller) /\ Cardinality(smaller) <= Cardinality(bigger)
  BY PortAssumption, FS_Subset
<1>2. Cardinality(bigger) \in Nat /\ Cardinality(smaller) \in Nat
  BY <1>1, FS_CardinalityType
<1>. QED  BY <1>1, <1>2, PortAssumption

(* The invariant of the port holds at the start.                             *)
LEMMA PortInitially == PortInit => PortInvariant
<1>. SUFFICES ASSUME PortInit PROVE PortInvariant
  OBVIOUS
<1>1. InBacklog = {}
  BY DEF PortInit, InBacklog
<1>2. Cardinality(InBacklog) <= Backlog
  BY <1>1, PortAssumption, FS_EmptySet
<1>. QED  BY <1>2 DEF PortInit, PortInvariant, PortTypeOK

(* A step of a connection that does not join the queue, and keeps the end of *)
(* Serve as it is.                                                           *)
LEMMA PortClientMoves ==
    ASSUME PortInvariant, NEW c \in Clients, NEW place,
           place \in {"reading", "delivering", "refused", "served", "tcp", "closed"},
           client' = [client EXCEPT ![c] = place],
           UNCHANGED <<serve, webClosed, web>>,
           routing' \in {routing, routing \ {c}, routing \cup {c}},
           place \in {"reading", "delivering", "refused"} => c \in routing',
           place = "served" => web = "serving",
           serve = "returned" => routing' = {}
    PROVE  PortInvariant'
<1>1. InBacklog' \subseteq InBacklog
  BY DEF InBacklog, PortInvariant, PortTypeOK
<1>2. Cardinality(InBacklog') <= Backlog
  BY <1>1, BacklogShrinks DEF PortInvariant, InBacklog
<1>3. Cardinality(InBacklog)' <= Backlog
  BY <1>2
<1>. QED  BY <1>3 DEF PortInvariant, PortTypeOK

(* A step of a connection or of Serve keeps the invariant.                   *)
LEMMA PortStep ==
    ASSUME PortInvariant, [PortNext]_portVars
    PROVE  PortInvariant'
<1>1. CASE UNCHANGED portVars
  <2>1. InBacklog' = InBacklog
    BY <1>1 DEF portVars, InBacklog
  <2>. QED  BY <1>1, <2>1 DEF portVars, PortInvariant, PortTypeOK
<1>2. ASSUME NEW c \in Clients,
             \/ Accept(c) \/ NoPacket(c) \/ DeliverChecks(c) \/ DeliverRefuses(c)
             \/ CloseRefused(c) \/ HandToTCP(c) \/ AcceptHTTP(c) \/ HandlerCloses(c)
      PROVE  PortInvariant'
  <2>1. CASE Accept(c)
    BY <2>1, PortClientMoves DEF Accept, PortInvariant
  <2>2. CASE NoPacket(c)
    BY <2>2, PortClientMoves DEF NoPacket, PortInvariant
  <2>3. CASE DeliverChecks(c)
    BY <2>3, PortClientMoves DEF DeliverChecks, StillRouting, PortInvariant
  <2>4. CASE DeliverRefuses(c)
    BY <2>4, PortClientMoves DEF DeliverRefuses, PortInvariant
  <2>5. CASE CloseRefused(c)
    BY <2>5, PortClientMoves DEF CloseRefused, PortInvariant
  <2>6. CASE HandToTCP(c)
    BY <2>6, PortClientMoves DEF HandToTCP, PortInvariant
  <2>7. CASE AcceptHTTP(c)
    BY <2>7, PortClientMoves DEF AcceptHTTP, PortInvariant
  <2>8. CASE HandlerCloses(c)
    BY <2>8, PortClientMoves DEF HandlerCloses, PortInvariant
  <2>. QED  BY <1>2, <2>1, <2>2, <2>3, <2>4, <2>5, <2>6, <2>7, <2>8
<1>3. ASSUME NEW c \in Clients, DeliverQueues(c) PROVE PortInvariant'
  <2>1. InBacklog' = InBacklog \cup {c} /\ c \notin InBacklog
    BY <1>3 DEF DeliverQueues, InBacklog, PortInvariant, PortTypeOK
  <2>2. IsFiniteSet(InBacklog)
    BY PortAssumption, FS_Subset DEF InBacklog
  <2>3. Cardinality(InBacklog') = Cardinality(InBacklog) + 1 /\ Cardinality(InBacklog) \in Nat
    BY <2>1, <2>2, FS_AddElement, FS_CardinalityType
  <2>4. Cardinality(InBacklog') <= Backlog
    BY <1>3, <2>3, PortAssumption DEF DeliverQueues
  <2>5. Cardinality(InBacklog)' <= Backlog
    BY <2>4
  <2>. QED  BY <1>3, <2>5 DEF DeliverQueues, PortInvariant, PortTypeOK
<1>4. CASE ListenerCloses \/ CloseWebListener \/ ServeReturns
  <2>1. InBacklog' = InBacklog
    BY <1>4 DEF ListenerCloses, CloseWebListener, ServeReturns, InBacklog
  <2>. QED  BY <1>4, <2>1 DEF ListenerCloses, CloseWebListener, ServeReturns, PortInvariant, PortTypeOK
<1>5. CASE WebServerEnds
  <2>1. InBacklog' = InBacklog
    BY <1>5 DEF WebServerEnds, InBacklog
  <2>2. client' \in [Clients -> {"waiting", "reading", "delivering", "refused", "queued", "served", "tcp", "closed"}]
    BY <1>5 DEF WebServerEnds, PortInvariant, PortTypeOK
  <2>. QED  BY <1>5, <2>1, <2>2 DEF WebServerEnds, PortInvariant, PortTypeOK
<1>. QED  BY <1>1, <1>2, <1>3, <1>4, <1>5 DEF PortNext

(* For every number of connections and length of the queue: Serve returns    *)
(* with no connection between a reader and its handler, and the queue within *)
(* its length (tcphttpmux, Serve, ChanListener.Deliver).                     *)
THEOREM ServeLeavesNothingBetween == PortSpec => []RoutedBeforeReturn
<1>1. PortInvariant => RoutedBeforeReturn
  BY DEF PortInvariant, PortTypeOK, RoutedBeforeReturn
<1>. QED  BY <1>1, PortInitially, PortStep, PTL DEF PortSpec

-----------------------------------------------------------------------------
(* Events (EventDelivery).  FailedIsAccounted is not inductive, for three    *)
(* reasons.  A consumer whose subscriber declines an event forgets it, which *)
(* is right only if that delivery has not failed before: so an event is on   *)
(* its way in one place only, and a consumer's job is new until it fails.    *)
(* A replay marks the record it began with, by its number, whatever came of  *)
(* the delivery: so a number names one delivery, and a job that is about to  *)
(* mark has left its entry in the memory of its node, or was answered.       *)

Job == [event : Events, sub : Subscribers, id : Nat, saved : Nat,
        pc : {"deliver", "save", "keep", "mark"}]

Consumer(n) == worker[n]["consumer"]

EventsTyped ==
    /\ emitted \subseteq Events
    /\ staged \subseteq [node : Gateways, event : Events, valid : BOOLEAN]
    /\ subscriberQueue \in [Gateways -> Seq(Events)]
    /\ subscribers \in [Gateways -> SUBSET Subscribers]
    /\ worker \in [Gateways -> [Roles -> Seq(Job)]]
    /\ letters \in [Gateways -> Seq(Entry)]
    /\ records \subseteq Record /\ IsFiniteSet(records)

\* The event waits for its first delivery.
Waits(early, queues, e) ==
    \/ \E x \in early : x.event = e
    \/ \E n \in Gateways : \E i \in DOMAIN queues[n] : queues[n][i] = e

\* An event waits in one place.
WaitsOnce ==
    /\ \A x, y \in staged : x.event = y.event => x = y
    /\ \A x \in staged, n \in Gateways :
          \A i \in DOMAIN subscriberQueue[n] : subscriberQueue[n][i] # x.event
    /\ \A n, m \in Gateways : \A i \in DOMAIN subscriberQueue[n], j \in DOMAIN subscriberQueue[m] :
          subscriberQueue[n][i] = subscriberQueue[m][j] => n = m /\ i = j
    /\ \A e \in Events : Waits(staged, subscriberQueue, e) => e \in emitted

\* A delivery is the job of one consumer, after the waiting and before its failure.
DeliveredOnce ==
    /\ \A n \in Gateways : \A i \in DOMAIN Consumer(n) :
          /\ Consumer(n)[i].event \in emitted /\ ~Waits(staged, subscriberQueue, Consumer(n)[i].event)
          /\ Consumer(n)[i].pc = "deliver" <=> Pair(Consumer(n)[i]) \notin failed
    /\ \A n, m \in Gateways : \A i \in DOMAIN Consumer(n), j \in DOMAIN Consumer(m) :
          Pair(Consumer(n)[i]) = Pair(Consumer(m)[j]) => n = m /\ i = j
    /\ \A x \in failed : x[1] \in emitted /\ ~Waits(staged, subscriberQueue, x[1])

\* A number names the record of that delivery; 0 names none.
Named(table, id, x) == id = 0 \/ \E y \in table : y.id = id /\ Pair(y) = x

RecordsNumbered ==
    /\ \A x, y \in records : x.id = y.id => x = y
    /\ \A x \in records : x.id <= Cardinality(records) /\ Pair(x) \in failed

NumbersRight ==
    /\ \A n \in Gateways : \A i \in DOMAIN letters[n] :
          Named(records, letters[n][i].id, Pair(letters[n][i])) /\ Pair(letters[n][i]) \in failed
    /\ \A n \in Gateways, r \in Roles : \A i \in DOMAIN worker[n][r] :
          /\ Named(records, worker[n][r][i].id, Pair(worker[n][r][i]))
          /\ Named(records, worker[n][r][i].saved, Pair(worker[n][r][i]))
          /\ r = "replay" => Pair(worker[n][r][i]) \in failed

\* A list of letters or of jobs has the delivery.
Has(list, x) == \E i \in DOMAIN list : Pair(list[i]) = x

\* Only the head of a list of jobs has gone beyond its first step, and one that is about to mark
\* is answered or kept.
HeadsWork ==
    \A n \in Gateways, r \in Roles : \A i \in DOMAIN worker[n][r] :
        /\ worker[n][r][i].pc \in {"save", "mark"} => i = 1
        /\ worker[n][r][i].pc = "mark" =>
              r = "replay" /\ (Pair(worker[n][r][i]) \in got \cup forgotten \/ Has(letters[n], Pair(worker[n][r][i])))

PendingIn(table, x) == \E y \in table : Pair(y) = x /\ y.status = "pending"
Accounted(x) ==
    \/ x \in got \cup forgotten \/ PendingIn(records, x)
    \/ \E n \in Gateways : Has(letters[n], x) \/ \E r \in Roles : Has(worker[n][r], x)

EventInv ==
    /\ EventsTyped /\ WaitsOnce /\ DeliveredOnce /\ RecordsNumbered /\ NumbersRight /\ HeadsWork
    /\ \A x \in failed : Accounted(x)

\* The head of a list of jobs changes, or leaves.
LEMMA HeadChanges ==
    ASSUME NEW s \in Seq(Job), s # << >>, NEW pc \in {"deliver", "save", "keep", "mark"}, NEW saved \in Nat
    PROVE  /\ Len(s) \in Nat \ {0} /\ DOMAIN s = 1..Len(s) /\ 1 \in DOMAIN s /\ Head(s) = s[1] /\ s[1] \in Job
           /\ LET w == [s EXCEPT ![1].pc = pc]
              IN  /\ w \in Seq(Job) /\ DOMAIN w = DOMAIN s /\ w[1] = [s[1] EXCEPT !.pc = pc]
                  /\ \A i \in DOMAIN s : i # 1 => w[i] = s[i]
           /\ LET w == [s EXCEPT ![1] = [s[1] EXCEPT !.pc = pc, !.saved = saved]]
              IN  /\ w \in Seq(Job) /\ DOMAIN w = DOMAIN s /\ w[1] = [s[1] EXCEPT !.pc = pc, !.saved = saved]
                  /\ \A i \in DOMAIN s : i # 1 => w[i] = s[i]
<1>1. Len(s) \in Nat \ {0} /\ DOMAIN s = 1..Len(s) /\ 1 \in DOMAIN s /\ Head(s) = s[1] /\ s[1] \in Job
      /\ s \in [1..Len(s) -> Job]
  OBVIOUS
<1>2. ASSUME NEW j \in Job
      PROVE  LET w == [s EXCEPT ![1] = j]
             IN  /\ w \in Seq(Job) /\ DOMAIN w = DOMAIN s /\ w[1] = j
                 /\ \A i \in DOMAIN s : i # 1 => w[i] = s[i]
  BY <1>1
<1>3. [s[1] EXCEPT !.pc = pc] \in Job /\ [s[1] EXCEPT !.pc = pc, !.saved = saved] \in Job
  BY <1>1 DEF Job
<1>4. [s EXCEPT ![1].pc = pc] = [s EXCEPT ![1] = [s[1] EXCEPT !.pc = pc]]
  OBVIOUS
<1> QED
  BY <1>1, <1>2, <1>3, <1>4

LEMMA HeadLeaves ==
    ASSUME NEW S, NEW s \in Seq(S), s # << >>
    PROVE  /\ Tail(s) \in Seq(S) /\ Len(s) \in Nat \ {0} /\ Head(s) = s[1] /\ 1 \in DOMAIN s
           /\ \A i \in DOMAIN Tail(s) : i + 1 \in DOMAIN s /\ i + 1 # 1 /\ Tail(s)[i] = s[i + 1]
           /\ \A i \in DOMAIN s : i # 1 => i - 1 \in DOMAIN Tail(s) /\ Tail(s)[i - 1] = s[i]
           /\ \A i \in DOMAIN Tail(s) : i \in Nat \ {0}
<1>1. Tail(s) \in Seq(S) /\ Len(s) \in Nat \ {0} /\ Head(s) = s[1] /\ DOMAIN s = 1..Len(s)
      /\ Len(Tail(s)) = Len(s) - 1 /\ DOMAIN Tail(s) = 1..(Len(s) - 1)
  OBVIOUS
<1>2. \A i \in 1..(Len(s) - 1) : Tail(s)[i] = s[i + 1]
  OBVIOUS
<1> QED
  BY <1>1, <1>2

LEMMA TailEnters ==
    ASSUME NEW S, NEW s \in Seq(S), NEW x \in S
    PROVE  /\ Append(s, x) \in Seq(S) /\ DOMAIN Append(s, x) = DOMAIN s \cup {Len(s) + 1}
           /\ Append(s, x)[Len(s) + 1] = x /\ Len(s) + 1 \notin DOMAIN s
           /\ \A i \in DOMAIN s : Append(s, x)[i] = s[i]
<1>1. Len(s) \in Nat /\ DOMAIN s = 1..Len(s) /\ DOMAIN Append(s, x) = 1..(Len(s) + 1)
  OBVIOUS
<1>2. 1..(Len(s) + 1) = 1..Len(s) \cup {Len(s) + 1} /\ Len(s) + 1 \notin 1..Len(s)
  BY <1>1
<1> QED
  BY <1>1, <1>2

\* The jobs of a list, without the first d.
Continues(w, s, d) ==
    \A i \in DOMAIN w : i \in Nat /\ i + d \in DOMAIN s /\ w[i].event = s[i + d].event /\ w[i].sub = s[i + d].sub

\* A step that leaves the queues alone moves a job, or takes it off: DeliveredOnce.
LEMMA JobMoves ==
    ASSUME DeliveredOnce, NEW n \in Gateways, NEW r \in Roles, NEW d \in {0, 1},
           \A m \in Gateways, q \in Roles : m # n \/ q # r => worker'[m][q] = worker[m][q],
           UNCHANGED <<emitted, staged, subscriberQueue>>,
           Continues(worker'[n][r], worker[n][r], d),
           r = "consumer" => \A i \in DOMAIN worker'[n][r] :
              worker'[n][r][i].pc = "deliver" <=> Pair(worker'[n][r][i]) \notin failed',
           \/ failed' = failed
           \/ /\ r = "consumer" /\ 1 \in DOMAIN worker[n][r]
              /\ failed' = failed \cup {Pair(worker[n][r][1])}
    PROVE  DeliveredOnce'
<1> DEFINE w == worker'[n][r]
<1>1. /\ worker'[n][r] = w
      /\ \A m \in Gateways, q \in Roles : m # n \/ q # r => worker'[m][q] = worker[m][q]
  OBVIOUS
<1>2. "consumer" \in Roles
  BY DEF Roles
<1>3. \A i \in DOMAIN w : Pair(w[i]) = Pair(worker[n][r][i + d])
  BY DEF Pair, Continues
<1>4. ASSUME NEW m \in Gateways, NEW i \in DOMAIN Consumer(m)'
      PROVE  /\ Consumer(m)'[i].event \in emitted'
             /\ ~Waits(staged', subscriberQueue', Consumer(m)'[i].event)
             /\ Consumer(m)'[i].pc = "deliver" <=> Pair(Consumer(m)'[i]) \notin failed'
  <2>1. CASE m = n /\ r = "consumer"
    <3>1. Consumer(m)' = w /\ i + d \in DOMAIN Consumer(n) /\ w[i].event = Consumer(n)[i + d].event
      BY <1>1, <1>4, <2>1 DEF Consumer, Continues
    <3>2. Consumer(n)[i + d].event \in emitted /\ ~Waits(staged, subscriberQueue, Consumer(n)[i + d].event)
      BY <3>1 DEF DeliveredOnce
    <3> QED
      BY <1>4, <2>1, <3>1, <3>2
  <2>2. CASE ~(m = n /\ r = "consumer")
    <3>1. Consumer(m)' = Consumer(m) /\ i \in DOMAIN Consumer(m)
      BY <1>1, <1>2, <1>4, <2>2 DEF Consumer
    <3>2. Pair(Consumer(m)[i]) \in failed' <=> Pair(Consumer(m)[i]) \in failed
      <4>1. CASE failed' = failed
        BY <4>1
      <4>2. CASE failed' = failed \cup {Pair(worker[n][r][1])} /\ r = "consumer" /\ 1 \in DOMAIN worker[n][r]
        <5>1. m # n /\ 1 \in DOMAIN Consumer(n)
          BY <2>2, <4>2 DEF Consumer
        <5>2. Pair(Consumer(m)[i]) # Pair(Consumer(n)[1])
          BY <3>1, <5>1 DEF DeliveredOnce
        <5> QED
          BY <4>2, <5>2 DEF Consumer
      <4> QED
        BY <4>1, <4>2
    <3>3. /\ Consumer(m)[i].event \in emitted /\ ~Waits(staged, subscriberQueue, Consumer(m)[i].event)
          /\ Consumer(m)[i].pc = "deliver" <=> Pair(Consumer(m)[i]) \notin failed
      BY <3>1 DEF DeliveredOnce
    <3> QED
      BY <3>1, <3>2, <3>3
  <2> QED
    BY <2>1, <2>2
<1>5. ASSUME NEW m \in Gateways, NEW k \in Gateways, NEW i \in DOMAIN Consumer(m)', NEW j \in DOMAIN Consumer(k)',
             Pair(Consumer(m)'[i]) = Pair(Consumer(k)'[j])
      PROVE  m = k /\ i = j
  <2>1. CASE r = "replay"
    <3>1. Consumer(m)' = Consumer(m) /\ Consumer(k)' = Consumer(k)
      BY <1>1, <1>2, <2>1 DEF Consumer
    <3> QED
      BY <1>5, <3>1 DEF DeliveredOnce
  <2>2. CASE r = "consumer"
    <3>1. \A l \in Gateways : Consumer(l)' = IF l = n THEN w ELSE Consumer(l)
      BY <1>1, <1>2, <2>2 DEF Consumer
    <3>2. \A a \in DOMAIN w : a \in Nat /\ a + d \in DOMAIN Consumer(n) /\ Pair(w[a]) = Pair(Consumer(n)[a + d])
      BY <1>3, <2>2 DEF Consumer, Continues
    <3>3. CASE m = n /\ k = n
      <4>1. i + d = j + d
        BY <1>5, <3>1, <3>2, <3>3 DEF DeliveredOnce
      <4> QED
        BY <1>5, <3>1, <3>2, <3>3, <4>1
    <3>4. CASE m = n /\ k # n
      BY <1>5, <3>1, <3>2, <3>4 DEF DeliveredOnce
    <3>5. CASE m # n /\ k = n
      BY <1>5, <3>1, <3>2, <3>5 DEF DeliveredOnce
    <3>6. CASE m # n /\ k # n
      BY <1>5, <3>1, <3>6 DEF DeliveredOnce
    <3> QED
      BY <3>3, <3>4, <3>5, <3>6
  <2> QED
    BY <2>1, <2>2 DEF Roles
<1>6. ASSUME NEW x \in failed' PROVE x[1] \in emitted' /\ ~Waits(staged', subscriberQueue', x[1])
  <2>1. CASE x \in failed
    BY <2>1 DEF DeliveredOnce
  <2>2. CASE x \notin failed
    <3>1. r = "consumer" /\ 1 \in DOMAIN Consumer(n) /\ x = Pair(Consumer(n)[1])
      BY <1>6, <2>2 DEF Consumer
    <3>2. x[1] = Consumer(n)[1].event
      BY <3>1 DEF Pair
    <3> QED
      BY <3>1, <3>2 DEF DeliveredOnce
  <2> QED
    BY <2>1, <2>2
<1> QED
  BY <1>4, <1>5, <1>6 DEF DeliveredOnce

\* A step that leaves the queues alone: WaitsOnce.
LEMMA QueuesAlone ==
    ASSUME WaitsOnce, UNCHANGED <<emitted, staged, subscriberQueue>>
    PROVE  WaitsOnce'
  BY DEF WaitsOnce, Waits

\* A number goes on naming its record as long as records only change their status.
LEMMA NamesStay ==
    ASSUME NEW S, NEW T, \A y \in S : \E z \in T : z.id = y.id /\ Pair(z) = Pair(y),
           NEW id, NEW x, Named(S, id, x)
    PROVE  Named(T, id, x)
  BY DEF Named

\* NumbersRight: what is new in a list has its number.
LEMMA NumbersKept ==
    ASSUME NumbersRight, failed \subseteq failed',
           \A y \in records : \E z \in records' : z.id = y.id /\ Pair(z) = Pair(y),
           \A m \in Gateways : \A i \in DOMAIN letters'[m] :
              \/ \E k \in DOMAIN letters[m] : letters'[m][i] = letters[m][k]
              \/ /\ Named(records', letters'[m][i].id, Pair(letters'[m][i]))
                 /\ Pair(letters'[m][i]) \in failed',
           \A m \in Gateways, q \in Roles : \A i \in DOMAIN worker'[m][q] :
              \/ \E k \in DOMAIN worker[m][q] : worker'[m][q][i] = worker[m][q][k]
              \/ /\ Named(records', worker'[m][q][i].id, Pair(worker'[m][q][i]))
                 /\ Named(records', worker'[m][q][i].saved, Pair(worker'[m][q][i]))
                 /\ q = "replay" => Pair(worker'[m][q][i]) \in failed'
    PROVE  NumbersRight'
<1>1. ASSUME NEW id, NEW x, Named(records, id, x) PROVE Named(records', id, x)
  BY <1>1, NamesStay
<1>2. ASSUME NEW m \in Gateways, NEW i \in DOMAIN letters'[m]
      PROVE  Named(records', letters'[m][i].id, Pair(letters'[m][i])) /\ Pair(letters'[m][i]) \in failed'
  BY <1>1 DEF NumbersRight
<1>3. ASSUME NEW m \in Gateways, NEW q \in Roles, NEW i \in DOMAIN worker'[m][q]
      PROVE  /\ Named(records', worker'[m][q][i].id, Pair(worker'[m][q][i]))
             /\ Named(records', worker'[m][q][i].saved, Pair(worker'[m][q][i]))
             /\ q = "replay" => Pair(worker'[m][q][i]) \in failed'
  BY <1>1 DEF NumbersRight
<1> QED
  BY <1>2, <1>3 DEF NumbersRight

\* HeadsWork: a job is where it was, or a head has moved.
LEMMA HeadsKept ==
    ASSUME HeadsWork, got \subseteq got', forgotten \subseteq forgotten',
           \A m \in Gateways : \A x : Has(letters[m], x) =>
              Has(letters'[m], x) \/ x \in forgotten' \/ worker[m]["replay"] = << >>,
           \A m \in Gateways, q \in Roles : \A i \in DOMAIN worker'[m][q] :
              \/ \E k \in DOMAIN worker[m][q] :
                    worker'[m][q][i] = worker[m][q][k] /\ (k = i \/ k # 1)
              \/ worker'[m][q][i].pc \in {"deliver", "keep"}
              \/ i = 1 /\ worker'[m][q][i].pc = "save"
              \/ /\ i = 1 /\ worker'[m][q][i].pc = "mark" /\ q = "replay"
                 /\ \/ Pair(worker'[m][q][i]) \in got' \cup forgotten'
                    \/ Has(letters'[m], Pair(worker'[m][q][i]))
    PROVE  HeadsWork'
<1> SUFFICES ASSUME NEW m \in Gateways, NEW q \in Roles, NEW i \in DOMAIN worker'[m][q]
             PROVE  /\ worker'[m][q][i].pc \in {"save", "mark"} => i = 1
                    /\ worker'[m][q][i].pc = "mark" =>
                          q = "replay" /\ (\/ Pair(worker'[m][q][i]) \in got' \cup forgotten'
                                           \/ Has(letters'[m], Pair(worker'[m][q][i])))
  BY DEF HeadsWork
<1>1. ASSUME NEW k \in DOMAIN worker[m][q], worker'[m][q][i] = worker[m][q][k], k = i \/ k # 1
      PROVE  /\ worker'[m][q][i].pc \in {"save", "mark"} => i = 1
             /\ worker'[m][q][i].pc = "mark" =>
                   q = "replay" /\ (\/ Pair(worker'[m][q][i]) \in got' \cup forgotten'
                                    \/ Has(letters'[m], Pair(worker'[m][q][i])))
  <2> DEFINE j == worker[m][q][k]
  <2>1. /\ j.pc \in {"save", "mark"} => k = 1
        /\ j.pc = "mark" => q = "replay" /\ (Pair(j) \in got \cup forgotten \/ Has(letters[m], Pair(j)))
    BY DEF HeadsWork
  <2>2. worker[m]["replay"] = << >> => q # "replay"
    OBVIOUS
  <2>3. worker'[m][q][i] = j
    BY <1>1
  <2> HIDE DEF j
  <2> QED
    BY <1>1, <2>1, <2>2, <2>3
<1> QED
  BY <1>1

\* Done: the other jobs stay; the head leaves, or is about to mark.
LEMMA DoneFacts ==
    ASSUME EventsTyped, NEW n \in Gateways, NEW r \in Roles, worker[n][r] # << >>, Done(n, r)
    PROVE  \E w \in Seq(Job), d \in {0, 1} :
              /\ worker' = [worker EXCEPT ![n][r] = w]
              /\ \A i \in DOMAIN w : /\ i \in Nat /\ i + d \in DOMAIN worker[n][r]
                                     /\ \/ w[i] = worker[n][r][i + d] /\ i + d # 1
                                        \/ r = "replay" /\ i = 1 /\ d = 0 /\ w[i] = [worker[n][r][1] EXCEPT !.pc = "mark"]
              /\ \A i \in DOMAIN worker[n][r] : i = 1 \/ (i - d \in DOMAIN w /\ w[i - d] = worker[n][r][i])
<1> DEFINE s == worker[n][r]
<1>1. s \in Seq(Job) /\ s # << >>
  BY DEF EventsTyped
<1>2. CASE r = "replay" /\ Head(s).id > 0
  <2> DEFINE w == [s EXCEPT ![1].pc = "mark"]
  <2>1. worker' = [worker EXCEPT ![n][r] = w]
    BY <1>2 DEF Done, Goto
  <2>2. /\ w \in Seq(Job) /\ DOMAIN w = DOMAIN s /\ w[1] = [s[1] EXCEPT !.pc = "mark"]
        /\ \A i \in DOMAIN s : i # 1 => w[i] = s[i]
        /\ DOMAIN s = 1..Len(s) /\ Len(s) \in Nat
    BY <1>1, HeadChanges
  <2> HIDE DEF w, s
  <2>3. \A i \in DOMAIN s : i \in Nat /\ i + 0 = i /\ i - 0 = i
    BY <2>2
  <2>4. \A i \in DOMAIN w : /\ i \in Nat /\ i + 0 \in DOMAIN s
                            /\ \/ w[i] = s[i + 0] /\ i + 0 # 1
                               \/ r = "replay" /\ i = 1 /\ 0 = 0 /\ w[i] = [s[1] EXCEPT !.pc = "mark"]
    BY <1>2, <2>2, <2>3
  <2>5. \A i \in DOMAIN s : i = 1 \/ (i - 0 \in DOMAIN w /\ w[i - 0] = s[i])
    BY <2>2, <2>3
  <2> QED
    BY <2>1, <2>2, <2>4, <2>5 DEF s
<1>3. CASE ~(r = "replay" /\ Head(s).id > 0)
  <2> DEFINE w == Tail(s)
  <2>1. worker' = [worker EXCEPT ![n][r] = w]
    BY <1>3 DEF Done, NextJob
  <2>2. /\ w \in Seq(Job)
        /\ \A i \in DOMAIN w : i + 1 \in DOMAIN s /\ i + 1 # 1 /\ w[i] = s[i + 1]
        /\ \A i \in DOMAIN s : i # 1 => i - 1 \in DOMAIN w /\ w[i - 1] = s[i]
        /\ \A i \in DOMAIN w : i \in Nat \ {0}
    BY <1>1, HeadLeaves
  <2> QED
    BY <2>1, <2>2
<1> QED
  BY <1>2, <1>3

\* Done keeps EventInv when the delivery at the head, if it has failed, is answered or kept.
LEMMA AfterDone ==
    ASSUME EventInv, NEW n \in Gateways, NEW r \in Roles, worker[n][r] # << >>, Done(n, r),
           UNCHANGED <<emitted, staged, subscriberQueue, subscribers, failed, records>>,
           letters' \in [Gateways -> Seq(Entry)], got \subseteq got', forgotten \subseteq forgotten',
           \A m \in Gateways : \A i \in DOMAIN letters'[m] :
              \/ \E k \in DOMAIN letters[m] : letters'[m][i] = letters[m][k]
              \/ /\ Named(records, letters'[m][i].id, Pair(letters'[m][i]))
                 /\ Pair(letters'[m][i]) \in failed,
           \A m \in Gateways : \A x : Has(letters[m], x) => Has(letters'[m], x) \/ x \in forgotten',
           Pair(Head(worker[n][r])) \in failed =>
              \/ Pair(Head(worker[n][r])) \in got' \cup forgotten'
              \/ Has(letters'[n], Pair(Head(worker[n][r])))
    PROVE  EventInv'
<1> DEFINE s == worker[n][r]
<1>0. EventsTyped /\ WaitsOnce /\ DeliveredOnce /\ RecordsNumbered /\ NumbersRight /\ HeadsWork
      /\ \A x \in failed : Accounted(x)
  BY DEF EventInv
<1>1. PICK w \in Seq(Job), d \in {0, 1} :
              /\ worker' = [worker EXCEPT ![n][r] = w]
              /\ \A i \in DOMAIN w : /\ i \in Nat /\ i + d \in DOMAIN s
                                     /\ \/ w[i] = s[i + d] /\ i + d # 1
                                        \/ r = "replay" /\ i = 1 /\ d = 0 /\ w[i] = [s[1] EXCEPT !.pc = "mark"]
              /\ \A i \in DOMAIN s : i = 1 \/ (i - d \in DOMAIN w /\ w[i - d] = s[i])
  BY <1>0, DoneFacts
<1>2. /\ worker' \in [Gateways -> [Roles -> Seq(Job)]] /\ worker'[n][r] = w
      /\ \A m \in Gateways, q \in Roles : m # n \/ q # r => worker'[m][q] = worker[m][q]
  BY <1>0, <1>1 DEF EventsTyped
<1>3. s \in Seq(Job) /\ Head(s) = s[1] /\ 1 \in DOMAIN s /\ s[1] \in Job
  <2>1. s \in Seq(Job) /\ s # << >>
    BY <1>0 DEF EventsTyped
  <2> QED
    BY <2>1
<1>4. EventsTyped'
  BY <1>0, <1>2 DEF EventsTyped
<1>5. WaitsOnce'
  BY <1>0, QueuesAlone
<1>6. \A i \in DOMAIN w : /\ i \in Nat /\ i + d \in DOMAIN s
                          /\ w[i].event = s[i + d].event /\ w[i].sub = s[i + d].sub /\ w[i].id = s[i + d].id
                          /\ w[i].saved = s[i + d].saved
  <2> TAKE i \in DOMAIN w
  <2>1. CASE w[i] = s[i + d]
    BY <1>1, <2>1
  <2>2. CASE i = 1 /\ d = 0 /\ w[i] = [s[1] EXCEPT !.pc = "mark"]
    <3>1. i + d = 1 /\ s[i + d] \in Job
      BY <1>3, <2>2
    <3> QED
      BY <1>1, <1>3, <2>2, <3>1 DEF Job
  <2> QED
    BY <1>1, <2>1, <2>2
<1>7. DeliveredOnce'
  <2>1. r = "consumer" => \A i \in DOMAIN w : w[i].pc = "deliver" <=> Pair(w[i]) \notin failed'
    <3> SUFFICES ASSUME r = "consumer", NEW i \in DOMAIN w
                 PROVE  w[i].pc = "deliver" <=> Pair(w[i]) \notin failed'
      OBVIOUS
    <3>1. w[i] = Consumer(n)[i + d] /\ i + d \in DOMAIN Consumer(n)
      BY <1>1 DEF Consumer
    <3> QED
      BY <1>0, <3>1 DEF DeliveredOnce
  <2> HIDE DEF s
  <2>2. Continues(worker'[n][r], worker[n][r], d)
    BY <1>2, <1>6 DEF s, Continues
  <2>3. failed' = failed /\ UNCHANGED <<emitted, staged, subscriberQueue>>
    OBVIOUS
  <2> QED
    BY <1>0, <1>2, <2>1, <2>2, <2>3, JobMoves, ZenonT(30)
<1>8. RecordsNumbered'
  BY <1>0 DEF RecordsNumbered
<1>9. NumbersRight'
  <2>1. \A m \in Gateways, q \in Roles : \A i \in DOMAIN worker'[m][q] :
              \/ \E k \in DOMAIN worker[m][q] : worker'[m][q][i] = worker[m][q][k]
              \/ /\ Named(records', worker'[m][q][i].id, Pair(worker'[m][q][i]))
                 /\ Named(records', worker'[m][q][i].saved, Pair(worker'[m][q][i]))
                 /\ q = "replay" => Pair(worker'[m][q][i]) \in failed'
    <3> TAKE m \in Gateways, q \in Roles
    <3> TAKE i \in DOMAIN worker'[m][q]
    <3>1. CASE m # n \/ q # r
      BY <1>2, <3>1
    <3>2. CASE m = n /\ q = r
      <4>1. i \in DOMAIN w /\ i + d \in DOMAIN s /\ worker'[m][q][i] = w[i]
        BY <1>1, <1>2, <3>2
      <4>2. Pair(w[i]) = Pair(s[i + d])
        BY <1>6, <4>1 DEF Pair
      <4>3. /\ Named(records, s[i + d].id, Pair(s[i + d])) /\ Named(records, s[i + d].saved, Pair(s[i + d]))
            /\ r = "replay" => Pair(s[i + d]) \in failed
        BY <1>0, <4>1 DEF NumbersRight
      <4> QED
        BY <1>6, <3>2, <4>1, <4>2, <4>3
    <3> QED
      BY <3>1, <3>2
  <2>2. \A y \in records : \E z \in records' : z.id = y.id /\ Pair(z) = Pair(y)
    OBVIOUS
  <2> QED
    BY <1>0, <2>1, <2>2, NumbersKept
<1>10. HeadsWork'
  <2>1. ASSUME NEW m \in Gateways, NEW q \in Roles, NEW i \in DOMAIN worker'[m][q]
        PROVE \/ \E k \in DOMAIN worker[m][q] :
                    worker'[m][q][i] = worker[m][q][k] /\ (k = i \/ k # 1)
              \/ /\ i = 1 /\ worker'[m][q][i].pc = "mark" /\ q = "replay"
                 /\ \/ Pair(worker'[m][q][i]) \in got' \cup forgotten'
                    \/ Has(letters'[m], Pair(worker'[m][q][i]))
    <3>1. CASE m # n \/ q # r
      BY <1>2, <2>1, <3>1
    <3>2. CASE m = n /\ q = r
      <4>1. i \in DOMAIN w /\ i + d \in DOMAIN s /\ worker'[m][q][i] = w[i]
        BY <1>1, <1>2, <2>1, <3>2
      <4>2. CASE w[i] = s[i + d] /\ i + d # 1
        BY <3>2, <4>1, <4>2
      <4>3. CASE r = "replay" /\ i = 1 /\ d = 0 /\ w[i] = [s[1] EXCEPT !.pc = "mark"]
        <5>1. Pair(w[i]) = Pair(s[1]) /\ w[i].pc = "mark"
          BY <1>3, <4>3 DEF Pair, Job
        <5>2. Pair(s[1]) \in failed
          BY <1>0, <1>3, <4>3 DEF NumbersRight
        <5> QED
          BY <1>3, <3>2, <4>1, <4>3, <5>1, <5>2
      <4> QED
        BY <1>1, <4>1, <4>2, <4>3
    <3> QED
      BY <3>1, <3>2
  <2> HIDE DEF s
  <2> QED
    BY <1>0, <2>1, HeadsKept
<1>11. ASSUME NEW x \in failed' PROVE Accounted(x)'
  <2>1. x \in failed /\ Accounted(x)
    BY <1>0, <1>11
  <2>2. ASSUME NEW m \in Gateways, Has(letters[m], x)
        PROVE  x \in forgotten' \/ \E k \in Gateways : Has(letters'[k], x)
    BY <2>2
  <2>3. ASSUME NEW m \in Gateways, NEW q \in Roles, Has(worker[m][q], x)
        PROVE  x \in got' \cup forgotten' \/ Has(letters'[n], x) \/ Has(worker'[m][q], x)
    <3>1. CASE m # n \/ q # r
      BY <1>2, <2>3, <3>1
    <3>2. CASE m = n /\ q = r
      <4>1. PICK i \in DOMAIN s : Pair(s[i]) = x
        BY <2>3, <3>2 DEF Has
      <4>2. CASE i = 1
        BY <1>3, <2>1, <4>1, <4>2
      <4>3. CASE i # 1
        <5>1. i - d \in DOMAIN worker'[m][q] /\ Pair(worker'[m][q][i - d]) = x
          BY <1>1, <1>2, <3>2, <4>1, <4>3
        <5> QED
          BY <5>1 DEF Has
      <4> QED
        BY <4>2, <4>3
    <3> QED
      BY <3>1, <3>2
  <2> HIDE DEF s
  <2>4. Accounted(x) => \/ x \in got' \cup forgotten' \/ PendingIn(records', x)
                        \/ \E m \in Gateways : Has(letters'[m], x) \/ \E q \in Roles : Has(worker'[m][q], x)
    BY <2>2, <2>3 DEF Accounted
  <2> QED
    BY <2>1, <2>4 DEF Accounted
<1> QED
  BY <1>4, <1>5, <1>7, <1>8, <1>9, <1>10, <1>11 DEF EventInv

\* restoreSubscriberDeadLetter: the new entry is there, and what left is pushed out.
LEMMA RestoredFacts ==
    ASSUME NEW s \in Seq(Entry), NEW e \in Entry
    PROVE  /\ Restored(s, e) \in Seq(Entry)
           /\ \A i \in DOMAIN Restored(s, e) :
                 (\E k \in DOMAIN s : Restored(s, e)[i] = s[k]) \/ Restored(s, e)[i] = e
           /\ Has(Restored(s, e), Pair(e))
           /\ \A x : Has(s, x) => Has(Restored(s, e), x) \/ x \in PushedOut(s)
<1> DEFINE t == IF Len(s) >= DeadLimit THEN Tail(s) ELSE s
<1>1. /\ t \in Seq(Entry)
      /\ \A i \in DOMAIN t : \E k \in DOMAIN s : t[i] = s[k]
      /\ \A x : Has(s, x) => Has(t, x) \/ x \in PushedOut(s)
  <2>1. CASE Len(s) >= DeadLimit
    <3>1. s # << >> /\ t = Tail(s) /\ PushedOut(s) = {Pair(Head(s))}
      BY <2>1, EventDeliveryAssumption DEF PushedOut
    <3>2. /\ Tail(s) \in Seq(Entry) /\ Head(s) = s[1]
          /\ \A i \in DOMAIN Tail(s) : i + 1 \in DOMAIN s /\ Tail(s)[i] = s[i + 1]
          /\ \A i \in DOMAIN s : i # 1 => i - 1 \in DOMAIN Tail(s) /\ Tail(s)[i - 1] = s[i]
      BY <3>1, HeadLeaves
    <3> HIDE DEF t
    <3>3. ASSUME NEW x, Has(s, x) PROVE Has(t, x) \/ x \in PushedOut(s)
      <4>1. PICK i \in DOMAIN s : Pair(s[i]) = x
        BY <3>3 DEF Has
      <4>2. CASE i = 1
        BY <3>1, <3>2, <4>1, <4>2
      <4>3. CASE i # 1
        <5>1. i - 1 \in DOMAIN t /\ Pair(t[i - 1]) = x
          BY <3>1, <3>2, <4>1, <4>3
        <5> QED
          BY <5>1 DEF Has
      <4> QED
        BY <4>2, <4>3
    <3> QED
      BY <3>1, <3>2, <3>3
  <2>2. CASE ~(Len(s) >= DeadLimit)
    BY <2>2
  <2> QED
    BY <2>1, <2>2
<1>2. Restored(s, e) = Append(t, e)
  BY DEF Restored
<1> HIDE DEF t
<1>3. /\ Append(t, e) \in Seq(Entry) /\ DOMAIN Append(t, e) = DOMAIN t \cup {Len(t) + 1}
      /\ Append(t, e)[Len(t) + 1] = e
      /\ \A i \in DOMAIN t : Append(t, e)[i] = t[i]
  BY <1>1, TailEnters
<1>4. Has(Append(t, e), Pair(e)) /\ \A x : Has(t, x) => Has(Append(t, e), x)
  BY <1>3 DEF Has
<1> QED
  BY <1>1, <1>2, <1>3, <1>4

\* A delivery that some record, letter or replay is about, or that has left its first step, has failed.
LEMMA HeadHasFailed ==
    ASSUME EventInv, NEW n \in Gateways, NEW r \in Roles, worker[n][r] # << >>
    PROVE  /\ Head(worker[n][r]) = worker[n][r][1] /\ 1 \in DOMAIN worker[n][r] /\ worker[n][r] \in Seq(Job)
           /\ Head(worker[n][r]) \in Job
           /\ r = "replay" \/ Head(worker[n][r]).pc # "deliver" => Pair(Head(worker[n][r])) \in failed
           /\ r = "consumer" /\ Head(worker[n][r]).pc = "deliver" => Pair(Head(worker[n][r])) \notin failed
<1>1. worker[n][r] \in Seq(Job) /\ DeliveredOnce /\ NumbersRight
  BY DEF EventInv, EventsTyped
<1>2. Head(worker[n][r]) = worker[n][r][1] /\ 1 \in DOMAIN worker[n][r] /\ worker[n][r][1] \in Job
  BY <1>1
<1>3. r = "replay" => Pair(worker[n][r][1]) \in failed
  BY <1>1, <1>2 DEF NumbersRight
<1>4. r = "consumer" => (worker[n][r][1].pc = "deliver" <=> Pair(worker[n][r][1]) \notin failed)
  BY <1>1, <1>2 DEF DeliveredOnce, Consumer
<1> QED
  BY <1>1, <1>2, <1>3, <1>4 DEF Roles

\* The head of a list goes on to save or to keep; a record may come to be.
LEMMA HeadGoesOn ==
    ASSUME EventInv, NEW n \in Gateways, NEW r \in Roles, worker[n][r] # << >>, NEW w \in Seq(Job),
           worker' \in [Gateways -> [Roles -> Seq(Job)]], worker'[n][r] = w,
           \A m \in Gateways, q \in Roles : m # n \/ q # r => worker'[m][q] = worker[m][q],
           DOMAIN w = DOMAIN worker[n][r], \A i \in DOMAIN w : i # 1 => w[i] = worker[n][r][i],
           w[1].event = worker[n][r][1].event, w[1].sub = worker[n][r][1].sub, w[1].id = worker[n][r][1].id,
           w[1].pc \in {"save", "keep"}, Named(records', w[1].saved, Pair(worker[n][r][1])),
           UNCHANGED <<emitted, staged, subscriberQueue, subscribers, letters, got, forgotten>>,
           failed' = failed \cup {Pair(worker[n][r][1])},
           records' \subseteq Record, IsFiniteSet(records'), RecordsNumbered', records \subseteq records'
    PROVE  EventInv'
<1> DEFINE s == worker[n][r]
<1>0. EventsTyped /\ WaitsOnce /\ DeliveredOnce /\ RecordsNumbered /\ NumbersRight /\ HeadsWork
      /\ \A x \in failed : Accounted(x)
  BY DEF EventInv
<1>1. /\ s[1] \in Job /\ 1 \in DOMAIN s /\ s \in Seq(Job)
      /\ r = "replay" => Pair(s[1]) \in failed
  BY HeadHasFailed
<1>2. Pair(w[1]) = Pair(s[1]) /\ 1 \in DOMAIN w
  BY <1>1 DEF Pair
<1>3. EventsTyped'
  BY <1>0 DEF EventsTyped
<1>4. WaitsOnce'
  <2>1. UNCHANGED <<emitted, staged, subscriberQueue>>
    OBVIOUS
  <2> QED
    BY <1>0, <2>1, QueuesAlone
<1>5. DeliveredOnce'
  <2>0. PICK d \in {0, 1} : d = 0
    OBVIOUS
  <2>1. Continues(worker'[n][r], worker[n][r], d)
    <3>1. \A i \in DOMAIN s : i \in Nat /\ i + d = i
      BY <1>1, <2>0
    <3> QED
      BY <1>1, <3>1 DEF Continues
  <2>2. r = "consumer" => \A i \in DOMAIN w : w[i].pc = "deliver" <=> Pair(w[i]) \notin failed'
    <3> SUFFICES ASSUME r = "consumer", NEW i \in DOMAIN w
                 PROVE  w[i].pc = "deliver" <=> Pair(w[i]) \notin failed'
      OBVIOUS
    <3>1. CASE i = 1
      BY <1>2, <3>1
    <3>2. CASE i # 1
      <4>1. w[i] = Consumer(n)[i] /\ i \in DOMAIN Consumer(n) /\ 1 \in DOMAIN Consumer(n) /\ s = Consumer(n)
        BY <1>1, <3>2 DEF Consumer
      <4>2. Pair(Consumer(n)[i]) # Pair(Consumer(n)[1])
        BY <1>0, <3>2, <4>1 DEF DeliveredOnce
      <4>3. w[i].pc = "deliver" <=> Pair(w[i]) \notin failed
        BY <1>0, <4>1 DEF DeliveredOnce
      <4> QED
        BY <4>1, <4>2, <4>3
    <3> QED
      BY <3>1, <3>2
  <2>3. \/ failed' = failed
        \/ r = "consumer" /\ 1 \in DOMAIN worker[n][r] /\ failed' = failed \cup {Pair(worker[n][r][1])}
    BY <1>1 DEF Roles
  <2>4. UNCHANGED <<emitted, staged, subscriberQueue>>
    OBVIOUS
  <2> HIDE DEF s
  <2>5. r = "consumer" => \A i \in DOMAIN worker'[n][r] :
              worker'[n][r][i].pc = "deliver" <=> Pair(worker'[n][r][i]) \notin failed'
    BY <2>2
  <2>6. \A m \in Gateways, q \in Roles : m # n \/ q # r => worker'[m][q] = worker[m][q]
    OBVIOUS
  <2>7. DeliveredOnce
    BY <1>0
  <2> QED
    BY ONLY <2>1, <2>3, <2>4, <2>5, <2>6, <2>7, n \in Gateways, r \in Roles, d \in {0, 1}, JobMoves
<1>6. NumbersRight'
  <2>1. \A m \in Gateways, q \in Roles : \A i \in DOMAIN worker'[m][q] :
              \/ \E k \in DOMAIN worker[m][q] : worker'[m][q][i] = worker[m][q][k]
              \/ /\ Named(records', worker'[m][q][i].id, Pair(worker'[m][q][i]))
                 /\ Named(records', worker'[m][q][i].saved, Pair(worker'[m][q][i]))
                 /\ q = "replay" => Pair(worker'[m][q][i]) \in failed'
    <3> TAKE m \in Gateways, q \in Roles
    <3> TAKE i \in DOMAIN worker'[m][q]
    <3>1. CASE m # n \/ q # r
      BY <3>1
    <3>2. CASE m = n /\ q = r /\ i # 1
      BY <3>2
    <3>3. CASE m = n /\ q = r /\ i = 1
      <4>1. Named(records, s[1].id, Pair(s[1]))
        BY <1>0, <1>1 DEF NumbersRight
      <4>2. Named(records', s[1].id, Pair(s[1]))
        BY <4>1 DEF Named
      <4> QED
        BY <1>2, <3>3, <4>2
    <3> QED
      BY <3>1, <3>2, <3>3
  <2>2. \A y \in records : \E z \in records' : z.id = y.id /\ Pair(z) = Pair(y)
    OBVIOUS
  <2>3. letters' = letters /\ failed \subseteq failed'
    OBVIOUS
  <2> HIDE DEF s
  <2> QED
    BY <1>0, <2>1, <2>2, <2>3, NumbersKept
<1>7. HeadsWork'
  <2>1. ASSUME NEW m \in Gateways, NEW q \in Roles, NEW i \in DOMAIN worker'[m][q]
        PROVE \/ \E k \in DOMAIN worker[m][q] :
                    worker'[m][q][i] = worker[m][q][k] /\ (k = i \/ k # 1)
              \/ worker'[m][q][i].pc \in {"deliver", "keep"}
              \/ i = 1 /\ worker'[m][q][i].pc = "save"
    BY <2>1, ZenonT(30)
  <2>2. letters' = letters /\ got \subseteq got' /\ forgotten \subseteq forgotten'
    OBVIOUS
  <2> HIDE DEF s
  <2> QED
    BY <1>0, <2>1, <2>2, HeadsKept
<1>8. ASSUME NEW x \in failed' PROVE Accounted(x)'
  <2>1. ASSUME NEW m \in Gateways, NEW q \in Roles, Has(worker[m][q], x) PROVE Has(worker'[m][q], x)
    <3>1. CASE m # n \/ q # r
      BY <2>1, <3>1
    <3>2. CASE m = n /\ q = r
      <4>1. PICK i \in DOMAIN s : Pair(s[i]) = x
        BY <2>1, <3>2 DEF Has
      <4>2. Pair(w[i]) = x /\ i \in DOMAIN w
        BY <1>2, <4>1
      <4> QED
        BY <3>2, <4>2 DEF Has
    <3> QED
      BY <3>1, <3>2
  <2>2. CASE x \in failed
    <3>1. Accounted(x)
      BY <1>0, <2>2
    <3>2. PendingIn(records, x) => PendingIn(records', x)
      BY DEF PendingIn
    <3> HIDE DEF s
    <3>3. \/ x \in got' \cup forgotten' \/ PendingIn(records', x)
          \/ \E m \in Gateways : Has(letters'[m], x) \/ \E q \in Roles : Has(worker'[m][q], x)
      BY <2>1, <3>1, <3>2 DEF Accounted
    <3> QED
      BY <3>3 DEF Accounted
  <2>3. CASE x = Pair(s[1])
    <3>1. Has(worker'[n][r], x)
      BY <1>2, <2>3 DEF Has
    <3> QED
      BY <3>1 DEF Accounted
  <2> QED
    BY <1>8, <2>2, <2>3
<1> QED
  BY <1>3, <1>4, <1>5, <1>6, <1>7, <1>8 DEF EventInv

\* deliverSubscriberEvent: declined, taken, or failed.
LEMMA DeliverKeeps ==
    ASSUME EventInv, NEW n \in Gateways, NEW r \in Roles, deliverSubscriberEvent(n, r)
    PROVE  EventInv'
<1> DEFINE s == worker[n][r]
           x == Pair(Head(s))
<1>1. /\ s # << >> /\ Head(s).pc = "deliver"
      /\ UNCHANGED <<emitted, staged, subscriberQueue, subscribers, letters, records>>
  BY DEF deliverSubscriberEvent, emitVars
<1>2. /\ Head(s) = s[1] /\ 1 \in DOMAIN s /\ s \in Seq(Job) /\ s[1] \in Job
      /\ r = "consumer" => x \notin failed
  BY <1>1, HeadHasFailed
<1>3. letters \in [Gateways -> Seq(Entry)] /\ EventsTyped /\ RecordsNumbered /\ NumbersRight
  BY DEF EventInv, EventsTyped
<1>4. ASSUME Done(n, r), UNCHANGED failed, got \subseteq got', forgotten \subseteq forgotten',
             x \in failed => x \in got' \cup forgotten'
      PROVE  EventInv'
  <2>1. UNCHANGED <<emitted, staged, subscriberQueue, subscribers, failed, records>> /\ UNCHANGED letters
    BY <1>1, <1>4
  <2>2. letters' \in [Gateways -> Seq(Entry)] /\ worker[n][r] # << >>
    BY <1>1, <1>3
  <2>3. Pair(Head(worker[n][r])) \in failed => Pair(Head(worker[n][r])) \in got' \cup forgotten'
    BY <1>4
  <2>4. \A m \in Gateways : \A i \in DOMAIN letters'[m] : \E k \in DOMAIN letters[m] : letters'[m][i] = letters[m][k]
    BY <2>1
  <2>5. \A m \in Gateways : \A z : Has(letters[m], z) => Has(letters'[m], z)
    BY <2>1
  <2> HIDE DEF s, x
  <2> QED
    BY <1>4, <2>1, <2>2, <2>3, <2>4, <2>5, AfterDone
<1>5. CASE forgotten' = forgotten \cup (IF r = "replay" THEN {x} ELSE {}) /\ Done(n, r) /\ UNCHANGED <<got, failed>>
  <2>1. x \in failed => x \in forgotten'
    BY <1>2, <1>5 DEF Roles
  <2> QED
    BY <1>4, <1>5, <2>1
<1>6. CASE got' = got \cup {x} /\ Done(n, r) /\ UNCHANGED <<failed, forgotten>>
  BY <1>4, <1>6
<1>7. CASE failed' = failed \cup {x} /\ Goto(n, r, "save") /\ UNCHANGED <<got, forgotten>>
  <2> DEFINE w == [s EXCEPT ![1].pc = "save"]
  <2>1. /\ w \in Seq(Job) /\ DOMAIN w = DOMAIN s /\ w[1] = [s[1] EXCEPT !.pc = "save"]
        /\ \A i \in DOMAIN s : i # 1 => w[i] = s[i]
    BY <1>1, <1>2, HeadChanges
  <2>2. worker' = [worker EXCEPT ![n][r] = w]
    BY <1>7 DEF Goto
  <2> HIDE DEF w
  <2>3. /\ worker' \in [Gateways -> [Roles -> Seq(Job)]] /\ worker'[n][r] = w
        /\ \A m \in Gateways, q \in Roles : m # n \/ q # r => worker'[m][q] = worker[m][q]
    BY <1>3, <2>1, <2>2 DEF EventsTyped
  <2>4. /\ w[1].event = s[1].event /\ w[1].sub = s[1].sub /\ w[1].id = s[1].id /\ w[1].pc = "save"
        /\ w[1].saved = s[1].saved
    BY <1>2, <2>1 DEF Job
  <2>5. Named(records', w[1].saved, Pair(s[1]))
    BY <1>1, <1>2, <1>3, <2>4 DEF NumbersRight
  <2>6. RecordsNumbered' /\ records' \subseteq Record /\ IsFiniteSet(records') /\ records \subseteq records'
    BY <1>1, <1>3, <1>7 DEF RecordsNumbered, EventsTyped
  <2>7. UNCHANGED <<emitted, staged, subscriberQueue, subscribers, letters, got, forgotten>>
    BY <1>1, <1>7
  <2>8. /\ worker[n][r] # << >> /\ DOMAIN w = DOMAIN worker[n][r]
        /\ \A i \in DOMAIN w : i # 1 => w[i] = worker[n][r][i]
        /\ w[1].event = worker[n][r][1].event /\ w[1].sub = worker[n][r][1].sub
        /\ w[1].id = worker[n][r][1].id /\ w[1].pc \in {"save", "keep"}
        /\ Named(records', w[1].saved, Pair(worker[n][r][1]))
        /\ failed' = failed \cup {Pair(worker[n][r][1])} /\ w \in Seq(Job)
    BY <1>1, <1>2, <1>7, <2>1, <2>4, <2>5
  <2> QED
    BY ONLY EventInv, n \in Gateways, r \in Roles, <2>3, <2>6, <2>7, <2>8, HeadGoesOn
<1> QED
  BY <1>5, <1>6, <1>7 DEF deliverSubscriberEvent

\* The number of a new record names no other.
LEMMA NewRecord ==
    ASSUME EventsTyped, RecordsNumbered, NEW e \in Events, NEW b \in Subscribers, <<e, b>> \in failed,
           failed' = failed,
           records' = records \cup {[id |-> nextID, event |-> e, sub |-> b, status |-> "pending"]}
    PROVE  /\ nextID \in Nat \ {0}
           /\ RecordsNumbered' /\ records' \subseteq Record /\ IsFiniteSet(records') /\ records \subseteq records'
           /\ Named(records', nextID, <<e, b>>)
<1> DEFINE z == [id |-> nextID, event |-> e, sub |-> b, status |-> "pending"]
<1>1. IsFiniteSet(records) /\ Cardinality(records) \in Nat /\ nextID = Cardinality(records) + 1
  BY FS_CardinalityType DEF EventsTyped, nextID
<1>2. z \in Record /\ z.id = nextID /\ Pair(z) = <<e, b>>
  BY <1>1 DEF Record, Pair
<1>3. records' = records \cup {z}
  OBVIOUS
<1> HIDE DEF z
<1>4. \A y \in records : y.id # nextID /\ y.id \in Nat /\ y.id <= Cardinality(records)
  BY <1>1 DEF EventsTyped, RecordsNumbered, Record
<1>5. IsFiniteSet(records') /\ Cardinality(records') = Cardinality(records) + 1
  <2>1. z \notin records
    BY <1>2, <1>4
  <2> QED
    BY <1>1, <1>3, <2>1, FS_AddElement
<1>6. RecordsNumbered'
  <2>1. ASSUME NEW y \in records', NEW v \in records', y.id = v.id PROVE y = v
    BY <1>2, <1>3, <1>4, <2>1 DEF RecordsNumbered
  <2>2. ASSUME NEW y \in records' PROVE y.id <= Cardinality(records') /\ Pair(y) \in failed'
    BY <1>1, <1>2, <1>3, <1>4, <1>5, <2>2 DEF RecordsNumbered
  <2> QED
    BY <2>1, <2>2 DEF RecordsNumbered
<1> QED
  BY <1>1, <1>2, <1>3, <1>5, <1>6 DEF EventsTyped, Named

\* SaveSubscriberDeadLetter: the statement makes the record, or fails.
LEMMA SaveKeeps ==
    ASSUME EventInv, NEW n \in Gateways, NEW r \in Roles, SaveSubscriberDeadLetter(n, r)
    PROVE  EventInv'
<1> DEFINE s == worker[n][r]
<1>1. /\ s # << >> /\ Head(s).pc = "save"
      /\ UNCHANGED <<emitted, staged, subscriberQueue, subscribers, letters, got, forgotten>> /\ UNCHANGED failed
  BY DEF SaveSubscriberDeadLetter, emitVars
<1>2. Head(s) = s[1] /\ 1 \in DOMAIN s /\ s \in Seq(Job) /\ s[1] \in Job /\ Pair(s[1]) \in failed
  BY <1>1, HeadHasFailed
<1>3. EventsTyped /\ RecordsNumbered /\ NumbersRight
  BY DEF EventInv
<1>4. ASSUME NEW saved \in Nat, NEW w, w = [s EXCEPT ![1] = [s[1] EXCEPT !.pc = "keep", !.saved = saved]],
             worker' = [worker EXCEPT ![n][r] = w], Named(records', saved, Pair(s[1])),
             RecordsNumbered', records' \subseteq Record, IsFiniteSet(records'), records \subseteq records'
      PROVE  EventInv'
  <2>1. /\ w \in Seq(Job) /\ DOMAIN w = DOMAIN s /\ w[1] = [s[1] EXCEPT !.pc = "keep", !.saved = saved]
        /\ \A i \in DOMAIN s : i # 1 => w[i] = s[i]
    BY <1>1, <1>2, <1>4, HeadChanges
  <2>2. /\ worker' \in [Gateways -> [Roles -> Seq(Job)]] /\ worker'[n][r] = w
        /\ \A m \in Gateways, q \in Roles : m # n \/ q # r => worker'[m][q] = worker[m][q]
    BY <1>3, <1>4, <2>1 DEF EventsTyped
  <2>3. /\ w[1].event = s[1].event /\ w[1].sub = s[1].sub /\ w[1].id = s[1].id /\ w[1].pc = "keep"
        /\ w[1].saved = saved
    BY <1>2, <2>1 DEF Job
  <2>4. /\ worker[n][r] # << >> /\ DOMAIN w = DOMAIN worker[n][r]
        /\ \A i \in DOMAIN w : i # 1 => w[i] = worker[n][r][i]
        /\ w[1].event = worker[n][r][1].event /\ w[1].sub = worker[n][r][1].sub
        /\ w[1].id = worker[n][r][1].id /\ w[1].pc \in {"save", "keep"}
        /\ Named(records', w[1].saved, Pair(worker[n][r][1])) /\ w \in Seq(Job)
        /\ failed' = failed \cup {Pair(worker[n][r][1])}
    BY <1>1, <1>2, <1>4, <2>1, <2>3
  <2>5. UNCHANGED <<emitted, staged, subscriberQueue, subscribers, letters, got, forgotten>>
    BY <1>1
  <2>6. RecordsNumbered' /\ records' \subseteq Record /\ IsFiniteSet(records') /\ records \subseteq records'
    BY <1>4
  <2> QED
    BY ONLY EventInv, n \in Gateways, r \in Roles, <2>2, <2>4, <2>5, <2>6, HeadGoesOn
<1>5. CASE /\ records' = records \cup
                {[id |-> nextID, event |-> s[1].event, sub |-> s[1].sub, status |-> "pending"]}
           /\ worker' = [worker EXCEPT ![n][r][1] = [@ EXCEPT !.pc = "keep", !.saved = nextID]]
  <2>1. s[1].event \in Events /\ s[1].sub \in Subscribers /\ Pair(s[1]) = <<s[1].event, s[1].sub>>
    BY <1>2 DEF Job, Pair
  <2>2. /\ nextID \in Nat /\ Named(records', nextID, Pair(s[1]))
        /\ RecordsNumbered' /\ records' \subseteq Record /\ IsFiniteSet(records') /\ records \subseteq records'
    BY <1>1, <1>2, <1>3, <1>5, <2>1, NewRecord
  <2>3. PICK w : w = [s EXCEPT ![1] = [s[1] EXCEPT !.pc = "keep", !.saved = nextID]]
    OBVIOUS
  <2>4. worker' = [worker EXCEPT ![n][r] = w]
    BY <1>5, <2>3
  <2> QED
    BY <1>4, <2>2, <2>3, <2>4
<1>6. CASE UNCHANGED records /\ Goto(n, r, "keep")
  <2>1. PICK w : w = [s EXCEPT ![1] = [s[1] EXCEPT !.pc = "keep", !.saved = s[1].saved]]
    OBVIOUS
  <2>2. [s[1] EXCEPT !.pc = "keep", !.saved = s[1].saved] = [s[1] EXCEPT !.pc = "keep"] /\ s[1].saved \in Nat
    BY <1>2 DEF Job
  <2>3. worker' = [worker EXCEPT ![n][r] = w]
    BY <1>6, <2>1, <2>2 DEF Goto
  <2>4. Named(records', s[1].saved, Pair(s[1]))
    BY <1>2, <1>3, <1>6 DEF NumbersRight
  <2>5. RecordsNumbered' /\ records' \subseteq Record /\ IsFiniteSet(records') /\ records \subseteq records'
    BY <1>1, <1>3, <1>6 DEF RecordsNumbered, EventsTyped
  <2> QED
    BY <1>4, <2>1, <2>2, <2>3, <2>4, <2>5
<1> QED
  BY <1>2, <1>5, <1>6 DEF SaveSubscriberDeadLetter, SaveFailed

\* storeSubscriberDeadLetter: the entry is kept before the job is done.
LEMMA StoreKeeps ==
    ASSUME EventInv, NEW n \in Gateways, NEW r \in Roles, storeSubscriberDeadLetter(n, r)
    PROVE  EventInv'
<1> DEFINE s == worker[n][r]
           e == [id |-> s[1].saved, event |-> s[1].event, sub |-> s[1].sub]
           old == letters[n]
<1>1. /\ s # << >> /\ Head(s).pc = "keep" /\ Done(n, r) /\ UNCHANGED got
      /\ letters' = [letters EXCEPT ![n] =
                        Restored(@, [id |-> Head(s).saved, event |-> Head(s).event, sub |-> Head(s).sub])]
      /\ forgotten' = forgotten \cup PushedOut(old)
      /\ UNCHANGED <<emitted, staged, subscriberQueue, subscribers, failed, records>>
  BY DEF storeSubscriberDeadLetter, emitVars
<1>2. Head(s) = s[1] /\ 1 \in DOMAIN s /\ s[1] \in Job /\ Pair(s[1]) \in failed
  BY <1>1, HeadHasFailed
<1>3. EventsTyped /\ NumbersRight /\ letters \in [Gateways -> Seq(Entry)]
  BY DEF EventInv, EventsTyped
<1>4. e \in Entry /\ Pair(e) = Pair(s[1]) /\ e.id = s[1].saved
  BY <1>2 DEF Job, Entry, Pair
<1>5. Named(records, e.id, Pair(e))
  BY <1>2, <1>3, <1>4 DEF NumbersRight
<1>6. letters' = [letters EXCEPT ![n] = Restored(old, e)]
  BY <1>1, <1>2
<1> HIDE DEF e
<1>7. /\ Restored(old, e) \in Seq(Entry)
      /\ \A i \in DOMAIN Restored(old, e) : (\E k \in DOMAIN old : Restored(old, e)[i] = old[k]) \/ Restored(old, e)[i] = e
      /\ Has(Restored(old, e), Pair(e))
      /\ \A x : Has(old, x) => Has(Restored(old, e), x) \/ x \in PushedOut(old)
  BY <1>3, <1>4, RestoredFacts
<1>8. /\ letters' \in [Gateways -> Seq(Entry)]
      /\ letters'[n] = Restored(old, e) /\ \A m \in Gateways : m # n => letters'[m] = letters[m]
  BY <1>3, <1>6, <1>7
<1>9. \A m \in Gateways : \A i \in DOMAIN letters'[m] :
              \/ \E k \in DOMAIN letters[m] : letters'[m][i] = letters[m][k]
              \/ /\ Named(records, letters'[m][i].id, Pair(letters'[m][i]))
                 /\ Pair(letters'[m][i]) \in failed
  <2> TAKE m \in Gateways
  <2>1. CASE m # n
    BY <1>8, <2>1
  <2>2. CASE m = n
    BY <1>2, <1>4, <1>5, <1>7, <1>8, <2>2
  <2> QED
    BY <2>1, <2>2
<1>10. \A m \in Gateways : \A x : Has(letters[m], x) => Has(letters'[m], x) \/ x \in forgotten'
  BY <1>1, <1>7, <1>8
<1>11. Has(letters'[n], Pair(Head(worker[n][r]))) /\ worker[n][r] # << >>
  BY <1>1, <1>2, <1>4, <1>7, <1>8
<1>12. got \subseteq got' /\ forgotten \subseteq forgotten'
  BY <1>1
<1> HIDE DEF s, old
<1> QED
  BY <1>1, <1>8, <1>9, <1>10, <1>11, <1>12, AfterDone

\* MarkSubscriberDeadLetter: records keep their number and their delivery, and no two become one.
LEMMA MarkedFacts ==
    ASSUME EventsTyped, RecordsNumbered, NEW ids, NEW status \in {"replayed", "dropped"},
           records' = Marked(ids, status), failed' = failed
    PROVE  /\ RecordsNumbered' /\ records' \subseteq Record /\ IsFiniteSet(records')
           /\ \A y \in records : \E z \in records' : z.id = y.id /\ Pair(z) = Pair(y)
           /\ \A y \in records : y.id \notin ids => y \in records'
<1> DEFINE F(y) == IF y.id \in ids THEN [y EXCEPT !.status = status] ELSE y
           f == [y \in records |-> F(y)]
<1>1. records' = {F(y) : y \in records}
  BY DEF Marked
<1>2. ASSUME NEW y \in records PROVE F(y) \in Record /\ F(y).id = y.id /\ Pair(F(y)) = Pair(y)
  BY DEF EventsTyped, Record, Pair
<1>3. \A y \in records : y.id \notin ids => F(y) = y
  OBVIOUS
<1> HIDE DEF F
<1>4. \A y, v \in records : F(y).id = F(v).id => y = v
  BY <1>2 DEF RecordsNumbered
<1>5. f \in [records -> records'] /\ \A y \in records : f[y] = F(y)
  BY <1>1
<1>6. f \in Bijection(records, records')
  <2> HIDE DEF f
  <2>1. \A z \in records' : \E y \in records : f[y] = z
    BY <1>1, <1>5
  <2>2. \A y, v \in records : f[y] = f[v] => y = v
    BY <1>4, <1>5
  <2> QED
    BY <1>5, <2>1, <2>2 DEF Bijection, Injection, Surjection, IsInjective
<1>7. IsFiniteSet(records') /\ Cardinality(records') = Cardinality(records)
  BY <1>6, FS_Bijection DEF EventsTyped, ExistsBijection
<1>8. ASSUME NEW z \in records' PROVE z.id <= Cardinality(records') /\ Pair(z) \in failed'
  BY <1>1, <1>2, <1>7, <1>8 DEF RecordsNumbered
<1>9. ASSUME NEW z \in records', NEW v \in records', z.id = v.id PROVE z = v
  BY <1>1, <1>4, <1>9
<1>10. RecordsNumbered'
  BY <1>8, <1>9 DEF RecordsNumbered
<1> QED
  BY <1>1, <1>2, <1>3, <1>7, <1>10

\* A replay marks its record: the delivery is answered or kept by then.
LEMMA MarkKeeps ==
    ASSUME EventInv, NEW n \in Gateways, MarkSubscriberDeadLetter(n)
    PROVE  EventInv'
<1> DEFINE s == worker[n]["replay"]
           w == Tail(s)
<1>0. EventsTyped /\ WaitsOnce /\ DeliveredOnce /\ RecordsNumbered /\ NumbersRight /\ HeadsWork
      /\ \A x \in failed : Accounted(x)
  BY DEF EventInv
<1>r. "replay" \in Roles /\ "consumer" \in Roles
  BY DEF Roles
<1>1. /\ s # << >> /\ Head(s).pc = "mark" /\ records' = Marked({Head(s).id}, "replayed")
      /\ worker' = [worker EXCEPT ![n]["replay"] = w]
      /\ UNCHANGED <<emitted, staged, subscriberQueue, subscribers, letters, got, failed, forgotten>>
  BY DEF MarkSubscriberDeadLetter, emitVars, NextJob
<1>2. Head(s) = s[1] /\ 1 \in DOMAIN s /\ s \in Seq(Job) /\ s[1] \in Job
  BY <1>r, <1>1, HeadHasFailed
<1>3. /\ w \in Seq(Job)
      /\ \A i \in DOMAIN w : i \in Nat \ {0} /\ i + 1 \in DOMAIN s /\ i + 1 # 1 /\ w[i] = s[i + 1]
      /\ \A i \in DOMAIN s : i # 1 => i - 1 \in DOMAIN w /\ w[i - 1] = s[i]
  BY <1>1, <1>2, HeadLeaves
<1> HIDE DEF w
<1>4. /\ worker' \in [Gateways -> [Roles -> Seq(Job)]] /\ worker'[n]["replay"] = w
      /\ \A m \in Gateways, q \in Roles : m # n \/ q # "replay" => worker'[m][q] = worker[m][q]
  BY <1>0, <1>1, <1>3, <1>r DEF EventsTyped
<1>5. /\ RecordsNumbered' /\ records' \subseteq Record /\ IsFiniteSet(records')
      /\ \A y \in records : \E z \in records' : z.id = y.id /\ Pair(z) = Pair(y)
      /\ \A y \in records : y.id # s[1].id => y \in records'
  <2>1. /\ RecordsNumbered' /\ records' \subseteq Record /\ IsFiniteSet(records')
        /\ \A y \in records : \E z \in records' : z.id = y.id /\ Pair(z) = Pair(y)
        /\ \A y \in records : y.id \notin {Head(s).id} => y \in records'
    BY <1>0, <1>1, MarkedFacts
  <2> QED
    BY <1>2, <2>1
<1>6. EventsTyped'
  BY <1>0, <1>1, <1>4, <1>5 DEF EventsTyped
<1>7. WaitsOnce' /\ DeliveredOnce'
  <2>1. UNCHANGED <<emitted, staged, subscriberQueue>>
    BY <1>1
  <2>2. \A m \in Gateways : Consumer(m)' = Consumer(m)
    BY <1>4, <1>r DEF Consumer
  <2>3. failed' = failed
    BY <1>1
  <2>4. WaitsOnce'
    BY <1>0, <2>1, QueuesAlone
  <2>5. DeliveredOnce'
    BY <1>0, <2>1, <2>2, <2>3 DEF DeliveredOnce
  <2> QED
    BY <2>4, <2>5
<1>8. \A m \in Gateways, q \in Roles : \A i \in DOMAIN worker'[m][q] :
         \E k \in DOMAIN worker[m][q] : worker'[m][q][i] = worker[m][q][k] /\ (k = i \/ k # 1)
  <2> TAKE m \in Gateways, q \in Roles
  <2> TAKE i \in DOMAIN worker'[m][q]
  <2>1. CASE m # n \/ q # "replay"
    BY <1>4, <2>1
  <2>2. CASE m = n /\ q = "replay"
    <3>1. i + 1 \in DOMAIN s /\ i + 1 # 1 /\ worker'[m][q][i] = s[i + 1]
      BY <1>3, <1>4, <2>2
    <3> QED
      BY <2>2, <3>1
  <2> QED
    BY <2>1, <2>2
<1>9. letters' = letters /\ failed' = failed /\ got' = got /\ forgotten' = forgotten
  BY <1>1
<1>10. NumbersRight'
  <2> HIDE DEF s
  <2>1. \A m \in Gateways : \A i \in DOMAIN letters'[m] : \E k \in DOMAIN letters[m] : letters'[m][i] = letters[m][k]
    BY <1>9
  <2> QED
    BY <1>0, <1>5, <1>8, <1>9, <2>1, NumbersKept
<1>11. HeadsWork'
  BY <1>0, <1>8, <1>9, HeadsKept
<1>12. ASSUME NEW x \in failed' PROVE Accounted(x)'
  <2>1. Accounted(x) /\ x \in failed
    BY <1>0, <1>9, <1>12
  <2>2. CASE x = Pair(s[1])
    <3>1. x \in got \cup forgotten \/ Has(letters[n], x)
      BY <1>0, <1>1, <1>2, <1>r, <2>2 DEF HeadsWork
    <3>2. x \in got' \cup forgotten' \/ Has(letters'[n], x)
      BY <1>9, <3>1
    <3> QED
      BY <3>2 DEF Accounted
  <2>3. CASE x # Pair(s[1])
    <3>1. PendingIn(records, x) => PendingIn(records', x)
      <4> SUFFICES ASSUME NEW y \in records, Pair(y) = x, y.status = "pending" PROVE y \in records'
        BY DEF PendingIn
      <4>1. ASSUME y.id = s[1].id PROVE FALSE
        <5>1. Named(records, s[1].id, Pair(s[1])) /\ y.id # 0
          BY <1>0, <1>2, <1>r DEF NumbersRight, EventsTyped, Record
        <5>2. PICK v \in records : v.id = s[1].id /\ Pair(v) = Pair(s[1])
          BY <4>1, <5>1 DEF Named
        <5> QED
          BY <1>0, <2>3, <4>1, <5>2 DEF RecordsNumbered
      <4> QED
        BY <1>5, <4>1
    <3>2. ASSUME NEW m \in Gateways, NEW q \in Roles, Has(worker[m][q], x) PROVE Has(worker'[m][q], x)
      <4>1. CASE m # n \/ q # "replay"
        BY <1>4, <3>2, <4>1
      <4>2. CASE m = n /\ q = "replay"
        <5>1. PICK i \in DOMAIN s : Pair(s[i]) = x
          BY <3>2, <4>2 DEF Has
        <5>2. i - 1 \in DOMAIN w /\ Pair(w[i - 1]) = x
          BY <1>3, <2>3, <5>1
        <5> QED
          BY <1>4, <4>2, <5>2 DEF Has
      <4> QED
        BY <4>1, <4>2
    <3> HIDE DEF s
    <3>3. \/ x \in got' \cup forgotten' \/ PendingIn(records', x)
          \/ \E m \in Gateways : Has(letters'[m], x) \/ \E q \in Roles : Has(worker'[m][q], x)
      BY <1>9, <2>1, <3>1, <3>2 DEF Accounted
    <3> QED
      BY <3>3 DEF Accounted
  <2> QED
    BY <2>2, <2>3
<1> QED
  BY <1>5, <1>6, <1>7, <1>10, <1>11, <1>12 DEF EventInv

\* A drop forgets what it marks and what it clears.
LEMMA DropKeeps ==
    ASSUME EventInv, NEW n \in Gateways, DropSubscriberDeadLetters(n)
    PROVE  EventInv'
<1>0. EventsTyped /\ WaitsOnce /\ DeliveredOnce /\ RecordsNumbered /\ NumbersRight /\ HeadsWork
      /\ \A x \in failed : Accounted(x)
  BY DEF EventInv
<1>1. /\ records' = Marked(dropping[n], "dropped") /\ letters' = [letters EXCEPT ![n] = << >>]
      /\ forgotten' = forgotten \cup {Pair(letters[n][i]) : i \in DOMAIN letters[n]}
                                \cup {Pair(x) : x \in {y \in records : y.id \in dropping[n]}}
      /\ UNCHANGED <<emitted, staged, subscriberQueue, subscribers, worker, got, failed>>
  BY DEF DropSubscriberDeadLetters, emitVars
<1>2. /\ RecordsNumbered' /\ records' \subseteq Record /\ IsFiniteSet(records')
      /\ \A y \in records : \E z \in records' : z.id = y.id /\ Pair(z) = Pair(y)
      /\ \A y \in records : y.id \notin dropping[n] => y \in records'
  BY <1>0, <1>1, MarkedFacts
<1>3. /\ letters' \in [Gateways -> Seq(Entry)] /\ DOMAIN letters'[n] = {}
      /\ \A m \in Gateways : m # n => letters'[m] = letters[m]
  BY <1>0, <1>1 DEF EventsTyped
<1>4. EventsTyped'
  BY <1>0, <1>1, <1>2, <1>3 DEF EventsTyped
<1>5. WaitsOnce' /\ DeliveredOnce'
  <2>1. UNCHANGED <<emitted, staged, subscriberQueue>>
    BY <1>1
  <2>2. \A m \in Gateways : Consumer(m)' = Consumer(m)
    BY <1>1 DEF Consumer
  <2>3. WaitsOnce'
    BY <1>0, <2>1, QueuesAlone
  <2>4. DeliveredOnce'
    BY <1>0, <1>1, <2>1, <2>2 DEF DeliveredOnce
  <2> QED
    BY <2>3, <2>4
<1>6. \A m \in Gateways : \A i \in DOMAIN letters'[m] : \E k \in DOMAIN letters[m] : letters'[m][i] = letters[m][k]
  BY <1>3
<1>7. \A m \in Gateways : \A x : Has(letters[m], x) => Has(letters'[m], x) \/ x \in forgotten'
  <2> TAKE m \in Gateways
  <2> TAKE x
  <2>1. CASE m # n
    BY <1>3, <2>1
  <2>2. CASE m = n
    BY <1>1, <2>2 DEF Has
  <2> QED
    BY <2>1, <2>2
<1>8. worker' = worker /\ failed' = failed /\ got' = got /\ forgotten \subseteq forgotten'
  BY <1>1
<1>9. NumbersRight'
  BY <1>0, <1>2, <1>6, <1>8, NumbersKept
<1>10. HeadsWork'
  BY <1>0, <1>7, <1>8, HeadsKept
<1>11. ASSUME NEW x \in failed' PROVE Accounted(x)'
  <2>1. Accounted(x)
    BY <1>0, <1>8, <1>11
  <2>2. PendingIn(records, x) => PendingIn(records', x) \/ x \in forgotten'
    BY <1>1, <1>2 DEF PendingIn
  <2>3. \/ x \in got' \cup forgotten' \/ PendingIn(records', x)
        \/ \E m \in Gateways : Has(letters'[m], x) \/ \E q \in Roles : Has(worker'[m][q], x)
    BY <1>7, <1>8, <2>1, <2>2 DEF Accounted
  <2> QED
    BY <2>3 DEF Accounted
<1> QED
  BY <1>2, <1>4, <1>5, <1>9, <1>10, <1>11 DEF EventInv

\* ReplaySubscriberDeadLetters: what it takes out of the memory is at work.
LEMMA ReplayKeeps ==
    ASSUME EventInv, NEW n \in Gateways, NEW dbFails \in BOOLEAN, ReplaySubscriberDeadLetters(n, dbFails)
    PROVE  EventInv'
<1>0. EventsTyped /\ WaitsOnce /\ DeliveredOnce /\ RecordsNumbered /\ NumbersRight /\ HeadsWork
      /\ \A x \in failed : Accounted(x)
  BY DEF EventInv
<1>r. "replay" \in Roles /\ "consumer" \in Roles
  BY DEF Roles
<1>1. PICK found \in pendingSubscriberDeadLetters(n, dbFails) :
         worker' = [worker EXCEPT ![n]["replay"] = [i \in DOMAIN found |-> ReplayJob(n, found[i])]]
  BY DEF ReplaySubscriberDeadLetters
<1>2. /\ worker[n]["replay"] = << >>
      /\ letters' = [letters EXCEPT ![n] = IF FromMemory(dbFails) THEN << >> ELSE @]
      /\ UNCHANGED <<emitted, staged, subscriberQueue, subscribers, records, got, failed, forgotten>>
  BY DEF ReplaySubscriberDeadLetters, emitVars
<1>3. /\ FromMemory(dbFails) => found = letters[n]
      /\ \E k \in Nat : DOMAIN found = 1..k
      /\ \A i \in DOMAIN found :
            /\ found[i].id \in Nat /\ found[i].event \in Events /\ found[i].sub \in Subscribers
            /\ Named(records, found[i].id, Pair(found[i])) /\ Pair(found[i]) \in failed
  <2>1. CASE FromMemory(dbFails)
    <3>1. found = letters[n] /\ letters[n] \in Seq(Entry)
      BY <1>0, <1>1, <2>1 DEF pendingSubscriberDeadLetters, EventsTyped
    <3>2. Len(found) \in Nat /\ DOMAIN found = 1..Len(found) /\ \A i \in DOMAIN found : found[i] \in Entry
      BY <3>1
    <3>3. \A i \in DOMAIN found : Named(records, found[i].id, Pair(found[i])) /\ Pair(found[i]) \in failed
      BY <1>0, <3>1 DEF NumbersRight
    <3> QED
      BY <3>1, <3>2, <3>3 DEF Entry
  <2>2. CASE ~FromMemory(dbFails)
    <3> DEFINE P == PendingSubscriberDeadLetters
    <3>1. found \in [1..Cardinality(P) -> P]
      BY <1>1, <2>2 DEF pendingSubscriberDeadLetters, Ordered
    <3>2. P \subseteq records
      BY DEF PendingSubscriberDeadLetters
    <3> HIDE DEF P
    <3>3. Cardinality(P) \in Nat
      BY <1>0, <3>2, FS_Subset, FS_CardinalityType DEF EventsTyped
    <3>4. ASSUME NEW i \in DOMAIN found
          PROVE  /\ found[i].id \in Nat /\ found[i].event \in Events /\ found[i].sub \in Subscribers
                 /\ Named(records, found[i].id, Pair(found[i])) /\ Pair(found[i]) \in failed
      <4>1. found[i] \in records
        BY <3>1, <3>2, <3>4
      <4> QED
        BY <1>0, <4>1 DEF EventsTyped, RecordsNumbered, Record, Named
    <3> QED
      BY <2>2, <3>1, <3>3, <3>4
  <2> QED
    BY <2>1, <2>2
<1> DEFINE w == [i \in DOMAIN found |-> ReplayJob(n, found[i])]
<1>4. ASSUME NEW i \in DOMAIN found
      PROVE  /\ w[i] \in Job /\ Pair(w[i]) = Pair(found[i]) /\ w[i].pc \in {"deliver", "keep"}
             /\ w[i].id \in {0, found[i].id} /\ w[i].saved \in {0, found[i].id}
  <2>1. found[i].id \in Nat /\ found[i].event \in Events /\ found[i].sub \in Subscribers
    BY <1>3, <1>4
  <2>2. CASE found[i].sub \in subscribers[n]
    <3>1. w[i] = [event |-> found[i].event, sub |-> found[i].sub, id |-> found[i].id, saved |-> 0, pc |-> "deliver"]
      BY <1>4, <2>2 DEF ReplayJob, NewJob
    <3> QED
      BY <2>1, <3>1 DEF Job, Pair
  <2>3. CASE found[i].sub \notin subscribers[n]
    <3>1. w[i] = [event |-> found[i].event, sub |-> found[i].sub, id |-> 0, saved |-> found[i].id, pc |-> "keep"]
      BY <1>4, <2>3 DEF ReplayJob, NewJob
    <3> QED
      BY <2>1, <3>1 DEF Job, Pair
  <2> QED
    BY <2>2, <2>3
<1>5. w \in Seq(Job) /\ DOMAIN w = DOMAIN found
  <2>1. PICK k \in Nat : DOMAIN found = 1..k
    BY <1>3
  <2>2. w \in [1..k -> Job]
    BY <1>4, <2>1
  <2> QED
    BY <2>1, <2>2
<1>6. worker' = [worker EXCEPT ![n]["replay"] = w]
  BY <1>1
<1> HIDE DEF w
<1>7. /\ worker' \in [Gateways -> [Roles -> Seq(Job)]] /\ worker'[n]["replay"] = w
      /\ \A m \in Gateways, q \in Roles : m # n \/ q # "replay" => worker'[m][q] = worker[m][q]
  BY <1>0, <1>5, <1>6, <1>r DEF EventsTyped
<1>8. /\ letters' \in [Gateways -> Seq(Entry)]
      /\ \A m \in Gateways : m # n \/ ~FromMemory(dbFails) => letters'[m] = letters[m]
      /\ FromMemory(dbFails) => DOMAIN letters'[n] = {}
  BY <1>0, <1>2 DEF EventsTyped
<1>9. records' = records /\ failed' = failed /\ got' = got /\ forgotten' = forgotten
      /\ UNCHANGED <<emitted, staged, subscriberQueue>>
  BY <1>2
<1>10. EventsTyped' /\ RecordsNumbered'
  BY <1>0, <1>2, <1>7, <1>8 DEF EventsTyped, RecordsNumbered
<1>11. WaitsOnce' /\ DeliveredOnce'
  <2>1. \A m \in Gateways : Consumer(m)' = Consumer(m)
    BY <1>7, <1>r DEF Consumer
  <2>2. WaitsOnce'
    BY <1>0, <1>9, QueuesAlone
  <2>3. DeliveredOnce'
    BY <1>0, <1>9, <2>1 DEF DeliveredOnce
  <2> QED
    BY <2>2, <2>3
<1>12. NumbersRight'
  <2>1. \A m \in Gateways, q \in Roles : \A i \in DOMAIN worker'[m][q] :
              \/ \E k \in DOMAIN worker[m][q] : worker'[m][q][i] = worker[m][q][k]
              \/ /\ Named(records', worker'[m][q][i].id, Pair(worker'[m][q][i]))
                 /\ Named(records', worker'[m][q][i].saved, Pair(worker'[m][q][i]))
                 /\ q = "replay" => Pair(worker'[m][q][i]) \in failed'
    <3> TAKE m \in Gateways, q \in Roles
    <3> TAKE i \in DOMAIN worker'[m][q]
    <3>1. CASE m # n \/ q # "replay"
      BY <1>7, <3>1
    <3>2. CASE m = n /\ q = "replay"
      <4>1. i \in DOMAIN found /\ worker'[m][q][i] = w[i]
        BY <1>5, <1>7, <3>2
      <4>2. Named(records, 0, Pair(found[i])) /\ Named(records, found[i].id, Pair(found[i])) /\ Pair(found[i]) \in failed
        BY <1>3, <4>1 DEF Named
      <4>3. Pair(w[i]) = Pair(found[i]) /\ w[i].id \in {0, found[i].id} /\ w[i].saved \in {0, found[i].id}
        BY <1>4, <4>1
      <4> QED
        BY <1>9, <4>1, <4>2, <4>3
    <3> QED
      BY <3>1, <3>2
  <2>2. \A m \in Gateways : \A i \in DOMAIN letters'[m] : \E k \in DOMAIN letters[m] : letters'[m][i] = letters[m][k]
    BY <1>8
  <2> QED
    BY <1>0, <1>9, <2>1, <2>2, NumbersKept
<1>13. HeadsWork'
  <2>1. \A m \in Gateways, q \in Roles : \A i \in DOMAIN worker'[m][q] :
              \/ \E k \in DOMAIN worker[m][q] :
                    worker'[m][q][i] = worker[m][q][k] /\ (k = i \/ k # 1)
              \/ worker'[m][q][i].pc \in {"deliver", "keep"}
    BY <1>4, <1>5, <1>7
  <2>2. \A m \in Gateways : \A x : Has(letters[m], x) => Has(letters'[m], x) \/ worker[m]["replay"] = << >>
    BY <1>2, <1>8
  <2> QED
    BY <1>0, <1>9, <2>1, <2>2, HeadsKept
<1>14. ASSUME NEW x \in failed' PROVE Accounted(x)'
  <2>1. Accounted(x)
    BY <1>0, <1>9, <1>14
  <2>2. ASSUME NEW m \in Gateways, Has(letters[m], x) PROVE Has(letters'[m], x) \/ Has(worker'[n]["replay"], x)
    <3>1. CASE m # n \/ ~FromMemory(dbFails)
      BY <1>8, <2>2, <3>1
    <3>2. CASE m = n /\ FromMemory(dbFails)
      <4>1. PICK i \in DOMAIN found : Pair(found[i]) = x
        BY <1>3, <2>2, <3>2 DEF Has
      <4>2. i \in DOMAIN w /\ Pair(w[i]) = x
        BY <1>4, <1>5, <4>1
      <4> QED
        BY <1>7, <4>2 DEF Has
    <3> QED
      BY <3>1, <3>2
  <2>3. ASSUME NEW m \in Gateways, NEW q \in Roles, Has(worker[m][q], x) PROVE Has(worker'[m][q], x)
    <3>1. m # n \/ q # "replay"
      BY <1>2, <2>3 DEF Has
    <3> QED
      BY <1>7, <2>3, <3>1
  <2>4. \/ x \in got' \cup forgotten' \/ PendingIn(records', x)
        \/ \E m \in Gateways : Has(letters'[m], x) \/ \E q \in Roles : Has(worker'[m][q], x)
    BY <1>9, <1>r, <2>1, <2>2, <2>3 DEF Accounted
  <2> QED
    BY <2>4 DEF Accounted
<1> QED
  BY <1>10, <1>11, <1>12, <1>13, <1>14 DEF EventInv

\* The queues move and nothing else: an event waits that waited before, or that is new.
LEMMA QueuesMove ==
    ASSUME EventInv, WaitsOnce', EventsTyped', emitted \subseteq emitted',
           \A e : Waits(staged', subscriberQueue', e) => Waits(staged, subscriberQueue, e) \/ e \notin emitted,
           UNCHANGED <<worker, records, letters, got, failed, forgotten>>
    PROVE  EventInv'
<1>0. DeliveredOnce /\ RecordsNumbered /\ NumbersRight /\ HeadsWork /\ \A x \in failed : Accounted(x)
  BY DEF EventInv
<1>1. DeliveredOnce'
  <2>1. \A n \in Gateways : Consumer(n)' = Consumer(n)
    BY DEF Consumer
  <2>2. failed' = failed
    OBVIOUS
  <2> QED
    BY <1>0, <2>1, <2>2 DEF DeliveredOnce
<1>2. RecordsNumbered' /\ NumbersRight' /\ HeadsWork'
  BY <1>0 DEF RecordsNumbered, NumbersRight, HeadsWork
<1>3. \A x \in failed' : Accounted(x)'
  BY <1>0 DEF Accounted
<1> QED
  BY <1>1, <1>2, <1>3 DEF EventInv

\* queueEvent: a new event.
LEMMA QueueEventKeeps ==
    ASSUME EventInv, NEW n \in Gateways, NEW e \in Events, NEW valid \in BOOLEAN, queueEvent(n, e, valid)
    PROVE  EventInv'
<1>0. EventsTyped /\ WaitsOnce
  BY DEF EventInv
<1>1. /\ e \notin emitted /\ emitted' = emitted \cup {e}
      /\ staged' \in {staged, staged \cup {[node |-> n, event |-> e, valid |-> valid]}}
      /\ UNCHANGED <<subscriberQueue, subscribers, worker, records, letters, got, failed, forgotten>>
  BY DEF queueEvent, deadVars
<1>2. EventsTyped'
  BY <1>0, <1>1 DEF EventsTyped
<1>3. \A x \in staged' : x \in staged \/ (x.event = e /\ x = [node |-> n, event |-> e, valid |-> valid])
  BY <1>1
<1>4. ~Waits(staged, subscriberQueue, e)
  BY <1>0, <1>1 DEF WaitsOnce
<1>5. \A v : Waits(staged', subscriberQueue', v) => Waits(staged, subscriberQueue, v) \/ v = e
  BY <1>1, <1>3 DEF Waits
<1>6. WaitsOnce'
  <2>1. \A x, y \in staged' : x.event = y.event => x = y
    BY <1>0, <1>3, <1>4 DEF WaitsOnce, Waits
  <2>2. \A x \in staged', m \in Gateways :
          \A i \in DOMAIN subscriberQueue'[m] : subscriberQueue'[m][i] # x.event
    BY <1>0, <1>1, <1>3, <1>4 DEF WaitsOnce, Waits
  <2>3. \A v \in Events : Waits(staged', subscriberQueue', v) => v \in emitted'
    BY <1>0, <1>1, <1>5 DEF WaitsOnce
  <2> QED
    BY <1>0, <1>1, <2>1, <2>2, <2>3 DEF WaitsOnce
<1>7. UNCHANGED <<worker, records, letters, got, failed, forgotten>> /\ emitted \subseteq emitted'
  BY <1>1
<1> QED
  BY <1>1, <1>2, <1>5, <1>6, <1>7, QueuesMove

\* queueSubscriberEvent: from one queue to the other, or gone.
LEMMA QueueSubscriberKeeps ==
    ASSUME EventInv, NEW x \in staged, queueSubscriberEvent(x)
    PROVE  EventInv'
<1> DEFINE n == x.node
           q == subscriberQueue[n]
<1>0. EventsTyped /\ WaitsOnce
  BY DEF EventInv
<1>1. /\ staged' = staged \ {x} /\ UNCHANGED <<emitted, subscribers, worker, records, letters, got, failed, forgotten>>
      /\ subscriberQueue' \in {subscriberQueue, [subscriberQueue EXCEPT ![n] = Append(q, x.event)]}
  BY DEF queueSubscriberEvent, deadVars
<1>2. n \in Gateways /\ x.event \in Events /\ q \in Seq(Events) /\ subscriberQueue \in [Gateways -> Seq(Events)]
  BY <1>0 DEF EventsTyped
<1>3. /\ Append(q, x.event) \in Seq(Events) /\ DOMAIN Append(q, x.event) = DOMAIN q \cup {Len(q) + 1}
      /\ Append(q, x.event)[Len(q) + 1] = x.event /\ Len(q) + 1 \notin DOMAIN q
      /\ \A i \in DOMAIN q : Append(q, x.event)[i] = q[i]
  BY <1>2, TailEnters
<1>4. subscriberQueue' \in [Gateways -> Seq(Events)]
  BY <1>1, <1>2, <1>3
<1>5. EventsTyped'
  BY <1>0, <1>1, <1>4 DEF EventsTyped
<1>6. \A m \in Gateways : \A i \in DOMAIN subscriberQueue'[m] :
         \/ i \in DOMAIN subscriberQueue[m] /\ subscriberQueue'[m][i] = subscriberQueue[m][i]
         \/ m = n /\ i = Len(q) + 1 /\ subscriberQueue'[m][i] = x.event
  BY <1>1, <1>2, <1>3
<1> HIDE DEF q, n
<1>7. \A v : Waits(staged', subscriberQueue', v) => Waits(staged, subscriberQueue, v)
  BY <1>1, <1>6 DEF Waits
<1>8. WaitsOnce'
  <2>1. \A y, z \in staged' : y.event = z.event => y = z
    BY <1>0, <1>1 DEF WaitsOnce
  <2>2. ASSUME NEW y \in staged', NEW m \in Gateways, NEW i \in DOMAIN subscriberQueue'[m]
        PROVE  subscriberQueue'[m][i] # y.event
    <3>1. y \in staged /\ y # x
      BY <1>1, <2>2
    <3>2. y.event # x.event
      BY <1>0, <3>1 DEF WaitsOnce
    <3> QED
      BY <1>0, <1>6, <3>1, <3>2 DEF WaitsOnce
  <2>3. ASSUME NEW m \in Gateways, NEW k \in Gateways, NEW i \in DOMAIN subscriberQueue'[m],
               NEW j \in DOMAIN subscriberQueue'[k], subscriberQueue'[m][i] = subscriberQueue'[k][j]
        PROVE  m = k /\ i = j
    <3>1. \A l \in Gateways : \A b \in DOMAIN subscriberQueue[l] : subscriberQueue[l][b] # x.event
      BY <1>0 DEF WaitsOnce
    <3> QED
      BY <1>0, <1>6, <2>3, <3>1 DEF WaitsOnce
  <2>4. \A v \in Events : Waits(staged', subscriberQueue', v) => v \in emitted'
    BY <1>0, <1>1, <1>7 DEF WaitsOnce
  <2> QED
    BY <2>1, <2>2, <2>3, <2>4 DEF WaitsOnce
<1>9. UNCHANGED <<worker, records, letters, got, failed, forgotten>> /\ emitted \subseteq emitted'
  BY <1>1
<1> QED
  BY <1>5, <1>7, <1>8, <1>9, QueuesMove

\* consumeSubscriberEvents: the event leaves its queue for the consumer, one job per subscriber.
LEMMA ConsumeKeeps ==
    ASSUME EventInv, NEW n \in Gateways, consumeSubscriberEvents(n)
    PROVE  EventInv'
<1> DEFINE q == subscriberQueue[n]
           e == Head(q)
<1>0. EventsTyped /\ WaitsOnce /\ DeliveredOnce /\ RecordsNumbered /\ NumbersRight /\ HeadsWork
      /\ \A x \in failed : Accounted(x)
  BY DEF EventInv
<1>r. "replay" \in Roles /\ "consumer" \in Roles
  BY DEF Roles
<1>1. PICK js \in JobsOf(n, e) : worker' = [worker EXCEPT ![n]["consumer"] = js]
  BY DEF consumeSubscriberEvents
<1>2. /\ q # << >> /\ worker[n]["consumer"] = << >>
      /\ subscriberQueue' = [subscriberQueue EXCEPT ![n] = Tail(q)]
      /\ UNCHANGED <<emitted, staged, subscribers, records, letters, got, failed, forgotten>>
  BY DEF consumeSubscriberEvents, emitVars, deadVars
<1>3. /\ q \in Seq(Events) /\ Tail(q) \in Seq(Events) /\ e = q[1] /\ 1 \in DOMAIN q /\ e \in Events
      /\ \A i \in DOMAIN Tail(q) : i + 1 \in DOMAIN q /\ i + 1 # 1 /\ Tail(q)[i] = q[i + 1]
      /\ \A i \in DOMAIN Tail(q) : i \in Nat \ {0}
  <2>1. q \in Seq(Events)
    BY <1>0 DEF EventsTyped
  <2>2. \A i \in DOMAIN q : q[i] \in Events
    BY <2>1
  <2> HIDE DEF q
  <2> QED
    BY <1>2, <2>1, <2>2, HeadLeaves
<1>4. /\ Waits(staged, subscriberQueue, e)
      /\ \A x \in staged : x.event # e
      /\ \A m \in Gateways : \A i \in DOMAIN subscriberQueue[m] :
            subscriberQueue[m][i] = e => m = n /\ i = 1
  BY <1>0, <1>3 DEF Waits, WaitsOnce
<1>5. e \in emitted /\ \A x \in failed : x[1] # e
  BY <1>0, <1>3, <1>4 DEF WaitsOnce, DeliveredOnce
<1>6. /\ \A m \in Gateways : m # n => subscriberQueue'[m] = subscriberQueue[m]
      /\ subscriberQueue'[n] = Tail(q)
      /\ subscriberQueue' \in [Gateways -> Seq(Events)]
  BY <1>0, <1>2, <1>3 DEF EventsTyped
<1>7. /\ \A m \in Gateways : \A i \in DOMAIN subscriberQueue'[m] :
            LET k == IF m = n THEN i + 1 ELSE i
            IN  k \in DOMAIN subscriberQueue[m] /\ subscriberQueue'[m][i] = subscriberQueue[m][k]
      /\ \A m \in Gateways : \A i \in DOMAIN subscriberQueue'[m] : subscriberQueue'[m][i] # e
  <2>1. ASSUME NEW m \in Gateways, NEW i \in DOMAIN subscriberQueue'[m]
        PROVE  LET k == IF m = n THEN i + 1 ELSE i
               IN  /\ k \in DOMAIN subscriberQueue[m] /\ subscriberQueue'[m][i] = subscriberQueue[m][k]
                   /\ subscriberQueue[m][k] # e
    <3>1. CASE m = n
      <4>1. subscriberQueue[m] = q /\ i \in DOMAIN Tail(q) /\ subscriberQueue'[m][i] = Tail(q)[i]
        BY <1>6, <2>1, <3>1
      <4>2. i + 1 \in DOMAIN q /\ i + 1 # 1 /\ Tail(q)[i] = q[i + 1]
        BY <1>3, <4>1
      <4>3. q[i + 1] # e
        BY <1>4, <4>2
      <4> QED
        BY <3>1, <4>1, <4>2, <4>3
    <3>2. CASE m # n
      <4>1. subscriberQueue'[m] = subscriberQueue[m] /\ i \in DOMAIN subscriberQueue[m]
        BY <1>6, <2>1, <3>2
      <4>2. subscriberQueue[m][i] # e
        BY <1>4, <3>2, <4>1
      <4> QED
        BY <3>2, <4>1, <4>2
    <3> QED
      BY <3>1, <3>2
  <2> QED
    BY <2>1
<1>8. /\ \A v : Waits(staged', subscriberQueue', v) => Waits(staged, subscriberQueue, v)
      /\ ~Waits(staged', subscriberQueue', e)
  BY <1>2, <1>4, <1>7 DEF Waits
<1>9. WaitsOnce'
  <2>1. \A y, z \in staged' : y.event = z.event => y = z
    BY <1>0, <1>2 DEF WaitsOnce
  <2>2. \A y \in staged', m \in Gateways :
          \A i \in DOMAIN subscriberQueue'[m] : subscriberQueue'[m][i] # y.event
    BY <1>0, <1>2, <1>7 DEF WaitsOnce
  <2>3. ASSUME NEW m \in Gateways, NEW k \in Gateways, NEW i \in DOMAIN subscriberQueue'[m],
               NEW j \in DOMAIN subscriberQueue'[k], subscriberQueue'[m][i] = subscriberQueue'[k][j]
        PROVE  m = k /\ i = j
    <3> DEFINE a == IF m = n THEN i + 1 ELSE i
               b == IF k = n THEN j + 1 ELSE j
    <3>1. m = k /\ a = b
      BY <1>0, <1>7, <2>3 DEF WaitsOnce
    <3>2. m = n => i \in Nat /\ j \in Nat
      BY <1>3, <1>6, <3>1
    <3> QED
      BY <3>1, <3>2
  <2>4. \A v \in Events : Waits(staged', subscriberQueue', v) => v \in emitted'
    BY <1>0, <1>2, <1>8 DEF WaitsOnce
  <2> QED
    BY <2>1, <2>2, <2>3, <2>4 DEF WaitsOnce
<1>10. /\ js \in Seq(Job)
       /\ \A i \in DOMAIN js : js[i] \in Job /\ js[i].event = e /\ js[i].id = 0 /\ js[i].saved = 0 /\ js[i].pc = "deliver"
       /\ \A i, j \in DOMAIN js : Pair(js[i]) = Pair(js[j]) => i = j
  <2> DEFINE N == Cardinality(subscribers[n])
             J == {NewJob(e, s, 0) : s \in subscribers[n]}
  <2>1. subscribers[n] \subseteq Subscribers
    BY <1>0 DEF EventsTyped
  <2>2. N \in Nat
    BY <2>1, EventDeliveryAssumption, FS_Subset, FS_CardinalityType
  <2>3. js \in [1..N -> J] /\ \A i, j \in DOMAIN js : i # j => js[i] # js[j]
    BY <1>1 DEF JobsOf
  <2>4. ASSUME NEW x \in J
        PROVE  x \in Job /\ x.event = e /\ x = NewJob(e, x.sub, 0)
               /\ x.id = 0 /\ x.saved = 0 /\ x.pc = "deliver"
    BY <1>3, <2>1 DEF NewJob, Job
  <2> HIDE DEF N, J
  <2>5. \A i \in DOMAIN js : js[i] \in J
    BY <2>3
  <2>6. js \in Seq(Job)
    <3>1. js \in [1..N -> Job]
      BY <2>3, <2>4
    <3> QED
      BY <2>2, <3>1
  <2>7. ASSUME NEW i \in DOMAIN js, NEW j \in DOMAIN js, Pair(js[i]) = Pair(js[j]) PROVE i = j
    <3>1. js[i].sub = js[j].sub
      BY <2>7 DEF Pair
    <3>2. js[i] = js[j]
      BY <2>4, <2>5, <3>1
    <3> QED
      BY <2>3, <3>2
  <2> QED
    BY <2>4, <2>5, <2>6, <2>7
<1>11. /\ worker' \in [Gateways -> [Roles -> Seq(Job)]] /\ worker'[n]["consumer"] = js
       /\ \A m \in Gateways, r \in Roles : m # n \/ r # "consumer" => worker'[m][r] = worker[m][r]
  BY <1>0, <1>1, <1>10, <1>r DEF EventsTyped
<1>12. EventsTyped' /\ RecordsNumbered'
  BY <1>0, <1>2, <1>6, <1>11 DEF EventsTyped, RecordsNumbered
<1>13. DeliveredOnce'
  <2>1. Consumer(n)' = js /\ \A m \in Gateways : m # n => Consumer(m)' = Consumer(m)
    BY <1>11, <1>r DEF Consumer
  <2>2. \A i \in DOMAIN js : Pair(js[i]) \notin failed /\ Pair(js[i])[1] = e
    BY <1>5, <1>10 DEF Pair
  <2>3. \A m \in Gateways : \A i \in DOMAIN Consumer(m) : Consumer(m)[i].event # e
    BY <1>0, <1>4 DEF DeliveredOnce
  <2>4. ASSUME NEW m \in Gateways, NEW i \in DOMAIN Consumer(m)'
        PROVE  /\ Consumer(m)'[i].event \in emitted'
               /\ ~Waits(staged', subscriberQueue', Consumer(m)'[i].event)
               /\ Consumer(m)'[i].pc = "deliver" <=> Pair(Consumer(m)'[i]) \notin failed'
    <3>1. CASE m = n
      BY <1>2, <1>5, <1>8, <1>10, <2>1, <2>2, <2>4, <3>1
    <3>2. CASE m # n
      <4>1. Consumer(m)' = Consumer(m) /\ i \in DOMAIN Consumer(m)
        BY <2>1, <2>4, <3>2
      <4>2. /\ Consumer(m)[i].event \in emitted /\ ~Waits(staged, subscriberQueue, Consumer(m)[i].event)
            /\ Consumer(m)[i].pc = "deliver" <=> Pair(Consumer(m)[i]) \notin failed
        BY <1>0, <4>1 DEF DeliveredOnce
      <4> QED
        BY <1>2, <1>8, <4>1, <4>2
    <3> QED
      BY <3>1, <3>2
  <2>5. ASSUME NEW m \in Gateways, NEW k \in Gateways, NEW i \in DOMAIN Consumer(m)', NEW j \in DOMAIN Consumer(k)',
               Pair(Consumer(m)'[i]) = Pair(Consumer(k)'[j])
        PROVE  m = k /\ i = j
    <3>1. Consumer(m)'[i].event = Consumer(k)'[j].event
      BY <2>5 DEF Pair
    <3>2. CASE m = n /\ k = n
      BY <1>10, <2>1, <2>5, <3>2
    <3>3. CASE m = n /\ k # n
      BY <1>10, <2>1, <2>3, <2>5, <3>1, <3>3
    <3>4. CASE m # n /\ k = n
      BY <1>10, <2>1, <2>3, <2>5, <3>1, <3>4
    <3>5. CASE m # n /\ k # n
      BY <1>0, <2>1, <2>5, <3>5 DEF DeliveredOnce
    <3> QED
      BY <3>2, <3>3, <3>4, <3>5
  <2>6. \A x \in failed' : x[1] \in emitted' /\ ~Waits(staged', subscriberQueue', x[1])
    BY <1>0, <1>2, <1>8 DEF DeliveredOnce
  <2> QED
    BY <2>4, <2>5, <2>6 DEF DeliveredOnce
<1>14. NumbersRight'
  <2>1. \A m \in Gateways, r \in Roles : \A i \in DOMAIN worker'[m][r] :
              \/ \E k \in DOMAIN worker[m][r] : worker'[m][r][i] = worker[m][r][k]
              \/ /\ Named(records', worker'[m][r][i].id, Pair(worker'[m][r][i]))
                 /\ Named(records', worker'[m][r][i].saved, Pair(worker'[m][r][i]))
                 /\ r = "replay" => Pair(worker'[m][r][i]) \in failed'
    <3> TAKE m \in Gateways, r \in Roles
    <3> TAKE i \in DOMAIN worker'[m][r]
    <3>1. CASE m # n \/ r # "consumer"
      BY <1>11, <3>1
    <3>2. CASE m = n /\ r = "consumer"
      BY <1>10, <1>11, <3>2 DEF Named
    <3> QED
      BY <3>1, <3>2
  <2>2. \A m \in Gateways : \A i \in DOMAIN letters'[m] : \E k \in DOMAIN letters[m] : letters'[m][i] = letters[m][k]
    BY <1>2
  <2>3. failed' = failed /\ records' = records
    BY <1>2
  <2> QED
    BY <1>0, <2>1, <2>2, <2>3, NumbersKept
<1>15. HeadsWork'
  <2>1. \A m \in Gateways, r \in Roles : \A i \in DOMAIN worker'[m][r] :
              \/ \E k \in DOMAIN worker[m][r] :
                    worker'[m][r][i] = worker[m][r][k] /\ (k = i \/ k # 1)
              \/ worker'[m][r][i].pc \in {"deliver", "keep"}
    BY <1>10, <1>11
  <2>2. letters' = letters /\ got' = got /\ forgotten' = forgotten
    BY <1>2
  <2>3. \A m \in Gateways : \A x : Has(letters[m], x) => Has(letters'[m], x)
    BY <2>2
  <2> QED
    BY <1>0, <2>1, <2>2, <2>3, HeadsKept
<1>16. ASSUME NEW x \in failed' PROVE Accounted(x)'
  <2>1. Accounted(x)
    BY <1>0, <1>2, <1>16
  <2>2. ASSUME NEW m \in Gateways, NEW r \in Roles, Has(worker[m][r], x) PROVE Has(worker'[m][r], x)
    <3>1. m # n \/ r # "consumer"
      BY <1>2, <2>2 DEF Has
    <3> QED
      BY <1>11, <2>2, <3>1
  <2>3. \/ x \in got' \cup forgotten' \/ PendingIn(records', x)
        \/ \E m \in Gateways : Has(letters'[m], x) \/ \E r \in Roles : Has(worker'[m][r], x)
    BY <1>2, <2>1, <2>2 DEF Accounted
  <2> QED
    BY <2>3 DEF Accounted
<1> QED
  BY <1>9, <1>12, <1>13, <1>14, <1>15, <1>16 DEF EventInv

\* EventInv holds at the start and is kept by every step.
LEMMA EventInductive ==
    /\ EventInit => EventInv
    /\ EventInv /\ [EventNext]_eventVars => EventInv'
<1>1. ASSUME EventInit PROVE EventInv
  <2>1. EventsTyped
    BY <1>1, FS_EmptySet DEF EventInit, EventsTyped
  <2>2. /\ \A n \in Gateways : DOMAIN subscriberQueue[n] = {} /\ DOMAIN letters[n] = {}
        /\ \A n \in Gateways, r \in Roles : DOMAIN worker[n][r] = {}
    BY <1>1 DEF EventInit
  <2>3. WaitsOnce
    BY <1>1, <2>2 DEF EventInit, WaitsOnce, Waits
  <2>4. DeliveredOnce
    BY <1>1, <2>2 DEF EventInit, DeliveredOnce, Consumer, Roles
  <2>5. RecordsNumbered /\ NumbersRight /\ HeadsWork /\ \A x \in failed : Accounted(x)
    BY <1>1, <2>2 DEF EventInit, RecordsNumbered, NumbersRight, HeadsWork
  <2> QED
    BY <2>1, <2>3, <2>4, <2>5 DEF EventInv
<1>2. ASSUME EventInv, [EventNext]_eventVars PROVE EventInv'
  <2>0. EventsTyped /\ WaitsOnce
    BY <1>2 DEF EventInv
  \* The steps that touch neither the deliveries nor the queue before them.
  <2>1. ASSUME UNCHANGED <<emitted, staged, subscriberQueue, worker, records, letters, got, failed, forgotten>>,
               subscribers' \in [Gateways -> SUBSET Subscribers]
        PROVE  EventInv'
    <3>1. WaitsOnce'
      BY <2>0, <2>1, QueuesAlone
    <3>2. EventsTyped'
      BY <2>0, <2>1 DEF EventsTyped
    <3>3. emitted \subseteq emitted' /\ UNCHANGED <<worker, records, letters, got, failed, forgotten>>
          /\ \A v : Waits(staged', subscriberQueue', v) => Waits(staged, subscriberQueue, v) \/ v \notin emitted
      BY <2>1
    <3> QED
      BY <1>2, <3>1, <3>2, <3>3, QueuesMove
  <2>2. subscribers \in [Gateways -> SUBSET Subscribers]
    BY <2>0 DEF EventsTyped
  <2>3. CASE UNCHANGED eventVars
    BY <2>1, <2>2, <2>3 DEF eventVars, emitVars, deadVars
  <2>4. CASE \E n \in Gateways, e \in Events, valid \in BOOLEAN : queueEvent(n, e, valid)
    BY <1>2, <2>4, QueueEventKeeps
  <2>5. CASE \E x \in staged : queueSubscriberEvent(x)
    BY <1>2, <2>5, QueueSubscriberKeeps
  <2>6. ASSUME NEW n \in Gateways, NEW subs \in SUBSET Subscribers, SetSubscribers(n, subs) PROVE EventInv'
    BY <2>1, <2>2, <2>6 DEF SetSubscribers, emitVars, deadVars
  <2>7. ASSUME NEW n \in Gateways, consumeEvents(n) PROVE EventInv'
    BY <2>1, <2>2, <2>7 DEF consumeEvents, deadVars
  <2>8. ASSUME NEW n \in Gateways, consumeSubscriberEvents(n) PROVE EventInv'
    BY <1>2, <2>8, ConsumeKeeps
  <2>9. ASSUME NEW n \in Gateways, NEW r \in Roles, deliverSubscriberEvent(n, r) PROVE EventInv'
    BY <1>2, <2>9, DeliverKeeps
  <2>10. ASSUME NEW n \in Gateways, NEW r \in Roles, SaveSubscriberDeadLetter(n, r) PROVE EventInv'
    BY <1>2, <2>10, SaveKeeps
  <2>11. ASSUME NEW n \in Gateways, NEW r \in Roles, storeSubscriberDeadLetter(n, r) PROVE EventInv'
    BY <1>2, <2>11, StoreKeeps
  <2>12. ASSUME NEW n \in Gateways, NEW dbFails \in BOOLEAN, ReplaySubscriberDeadLetters(n, dbFails) PROVE EventInv'
    BY <1>2, <2>12, ReplayKeeps
  <2>13. ASSUME NEW n \in Gateways, MarkSubscriberDeadLetter(n) PROVE EventInv'
    BY <1>2, <2>13, MarkKeeps
  <2>14. ASSUME NEW n \in Gateways, ListDropped(n) PROVE EventInv'
    BY <2>1, <2>2, <2>14 DEF ListDropped, emitVars
  <2>15. ASSUME NEW n \in Gateways, DropSubscriberDeadLetters(n) PROVE EventInv'
    BY <1>2, <2>15, DropKeeps
  <2>16. ASSUME NEW n \in Gateways, CloseQueues(n) PROVE EventInv'
    BY <2>1, <2>2, <2>16 DEF CloseQueues, emitVars, deadVars
  <2> QED
    BY <1>2, <2>3, <2>4, <2>5, <2>6, <2>7, <2>8, <2>9, <2>10, <2>11, <2>12, <2>13, <2>14, <2>15, <2>16 DEF EventNext
<1> QED
  BY <1>1, <1>2

\* A delivery whose retries are used up stays on record until it succeeds or is given up in a
\* counted way, for any number of nodes, events and subscribers, whatever fails in between
\* (operations.go: storeSubscriberDeadLetter, ReplaySubscriberDeadLetters, DropSubscriberDeadLetters).
THEOREM FailedIsAccountedAlways == EventSpec => []FailedIsAccounted
<1>1. EventInv => FailedIsAccounted
  BY DEF EventInv, FailedIsAccounted, Accounted, Has, PendingIn
<1> QED
  BY <1>1, EventInductive, PTL DEF EventSpec

-----------------------------------------------------------------------------
(* Plugin storage (PluginStore).  The quota is not inductive: a write that   *)
(* has passed its check must still fit when its row is written, although     *)
(* the usage, the old size and the write are three statements and deletions, *)
(* the collector and other items' writes come in between.                    *)

Kinds == {"data", "file", "diagnostic"}
Rec == [size : Nat, exp : Nat]
Table == [Items -> Rec \cup {NoRow}]

\* What the rows of a table account for, in all, by one item and by the others.
BytesIn(table, kind) ==
    UNION {{x} \X (1..table[x].size) : x \in {y \in Items : KindOf[y] = kind /\ table[y] # NoRow}}
SizeIn(table, x) == IF table[x] = NoRow THEN 0 ELSE table[x].size
OthersIn(table, x) == {b \in BytesIn(table, KindOf[x]) : b[1] # x}

Call ==
    {NoCall} \cup [op : {"delete"}, item : Items]
        \cup [op : {"write"}, item : Items, pc : {"check", "disk", "row"}, size : Nat, exp : Nat, usage : Nat]

Writing(c) == caller[c].op = "write"

StoreTyped ==
    /\ clock \in Nat /\ crowded \in BOOLEAN
    /\ row \in Table /\ caller \in [Callers -> Call]
    /\ \A kind \in Kinds : IsFiniteSet(BytesIn(row, kind))

\* A write that is alone with its kind has read no less than what is there, and once it has passed
\* its check it fits beside the others.
Fits(table, w) ==
    w.op = "write" /\ KindOf[w.item] # "diagnostic" =>
        /\ w.pc = "check" => Cardinality(BytesIn(table, KindOf[w.item])) <= w.usage
        /\ w.pc # "check" => Cardinality(OthersIn(table, w.item)) + w.size <= Quota

WithinQuota(table) == \A kind \in {"data", "file"} : Cardinality(BytesIn(table, kind)) <= Quota

StoreInv ==
    /\ StoreTyped
    /\ ~crowded =>
          /\ WithinQuota(row)
          /\ \A c, d \in Callers :
                Writing(c) /\ Writing(d) /\ KindOf[caller[c].item] = KindOf[caller[d].item] => c = d
          /\ \A c \in Callers : Fits(row, caller[c])

\* The bytes of a table, one by one.
LEMMA BytesOne ==
    ASSUME NEW table, NEW kind, NEW b
    PROVE  b \in BytesIn(table, kind) <=>
              \E x \in Items : /\ KindOf[x] = kind /\ table[x] # NoRow
                               /\ \E i \in 1..table[x].size : b = <<x, i>>
  BY DEF BytesIn

\* The others and the item make up the whole.
LEMMA ItemBytes ==
    ASSUME NEW table \in Table, NEW x \in Items,
           IsFiniteSet(OthersIn(table, x)) \/ IsFiniteSet(BytesIn(table, KindOf[x]))
    PROVE  /\ IsFiniteSet(BytesIn(table, KindOf[x])) /\ IsFiniteSet(OthersIn(table, x))
           /\ Cardinality(OthersIn(table, x)) \in Nat /\ SizeIn(table, x) \in Nat
           /\ Cardinality(BytesIn(table, KindOf[x])) = Cardinality(OthersIn(table, x)) + SizeIn(table, x)
<1> DEFINE All == BytesIn(table, KindOf[x])
           Oth == OthersIn(table, x)
           n == SizeIn(table, x)
           Own == {x} \X (1..n)
<1>1. n \in Nat
  BY DEF SizeIn, Table, Rec
<1>2. IsFiniteSet(Own) /\ Cardinality(Own) = n
  <2>1. IsFiniteSet({x}) /\ Cardinality({x}) = 1
    BY FS_Singleton
  <2>2. IsFiniteSet(1..n) /\ Cardinality(1..n) = n
    BY <1>1, FS_Interval
  <2>3. IsFiniteSet(Own) /\ Cardinality(Own) = Cardinality({x}) * Cardinality(1..n)
    BY <2>1, <2>2, FS_Product
  <2> QED
    BY <1>1, <2>1, <2>2, <2>3
<1>3. All = Oth \cup Own /\ Oth \cap Own = {}
  <2>1. ASSUME NEW b \in All PROVE b \in Oth \cup Own
    <3>1. PICK y \in Items : KindOf[y] = KindOf[x] /\ table[y] # NoRow /\ \E i \in 1..table[y].size : b = <<y, i>>
      BY <2>1, BytesOne
    <3>2. CASE y = x
      BY <3>1, <3>2 DEF SizeIn
    <3>3. CASE y # x
      BY <2>1, <3>1, <3>3 DEF OthersIn
    <3> QED
      BY <3>2, <3>3
  <2>2. ASSUME NEW b \in Own PROVE b \in All
    <3>1. PICK i \in 1..n : b = <<x, i>>
      BY <2>2
    <3>2. table[x] # NoRow /\ n = table[x].size
      BY <1>1, <3>1 DEF SizeIn
    <3> QED
      BY <3>1, <3>2, BytesOne
  <2>3. \A b \in Own : b[1] = x
    OBVIOUS
  <2>4. Oth \subseteq All /\ \A b \in Oth : b[1] # x
    BY DEF OthersIn
  <2> QED
    BY <2>1, <2>2, <2>3, <2>4
<1> HIDE DEF All, Oth, Own
<1>4. IsFiniteSet(All) /\ IsFiniteSet(Oth)
  <2>0. IsFiniteSet(Oth) \/ IsFiniteSet(All)
    BY DEF Oth, All
  <2>1. CASE IsFiniteSet(Oth)
    BY <1>2, <1>3, <2>1, FS_Union
  <2>2. CASE IsFiniteSet(All)
    BY <1>3, <2>2, FS_Subset
  <2> QED
    BY <2>0, <2>1, <2>2
<1>5. Cardinality(All) = Cardinality(Oth) + Cardinality(Own) - Cardinality(Oth \cap Own)
  BY <1>2, <1>3, <1>4, FS_Union
<1>6. Cardinality(Oth) \in Nat /\ Cardinality(Oth \cap Own) = 0
  BY <1>3, <1>4, FS_CardinalityType, FS_EmptySet
<1>7. Cardinality(All) = Cardinality(Oth) + n
  BY <1>1, <1>2, <1>5, <1>6
<1> QED
  BY <1>1, <1>4, <1>6, <1>7 DEF All, Oth

\* A row is written: the others are what they were.
LEMMA RowWritten ==
    ASSUME NEW t, NEW u, NEW x \in Items, \A y \in Items : y # x => u[y] = t[y]
    PROVE  /\ OthersIn(u, x) = OthersIn(t, x)
           /\ \A kind : kind # KindOf[x] => BytesIn(u, kind) = BytesIn(t, kind)
<1>1. ASSUME NEW b, NEW kind, kind # KindOf[x] \/ b[1] # x
      PROVE  b \in BytesIn(u, kind) <=> b \in BytesIn(t, kind)
  <2>1. ASSUME NEW y \in Items, KindOf[y] = kind, NEW i, b = <<y, i>> PROVE u[y] = t[y]
    BY <1>1, <2>1
  <2>2. ASSUME b \in BytesIn(u, kind) PROVE b \in BytesIn(t, kind)
    <3>1. PICK y \in Items : KindOf[y] = kind /\ u[y] # NoRow /\ \E i \in 1..u[y].size : b = <<y, i>>
      BY <2>2, BytesOne
    <3>2. u[y] = t[y]
      BY <2>1, <3>1
    <3> QED
      BY <3>1, <3>2, BytesOne
  <2>3. ASSUME b \in BytesIn(t, kind) PROVE b \in BytesIn(u, kind)
    <3>1. PICK y \in Items : KindOf[y] = kind /\ t[y] # NoRow /\ \E i \in 1..t[y].size : b = <<y, i>>
      BY <2>3, BytesOne
    <3>2. u[y] = t[y]
      BY <2>1, <3>1
    <3> QED
      BY <3>1, <3>2, BytesOne
  <2> QED
    BY <2>2, <2>3
<1>2. \A b : b \in OthersIn(u, x) <=> b \in OthersIn(t, x)
  BY <1>1 DEF OthersIn
<1>3. \A kind : kind # KindOf[x] => \A b : b \in BytesIn(u, kind) <=> b \in BytesIn(t, kind)
  BY <1>1
<1>4. ASSUME NEW kind, kind # KindOf[x] PROVE BytesIn(u, kind) = BytesIn(t, kind)
  BY <1>3, <1>4
<1>5. OthersIn(u, x) = OthersIn(t, x)
  BY <1>2
<1> QED
  BY <1>4, <1>5

\* Rows go: nothing is counted that was not counted before.
LEMMA RowsGo ==
    ASSUME NEW t \in Table, NEW u, \A y \in Items : u[y] \in {t[y], NoRow}, NEW kind \in Kinds,
           IsFiniteSet(BytesIn(t, kind))
    PROVE  /\ IsFiniteSet(BytesIn(u, kind)) /\ Cardinality(BytesIn(u, kind)) \in Nat
           /\ Cardinality(BytesIn(t, kind)) \in Nat
           /\ Cardinality(BytesIn(u, kind)) <= Cardinality(BytesIn(t, kind))
           /\ \A x \in Items : KindOf[x] = kind =>
                 /\ Cardinality(OthersIn(u, x)) \in Nat /\ Cardinality(OthersIn(t, x)) \in Nat
                 /\ Cardinality(OthersIn(u, x)) <= Cardinality(OthersIn(t, x))
<1>1. ASSUME NEW b \in BytesIn(u, kind) PROVE b \in BytesIn(t, kind)
  <2>1. PICK y \in Items : KindOf[y] = kind /\ u[y] # NoRow /\ \E i \in 1..u[y].size : b = <<y, i>>
    BY <1>1, BytesOne
  <2>2. u[y] = t[y]
    BY <2>1
  <2> QED
    BY <2>1, <2>2, BytesOne
<1>2. BytesIn(u, kind) \subseteq BytesIn(t, kind)
  BY <1>1
<1>3. ASSUME NEW x \in Items, KindOf[x] = kind
      PROVE  /\ Cardinality(OthersIn(u, x)) \in Nat /\ Cardinality(OthersIn(t, x)) \in Nat
             /\ Cardinality(OthersIn(u, x)) <= Cardinality(OthersIn(t, x))
  <2>1. OthersIn(u, x) \subseteq OthersIn(t, x) /\ OthersIn(t, x) \subseteq BytesIn(t, kind)
    BY <1>2, <1>3 DEF OthersIn
  <2>2. IsFiniteSet(OthersIn(t, x)) /\ IsFiniteSet(OthersIn(u, x))
    BY <2>1, FS_Subset
  <2> QED
    BY <2>1, <2>2, FS_Subset, FS_CardinalityType
<1> QED
  BY <1>2, <1>3, FS_Subset, FS_CardinalityType

\* The operators of the model in terms of the table.
LEMMA StoreOperators ==
    /\ \A kind : Bytes(kind) = BytesIn(row, kind) /\ Usage(kind) = Cardinality(BytesIn(row, kind))
    /\ \A x : SizeOf(x) = SizeIn(row, x)
    /\ QuotaHeldAlone <=> (~crowded => WithinQuota(row))
  BY DEF Bytes, Rows, BytesIn, Usage, SizeOf, SizeIn, QuotaHeldAlone, WithinQuota

\* Rows go, calls end: deletions and the collector.
LEMMA DeletionKeeps ==
    ASSUME StoreInv, row' \in Table, \A y \in Items : row'[y] \in {row[y], NoRow},
           caller' \in [Callers -> Call], clock' \in Nat, crowded' = crowded,
           \A c \in Callers : caller'[c] = caller[c] \/ caller'[c].op # "write"
    PROVE  StoreInv'
<1>0. StoreTyped
  BY DEF StoreInv
<1>1. ASSUME NEW kind \in Kinds
      PROVE  /\ IsFiniteSet(BytesIn(row', kind)) /\ Cardinality(BytesIn(row', kind)) \in Nat
             /\ Cardinality(BytesIn(row, kind)) \in Nat
             /\ Cardinality(BytesIn(row', kind)) <= Cardinality(BytesIn(row, kind))
             /\ \A x \in Items : KindOf[x] = kind =>
                   /\ Cardinality(OthersIn(row', x)) \in Nat /\ Cardinality(OthersIn(row, x)) \in Nat
                   /\ Cardinality(OthersIn(row', x)) <= Cardinality(OthersIn(row, x))
  <2>1. row \in Table /\ IsFiniteSet(BytesIn(row, kind))
    BY <1>0 DEF StoreTyped
  <2> QED
    BY <2>1, RowsGo
<1>2. StoreTyped'
  BY <1>0, <1>1 DEF StoreTyped
<1>3. ASSUME ~crowded'
      PROVE  /\ WithinQuota(row')
             /\ \A c, d \in Callers :
                   Writing(c)' /\ Writing(d)' /\ KindOf[caller'[c].item] = KindOf[caller'[d].item] => c = d
             /\ \A c \in Callers : Fits(row', caller'[c])
  <2>0. /\ WithinQuota(row)
        /\ \A c, d \in Callers :
              Writing(c) /\ Writing(d) /\ KindOf[caller[c].item] = KindOf[caller[d].item] => c = d
        /\ \A c \in Callers : Fits(row, caller[c])
    BY <1>3 DEF StoreInv
  <2>1. WithinQuota(row')
    BY <1>1, <2>0, PluginStoreAssumption DEF WithinQuota, Kinds
  <2>2. \A c, d \in Callers :
           Writing(c)' /\ Writing(d)' /\ KindOf[caller'[c].item] = KindOf[caller'[d].item] => c = d
    BY <2>0 DEF Writing
  <2>3. ASSUME NEW c \in Callers, caller'[c].op = "write", KindOf[caller'[c].item] # "diagnostic"
        PROVE  Fits(row', caller'[c])
    <3> DEFINE w == caller[c]
    <3>1. caller'[c] = w /\ w.op = "write" /\ w \in Call
      BY <1>0, <2>3 DEF StoreTyped
    <3>2. w.item \in Items /\ w.usage \in Nat /\ w.size \in Nat /\ KindOf[w.item] \in Kinds
      BY <3>1, PluginStoreAssumption DEF Call, NoCall, Kinds
    <3>3. Fits(row, w)
      BY <2>0
    <3> HIDE DEF w
    <3> QED
      BY <1>1, <2>3, <3>1, <3>2, <3>3, PluginStoreAssumption DEF Fits
  <2>4. \A c \in Callers : Fits(row', caller'[c])
    BY <2>3 DEF Fits
  <2> QED
    BY <2>1, <2>2, <2>4
<1> QED
  BY <1>2, <1>3 DEF StoreInv

\* The row is left alone, one call moves on, and that call fits.
LEMMA CallKeeps ==
    ASSUME StoreInv, row' = row, clock' = clock, crowded' \in BOOLEAN, crowded => crowded',
           NEW c \in Callers, caller' \in [Callers -> Call], \A d \in Callers : d # c => caller'[d] = caller[d],
           ~crowded' /\ caller'[c].op = "write" =>
              /\ Fits(row, caller'[c])
              /\ \A d \in Callers : d # c /\ Writing(d) => KindOf[caller[d].item] # KindOf[caller'[c].item]
    PROVE  StoreInv'
<1>1. StoreTyped'
  BY DEF StoreInv, StoreTyped
<1>2. ASSUME ~crowded'
      PROVE  /\ WithinQuota(row')
             /\ \A e, d \in Callers :
                   Writing(e)' /\ Writing(d)' /\ KindOf[caller'[e].item] = KindOf[caller'[d].item] => e = d
             /\ \A e \in Callers : Fits(row', caller'[e])
  <2>0. /\ WithinQuota(row)
        /\ \A e, d \in Callers :
              Writing(e) /\ Writing(d) /\ KindOf[caller[e].item] = KindOf[caller[d].item] => e = d
        /\ \A e \in Callers : Fits(row, caller[e])
    BY <1>2 DEF StoreInv
  <2>1. \A e, d \in Callers :
           Writing(e)' /\ Writing(d)' /\ KindOf[caller'[e].item] = KindOf[caller'[d].item] => e = d
    BY <1>2, <2>0 DEF Writing
  <2>2. ASSUME NEW e \in Callers PROVE Fits(row', caller'[e])
    <3>1. CASE e # c
      BY <2>0, <3>1
    <3>2. CASE e = c /\ caller'[c].op = "write"
      BY <1>2, <3>2
    <3>3. CASE e = c /\ caller'[c].op # "write"
      BY <3>3 DEF Fits
    <3> QED
      BY <3>1, <3>2, <3>3
  <2> QED
    BY <2>0, <2>1, <2>2
<1> QED
  BY <1>1, <1>2 DEF StoreInv

\* The usage is read: with no other write of the kind, it is what is there.
LEMMA ReadKeeps ==
    ASSUME StoreInv, NEW c \in Callers, NEW x \in Items, NEW size \in Sizes, NEW exp \in Deadlines(x),
           ReadUsage(c, x, size, exp)
    PROVE  StoreInv'
<1>0. StoreTyped
  BY DEF StoreInv
<1>1. PICK usage \in {Usage(KindOf[x]), 0} :
        /\ caller' = [caller EXCEPT ![c] =
                [op |-> "write", item |-> x, pc |-> "check", size |-> size, exp |-> exp, usage |-> usage]]
        /\ crowded' = (crowded \/ usage # Usage(KindOf[x]) \/ WritesOf(KindOf[x]) # {})
  BY DEF ReadUsage
<1>2. row' = row /\ clock' = clock
  BY DEF ReadUsage
<1> DEFINE w == [op |-> "write", item |-> x, pc |-> "check", size |-> size, exp |-> exp, usage |-> usage]
<1>3. w \in Call
  <2>1. KindOf[x] \in Kinds /\ size \in Nat
    BY PluginStoreAssumption DEF Kinds
  <2>2. usage \in Nat
    BY <1>0, <1>1, <2>1, StoreOperators, FS_CardinalityType DEF StoreTyped
  <2>3. exp \in Nat
    BY <1>0 DEF Deadlines, StoreTyped
  <2> QED
    BY <2>1, <2>2, <2>3 DEF Call
<1>4. caller' \in [Callers -> Call] /\ caller'[c] = w /\ \A d \in Callers : d # c => caller'[d] = caller[d]
  BY <1>0, <1>1, <1>3 DEF StoreTyped
<1>5. crowded' \in BOOLEAN /\ (crowded => crowded')
  BY <1>1
<1>6. ASSUME ~crowded'
      PROVE  Fits(row, w) /\ \A d \in Callers : d # c /\ Writing(d) => KindOf[caller[d].item] # KindOf[w.item]
  <2>1. usage = Usage(KindOf[x]) /\ WritesOf(KindOf[x]) = {}
    BY <1>1, <1>6
  <2>2. \A d \in Callers : Writing(d) => KindOf[caller[d].item] # KindOf[x]
    BY <2>1 DEF WritesOf, Writing
  <2>3. w.usage = Cardinality(BytesIn(row, KindOf[x])) /\ w.usage \in Nat /\ w.pc = "check" /\ w.item = x
    BY <1>3, <2>1, StoreOperators DEF Call, NoCall
  <2> HIDE DEF w
  <2> QED
    BY <2>2, <2>3 DEF Fits
<1> HIDE DEF w
<1> QED
  BY <1>2, <1>4, <1>5, <1>6, CallKeeps

\* The check: what is let through fits.
LEMMA CheckKeepsQuota ==
    ASSUME StoreInv, NEW c \in Callers, CheckQuota(c)
    PROVE  StoreInv'
<1> DEFINE w == caller[c]
           x == w.item
           v == [w EXCEPT !.pc = IF HasFile(x) THEN "disk" ELSE "row"]
           fits == KindOf[x] = "diagnostic" \/ NextUsage(w.usage, SizeOf(x), w.size) <= Quota
<1>0. StoreTyped
  BY DEF StoreInv
<1>1. /\ w.op = "write" /\ w.pc = "check" /\ row' = row /\ clock' = clock /\ crowded' = crowded
      /\ caller' = [caller EXCEPT ![c] = IF ~fits THEN NoCall ELSE v]
  BY DEF CheckQuota
<1>2. /\ w \in Call /\ x \in Items /\ w.usage \in Nat /\ w.size \in Nat
      /\ v \in Call /\ v.op = "write" /\ v.item = x /\ v.pc # "check" /\ v.size = w.size
  BY <1>0, <1>1 DEF StoreTyped, Call, NoCall
<1>3. NoCall \in Call /\ NoCall.op # "write"
  BY DEF Call, NoCall
<1>4. /\ caller'[c] = IF ~fits THEN NoCall ELSE v
      /\ caller' \in [Callers -> Call] /\ \A d \in Callers : d # c => caller'[d] = caller[d]
  BY <1>0, <1>1, <1>2, <1>3 DEF StoreTyped
<1>5. ASSUME ~crowded, fits
      PROVE  Fits(row, v) /\ \A d \in Callers : d # c /\ Writing(d) => KindOf[caller[d].item] # KindOf[x]
  <2>1. \A d \in Callers : d # c /\ Writing(d) => KindOf[caller[d].item] # KindOf[x]
    BY <1>1, <1>5 DEF StoreInv, Writing
  <2>2. ASSUME KindOf[x] # "diagnostic" PROVE Cardinality(OthersIn(row, x)) + w.size <= Quota
    <3>1. Cardinality(BytesIn(row, KindOf[x])) <= w.usage
      BY <1>1, <1>5, <2>2 DEF StoreInv, Fits
    <3>2. w.usage + w.size - SizeIn(row, x) <= Quota
      BY <1>5, <2>2, StoreOperators DEF NextUsage
    <3>3. KindOf[x] \in Kinds /\ row \in Table /\ IsFiniteSet(BytesIn(row, KindOf[x]))
      BY <1>0, <1>2, PluginStoreAssumption DEF StoreTyped, Kinds
    <3>4. /\ Cardinality(OthersIn(row, x)) \in Nat /\ SizeIn(row, x) \in Nat
          /\ Cardinality(BytesIn(row, KindOf[x])) = Cardinality(OthersIn(row, x)) + SizeIn(row, x)
      BY <1>2, <3>3, ItemBytes
    <3> HIDE DEF w, x
    <3> QED
      BY <1>2, <3>1, <3>2, <3>4, PluginStoreAssumption
  <2> HIDE DEF v
  <2> QED
    BY <1>2, <2>1, <2>2 DEF Fits
<1> HIDE DEF v, fits
<1>6. ~crowded' /\ caller'[c].op = "write" =>
         /\ Fits(row, caller'[c])
         /\ \A d \in Callers : d # c /\ Writing(d) => KindOf[caller[d].item] # KindOf[caller'[c].item]
  BY <1>1, <1>2, <1>3, <1>4, <1>5
<1>7. crowded' \in BOOLEAN /\ (crowded => crowded') /\ row' = row /\ clock' = clock
  BY <1>0, <1>1 DEF StoreTyped
<1> QED
  BY ONLY StoreInv, c \in Callers, <1>4, <1>6, <1>7, CallKeeps

\* The file: the row is still to come.
LEMMA WriteFileKeeps ==
    ASSUME StoreInv, NEW c \in Callers, WriteFile(c)
    PROVE  StoreInv'
<1> DEFINE w == caller[c]
           v == [w EXCEPT !.pc = "row"]
<1>0. StoreTyped
  BY DEF StoreInv
<1>1. /\ w.op = "write" /\ w.pc = "disk" /\ row' = row /\ clock' = clock /\ crowded' = crowded
      /\ caller' = [caller EXCEPT ![c] = v] \/ caller' = [caller EXCEPT ![c] = NoCall]
  BY DEF WriteFile
<1>2. /\ w \in Call /\ v \in Call /\ v.op = "write" /\ v.item = w.item /\ v.pc = "row" /\ v.size = w.size
  BY <1>0, <1>1 DEF StoreTyped, Call, NoCall
<1>3. NoCall \in Call /\ NoCall.op # "write"
  BY DEF Call, NoCall
<1>4. /\ caller'[c] \in {v, NoCall}
      /\ caller' \in [Callers -> Call] /\ \A d \in Callers : d # c => caller'[d] = caller[d]
  BY <1>0, <1>1, <1>2, <1>3 DEF StoreTyped
<1>5. ASSUME ~crowded
      PROVE  Fits(row, v) /\ \A d \in Callers : d # c /\ Writing(d) => KindOf[caller[d].item] # KindOf[w.item]
  <2>1. \A d \in Callers : d # c /\ Writing(d) => KindOf[caller[d].item] # KindOf[w.item]
    BY <1>1, <1>5 DEF StoreInv, Writing
  <2>2. Fits(row, w)
    BY <1>5 DEF StoreInv
  <2> HIDE DEF v, w
  <2> QED
    BY <1>1, <1>2, <2>1, <2>2 DEF Fits
<1> HIDE DEF v
<1>6. ~crowded' /\ caller'[c].op = "write" =>
         /\ Fits(row, caller'[c])
         /\ \A d \in Callers : d # c /\ Writing(d) => KindOf[caller[d].item] # KindOf[caller'[c].item]
  BY <1>1, <1>2, <1>3, <1>4, <1>5
<1>7. crowded' \in BOOLEAN /\ (crowded => crowded') /\ row' = row /\ clock' = clock
  BY <1>0, <1>1 DEF StoreTyped
<1> QED
  BY ONLY StoreInv, c \in Callers, <1>4, <1>6, <1>7, CallKeeps

\* The row: what has passed the check fits beside the others.
LEMMA WriteRowKeeps ==
    ASSUME StoreInv, NEW c \in Callers, WriteRow(c)
    PROVE  StoreInv'
<1> DEFINE w == caller[c]
           x == w.item
           rec == [size |-> w.size, exp |-> w.exp]
<1>0. StoreTyped
  BY DEF StoreInv
<1>1. /\ w.op = "write" /\ w.pc = "row" /\ clock' = clock /\ crowded' = crowded
      /\ row' = [row EXCEPT ![x] = rec] \/ row' = row
      /\ caller' = [caller EXCEPT ![c] = NoCall]
  BY DEF WriteRow
<1>2. w \in Call /\ x \in Items /\ w.size \in Nat /\ w.exp \in Nat /\ KindOf[x] \in Kinds
  BY <1>0, <1>1, PluginStoreAssumption DEF StoreTyped, Call, NoCall, Kinds
<1>3. NoCall \in Call /\ NoCall.op # "write"
  BY DEF Call, NoCall
<1>4. /\ caller'[c] = NoCall
      /\ caller' \in [Callers -> Call] /\ \A d \in Callers : d # c => caller'[d] = caller[d]
  BY <1>0, <1>1, <1>3 DEF StoreTyped
<1>5. CASE row' = row
  <2>1. crowded' \in BOOLEAN /\ (crowded => crowded') /\ clock' = clock /\ caller'[c].op # "write"
    BY <1>0, <1>1, <1>3, <1>4 DEF StoreTyped
  <2> QED
    BY ONLY StoreInv, c \in Callers, <1>4, <1>5, <2>1, CallKeeps
<1>6. CASE row' = [row EXCEPT ![x] = rec]
  <2>1. rec \in Rec /\ rec # NoRow /\ rec.size = w.size
    BY <1>2, PluginStoreAssumption DEF Rec
  <2>2. row' \in Table /\ row'[x] = rec /\ \A y \in Items : y # x => row'[y] = row[y]
    BY <1>0, <1>2, <1>6, <2>1 DEF StoreTyped, Table
  <2>3. SizeIn(row', x) = w.size
    BY <2>1, <2>2 DEF SizeIn
  <2> HIDE DEF rec, x
  <2>4. OthersIn(row', x) = OthersIn(row, x) /\ \A kind : kind # KindOf[x] => BytesIn(row', kind) = BytesIn(row, kind)
    BY <1>2, <2>2, RowWritten
  <2>5. row \in Table /\ IsFiniteSet(BytesIn(row, KindOf[x]))
    BY <1>0, <1>2 DEF StoreTyped
  <2>6. IsFiniteSet(OthersIn(row', x))
    BY <1>2, <2>4, <2>5, ItemBytes
  <2>7. /\ IsFiniteSet(BytesIn(row', KindOf[x]))
        /\ Cardinality(BytesIn(row', KindOf[x])) = Cardinality(OthersIn(row, x)) + w.size
    BY <1>2, <2>2, <2>3, <2>4, <2>6, ItemBytes
  <2>8. StoreTyped'
    BY <1>0, <1>1, <1>4, <2>2, <2>4, <2>7 DEF StoreTyped
  <2>9. ASSUME ~crowded'
        PROVE  /\ WithinQuota(row')
               /\ \A e, d \in Callers :
                     Writing(e)' /\ Writing(d)' /\ KindOf[caller'[e].item] = KindOf[caller'[d].item] => e = d
               /\ \A e \in Callers : Fits(row', caller'[e])
    <3>0. /\ WithinQuota(row)
          /\ \A e, d \in Callers :
                Writing(e) /\ Writing(d) /\ KindOf[caller[e].item] = KindOf[caller[d].item] => e = d
          /\ \A e \in Callers : Fits(row, caller[e])
      BY <1>1, <2>9 DEF StoreInv
    <3>1. KindOf[x] # "diagnostic" => Cardinality(BytesIn(row', KindOf[x])) <= Quota
      BY <1>1, <2>7, <3>0 DEF Fits, x
    <3>2. WithinQuota(row')
      BY <2>4, <3>0, <3>1 DEF WithinQuota
    <3>3. \A e, d \in Callers :
             Writing(e)' /\ Writing(d)' /\ KindOf[caller'[e].item] = KindOf[caller'[d].item] => e = d
      BY <1>3, <1>4, <3>0 DEF Writing
    <3>4. ASSUME NEW e \in Callers, caller'[e].op = "write" PROVE Fits(row', caller'[e])
      <4> DEFINE q == caller[e]
      <4>1. e # c /\ caller'[e] = q /\ q.op = "write"
        BY <1>3, <1>4, <3>4
      <4>2. KindOf[q.item] # KindOf[x]
        BY <1>1, <3>0, <4>1 DEF Writing, x
      <4>3. \A b : b \in OthersIn(row', q.item) <=> b \in OthersIn(row, q.item)
        BY <2>4, <4>2 DEF OthersIn
      <4>4. OthersIn(row', q.item) = OthersIn(row, q.item)
        BY <4>3
      <4>5. Fits(row, q)
        BY <3>0
      <4> HIDE DEF q
      <4> QED
        BY <2>4, <4>1, <4>2, <4>4, <4>5 DEF Fits
    <3>5. \A e \in Callers : Fits(row', caller'[e])
      BY <3>4 DEF Fits
    <3> QED
      BY <3>2, <3>3, <3>5
  <2> QED
    BY <2>8, <2>9 DEF StoreInv
<1> QED
  BY <1>1, <1>5, <1>6

\* StoreInv holds at the start and is kept by every step.
LEMMA StoreInductive ==
    /\ StoreInit => StoreInv
    /\ StoreInv /\ [StoreNext]_storeVars => StoreInv'
<1>1. ASSUME StoreInit PROVE StoreInv
  <2>1. row \in Table /\ \A x \in Items : row[x] = NoRow
    BY <1>1 DEF StoreInit, Table
  <2>2. ASSUME NEW kind PROVE BytesIn(row, kind) = {}
    <3>1. \A b : b \notin BytesIn(row, kind)
      BY <2>1, BytesOne
    <3> QED
      BY <3>1
  <2>3. StoreTyped
    BY <1>1, <2>1, <2>2, FS_EmptySet DEF StoreInit, StoreTyped, Call
  <2>4. WithinQuota(row)
    BY <2>2, FS_EmptySet, PluginStoreAssumption DEF WithinQuota
  <2>5. \A c \in Callers : caller[c].op # "write"
    BY <1>1 DEF StoreInit, NoCall
  <2> QED
    BY <2>3, <2>4, <2>5 DEF StoreInv, Writing, Fits
<1>2. ASSUME StoreInv, [StoreNext]_storeVars PROVE StoreInv'
  <2>0. StoreTyped
    BY <1>2 DEF StoreInv
  <2>1. clock \in Nat /\ row \in Table /\ caller \in [Callers -> Call]
    BY <2>0 DEF StoreTyped
  \* The steps of the collector's lists and of the clock touch neither row nor call.
  <2>2. ASSUME row' = row, caller' = caller, crowded' = crowded, clock' \in Nat PROVE StoreInv'
    <3>1. row' \in Table /\ caller' \in [Callers -> Call] /\ \A y \in Items : row'[y] \in {row[y], NoRow}
          /\ \A c \in Callers : caller'[c] = caller[c] \/ caller'[c].op # "write"
      BY <2>1, <2>2
    <3> QED
      BY <1>2, <2>2, <3>1, DeletionKeeps
  <2>3. ASSUME NEW item, row' = [row EXCEPT ![item] = NoRow]
        PROVE  row' \in Table /\ \A y \in Items : row'[y] \in {row[y], NoRow}
    BY <2>1, <2>3 DEF Table
  <2>4. CASE UNCHANGED storeVars
    BY <2>1, <2>2, <2>4 DEF storeVars
  <2>5. ASSUME NEW c \in Callers, NEW x \in Items, NEW size \in Sizes, NEW exp \in Deadlines(x),
               ReadUsage(c, x, size, exp)
        PROVE  StoreInv'
    BY <1>2, <2>5, ReadKeeps
  <2>6. ASSUME NEW c \in Callers, CheckQuota(c) \/ WriteFile(c) \/ WriteRow(c) PROVE StoreInv'
    BY <1>2, <2>6, CheckKeepsQuota, WriteFileKeeps, WriteRowKeeps
  <2>7. ASSUME NEW c \in Callers, DeleteRow(c) PROVE StoreInv'
    <3>1. /\ row' = [row EXCEPT ![caller[c].item] = NoRow] /\ caller' = [caller EXCEPT ![c] = NoCall]
          /\ clock' = clock /\ crowded' = crowded
      BY <2>7 DEF DeleteRow
    <3>2. NoCall \in Call /\ NoCall.op # "write"
      BY DEF Call, NoCall
    <3>3. caller' \in [Callers -> Call] /\ \A d \in Callers : caller'[d] = caller[d] \/ caller'[d].op # "write"
      BY <2>1, <3>1, <3>2
    <3>4. row' \in Table /\ \A y \in Items : row'[y] \in {row[y], NoRow}
      BY <2>3, <3>1
    <3> QED
      BY <1>2, <2>1, <3>1, <3>3, <3>4, DeletionKeeps
  <2>8. ASSUME NEW c \in Callers, NEW x \in Items, DeleteStored(c, x) PROVE StoreInv'
    <3> DEFINE v == [op |-> "delete", item |-> x]
    <3>1. caller' = [caller EXCEPT ![c] = v] /\ row' = row /\ clock' = clock /\ crowded' = crowded
      BY <2>8 DEF DeleteStored
    <3>2. v \in Call /\ v.op # "write"
      BY DEF Call
    <3> HIDE DEF v
    <3>3. caller' \in [Callers -> Call] /\ \A d \in Callers : caller'[d] = caller[d] \/ caller'[d].op # "write"
      BY <2>1, <3>1, <3>2
    <3>4. row' \in Table /\ \A y \in Items : row'[y] \in {row[y], NoRow}
      BY <2>1, <3>1
    <3> QED
      BY <1>2, <2>1, <3>1, <3>3, <3>4, DeletionKeeps
  <2>9. CASE GCListsData \/ GCListsFiles \/ GCListsDiagnostics \/ GCWalks \/ GCDone
    BY <2>1, <2>2, <2>9 DEF GCListsData, GCListsFiles, GCListsDiagnostics, GCWalks, GCDone
  <2>10. ASSUME NEW job \in gc.todo, GCRemovesFile(job) PROVE StoreInv'
    BY <2>1, <2>2, <2>10 DEF GCRemovesFile
  <2>11. ASSUME NEW job \in gc.todo, GCRemovesRow(job) PROVE StoreInv'
    <3>1. row' = [row EXCEPT ![job.item] = NoRow] /\ caller' = caller /\ clock' = clock /\ crowded' = crowded
      BY <2>11 DEF GCRemovesRow
    <3>2. row' \in Table /\ \A y \in Items : row'[y] \in {row[y], NoRow}
      BY <2>3, <3>1
    <3>3. caller' \in [Callers -> Call] /\ \A d \in Callers : caller'[d] = caller[d] \/ caller'[d].op # "write"
      BY <2>1, <3>1
    <3> QED
      BY <1>2, <2>1, <3>1, <3>2, <3>3, DeletionKeeps
  <2>12. CASE StoreTick
    BY <2>1, <2>2, <2>12 DEF StoreTick
  <2> QED
    BY <1>2, <2>4, <2>5, <2>6, <2>7, <2>8, <2>9, <2>10, <2>11, <2>12 DEF StoreNext
<1> QED
  BY <1>1, <1>2

\* What a plugin stores stays within its quota, for any items, sizes and goroutines, whatever
\* deletions and passes of the collector come between the statements of Put and Write, until two
\* writes of a kind overlap or a usage query fails.
THEOREM QuotaHeldAloneAlways == StoreSpec => []QuotaHeldAlone
<1>1. StoreInv => QuotaHeldAlone
  BY StoreOperators DEF StoreInv
<1> QED
  BY <1>1, StoreInductive, PTL DEF StoreSpec
=============================================================================
