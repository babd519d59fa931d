CONSTANTS
    n1 = n1  n2 = n2  old = old  other = other
    Nodes = {n1, n2}
    Runtimes = {old, other}
    NodeOf <- MCNodeOf
    Administered = {n1}
    Slots = {z1, z2}
    SpecOf <- MCSpecOf
    TTL = 2
    MaxTime = 2
    MaxStops = 1
    MaxCrashes = 1
    MaxRuns = 1
    NoLease = NoLease
    None = None
    g = g  a1 = a1  a2 = a2  p1 = p1  p2 = p2  p3 = p3  p4 = p4  d1 = d1  d2 = d2  c1 = c1  c2 = c2
    k = k  l = l  f = f  d = d
    Sources = {s1}
    BuildRequests = {w1}
    Operations = {"upload", "run", "retry", "cancel", "desire", "reject", "gc"}
    MaxBuilds = 1
    OtherRowIDs = {0}
    MayDisconnect = TRUE
    MayCrash = TRUE
    Entries = {a1, a2}
    Packages = {p1, p2, p3, p4}
    EntryOf <- MCEntryOf
    PackageKind <- MCPackageKind
    FaultOf <- MCFaultOf
    Uploads = {u1, u2}
    NoPackage = NoPackage
    Plugs = {g}
    Cfgs = {c1, c2}
    HighRisk = {g}
    GateRefused <- MCNoPairs
    Singletons <- MCSingletons
    IngressOf = {}
    IngressGate = TRUE
    PortOf <- MCPortOf
    Unfit <- MCNoPairs
    BuiltBy <- MCBuiltBy
    Notices = {}
    Vulns = {}
    GateRequests = {r1, r2}
    MaxGates = 2
    MaxDays = 1
    NoCfg = NoCfg
    Promoted = {p1, p2}
    Digests = {d1, d2}
    OwnerOf <- MCOwnerOf
    PromoCfgs = {c1, c2}
    Bundles <- MCBundles
    Promotions = {k1}
    NoHash = NoHash
    Torn = Torn
    MaxPromos = 1
    KeyIds = {i1, i2}
    RootRequests = {r1, r2}
    SignRuns = {x1, x2}
    Windows <- MCWindows
    MaxTrustDay = 1
    BoxArts = {a1}
    Resolves = {q1}
    SecretTTL = 2
    Grace = 2
    MaxVersion = 2
    MaxSecretTime = 4
    ModeNodes = {n1, n2}
    ModeCalls = {m1, m2}
    Names = {j1, j2, j3}
    HostBinaries = {b1}
    MaxHosts = 2
    MaxHostTime = 2
    MaxGateways = 2
    Backoff = 1
    MaxHostCrashes = 2
    CrashWindow = 2
    NoHost = NoHost
    Plugins = {1, 2}
    FailClosed = {1}
    Connections = {c1}
    ServerHosts = {h1, h2}
    Routed = {h1}
    MaxSwitches = 3
    Streams = {s1, s2}
    Root = r
    Closers = {k1, k2}
    Users = {u1, u2}
    AdminCalls = {a1, a2}
    MaxSessions = 2
    Writers = {w1, w2}
    RouteHosts = {h1, h2}
    Upstreams = {t1}
    NoRoute = NoRoute
    NoWriter = NoWriter
    Clients = {i1, i2, i3}
    Backlog = 1
    Sockets = {l1, l2, l3}
    Ports = {p1, p2}
    NoSocket = NoSocket
    Gateways = {g1, g2}
    Events = {e1}
    Subscribers = {a1}
    QueueLimit = 1
    DeadLimit = 1
    MaxRequests = 2
    Items = {k, l, f, d}
    KindOf <- MCKindOf
    Callers = {c1, c2}
    Sizes = {1, 2}
    Quota = 2
    MaxClock = 1
    MaxOps = 3
    NoRow = NoRow
    Requests = {r1, r2}
    Sinks = {x1, x2}
    Threshold = 3
    Window = 2
    MaxExports = 3
    NoSink = NoSink
SPECIFICATION ComponentSpec
INVARIANTS LeaseBacksRun RowHasItsEntry PromotedWasChecked RevokedIsFinal OldSecretExpires
            CycleIsFound FiltersCover ForcedSessionIsClosed LastAdminStays
           SnapshotFollowsTable RoutedBeforeReturn OpenListenerIsKnown FailedIsAccounted
           QuotaHeldAlone
PROPERTIES GCKeepsSourcesInFlight PublishedIsReviewed SweepSparesSupervised
VIEW ComponentView
CHECK_DEADLOCK FALSE
