----------------------------- MODULE MCComponents -----------------------------
(* The components that meet in the database, in the file system or at a      *)
(* socket: what decides which code runs (uploads and source builds, the gate *)
(* of a release, promotions, trust, secrets, the mode of the plugin service, *)
(* the order of middleware, the processes of plugin hosts), what meets the   *)
(* world outside (connections, streams, the shared port, plugin listeners,   *)
(* accounts, routes, a plugin's events, stores and outbound calls), and the  *)
(* leases of background tasks.  They share no state here, so a behaviour     *)
(* follows one of them, chosen at the start; the others keep one initial     *)
(* state.                                                                    *)
EXTENDS MCBackgroundTasks, SourceBuild, ArtifactStore, ReleaseGate, Promotion, TrustStore,
        SandboxSecrets, ServiceMode, MiddlewareOrder, HostProcesses, ConnectionPath,
        SessionStreams, AdminAccounts, RouteTable, SharedPort, IngressListeners,
        EventDelivery, PluginStore, ExternalClient

CONSTANTS g, a1, a2, p1, p2, p3, p4, d1, d2, c1, c2, k, l, f, d

(* An upgrade is under way: one node still has the scheduled task, the other *)
(* runs it on start.                                                         *)
MCSpecOf == old :> Periodic("singleton") @@ other :> OnStart("sharded", 1)

(* One plugin with a singleton listener, built in a container.               *)
MCSingletons == g :> {"auth"}
MCBuiltBy == g :> "container"
MCPortOf == g :> 0
MCNoPairs == {}

(* Two binary packages of one runtime entry, one of which fails late, and    *)
(* one that a build hands over; the sources are an artifact of their own.    *)
MCEntryOf == p1 :> a1 @@ p2 :> a1 @@ p3 :> a1 @@ p4 :> a2
MCPackageKind == p1 :> "binary" @@ p2 :> "binary" @@ p3 :> "built" @@ p4 :> "source"
MCFaultOf == p1 :> "none" @@ p2 :> "late" @@ p3 :> "none" @@ p4 :> "none"

(* A bundle of two plugins as it is exported, and an edited one.             *)
MCOwnerOf == d1 :> p1 @@ d2 :> p2
Row(plug, art, cfg, wanted) == [plug |-> plug, art |-> art, cfg |-> cfg, state |-> wanted]
MCBundles == {<<Row(p1, d1, c1, "disabled"), Row(p2, d2, NoHash, "deleted")>>,
              <<Row(p1, d1, NoHash, "enabled")>>}

(* A key that is valid for a day only, today's or tomorrow's.                *)
MCWindows == {<<0, 0>>, <<1, 1>>}

MCKindOf == k :> "data" @@ l :> "data" @@ f :> "file" @@ d :> "diagnostic"

VARIABLE part

releaseGroup == <<taskVars, vars, artifactVars, gateVars, promotionVars>>
nodeGroup == <<trustVars, secretVars, serviceVars, orderVars, hostVars>>
edgeGroup ==
    <<pathVars, streamVars, adminVars, routeVars, portVars, ingressVars, eventVars, storeVars,
      externalVars>>
componentVars == <<part, releaseGroup, nodeGroup, edgeGroup>>

(* What tells the states of the followed part apart.                         *)
ComponentView ==
    <<part, CASE part = "tasks" -> taskVars [] part = "builds" -> vars
              [] part \in {"binaries", "sources"} -> artifactVars
              [] part = "gate" -> gateVars [] part = "promotion" -> promotionVars
              [] part \in {"roots", "signing"} -> trustVars [] part = "secrets" -> secretVars
              [] part = "mode" -> serviceVars [] part = "order" -> orderVars
              [] part = "hosts" -> hostVars [] part = "path" -> pathVars
              [] part = "streams" -> streamVars [] part = "accounts" -> adminVars
              [] part = "routes" -> routeVars [] part = "port" -> portVars
              [] part = "ingress" -> ingressVars [] part = "events" -> eventVars
              [] part = "store" -> storeVars [] part = "external" -> externalVars>>

Only(names, formula) == part \notin names => formula

ComponentInit ==
    /\ part \in {"tasks", "builds", "binaries", "sources", "gate", "promotion", "roots", "signing",
                 "secrets", "mode", "order", "hosts", "path", "streams", "accounts", "routes",
                 "port", "ingress", "events", "store", "external"}
    /\ Only({"promotion"}, desired = [p \in Promoted |-> [art |-> IF p = p1 THEN d1 ELSE d2, cfg |-> c1, state |-> "disabled"]])
    /\ desired \in [Promoted -> [art : Digests, cfg : PromoCfgs, state : {"disabled", "enabled"}]]
    /\ \A p \in Promoted : OwnerOf[desired[p].art] = p
    /\ Only({"order"}, before = [n \in Names |-> {}])
    /\ want = [p \in Plugs |-> [on |-> FALSE, cfg |-> c1, gen |-> 1]]
    /\ sandboxFit = {n1} /\ managed = {n1}
    /\ Only({"secrets"}, boxRow = [art |-> a1, gen |-> 1, applied |-> 1, scoped |-> FALSE])
    /\ Only({"path"}, published = {})
    /\ Only({"routes"}, routes = [h \in RouteHosts |-> NoRouteRow])
    /\ Only({"ingress"}, reserved = {} /\ port = [s \in Sockets |-> CHOOSE p \in Ports : TRUE])
    /\ TaskInit /\ Init /\ ArtifactInit /\ GateInit /\ PromotionInit /\ TrustInit /\ SecretInit
    /\ ModeInit /\ OrderInit /\ HostInit /\ PathInit /\ StreamInit /\ AdminInit /\ RouteInit
    /\ PortInit /\ IngressInit /\ EventInit /\ StoreInit /\ ExternalInit

Kept(names, v) == IF part \in names THEN TRUE ELSE UNCHANGED v

(* The uploads of a behaviour are of one artifact: others share no file.     *)
OneArtifact(a) == \A u \in Uploads : upload[u].at # "idle" => Of(u) = a

ReleaseNext ==
    /\ \/ part = "tasks" /\ TaskNext
       \/ part = "builds" /\ Next
       \/ part = "binaries" /\ ArtifactNext /\ OneArtifact(a1)'
       \/ part = "sources" /\ ArtifactNext /\ OneArtifact(a2)'
       \/ part = "gate" /\ GateNext
       \/ part = "promotion" /\ PromotionNext
    /\ Kept({"tasks"}, taskVars) /\ Kept({"builds"}, vars)
    /\ Kept({"binaries", "sources"}, artifactVars) /\ Kept({"gate"}, gateVars)
    /\ Kept({"promotion"}, promotionVars)

NodeNext ==
    /\ \/ part = "roots" /\ RootNext
       \/ part = "signing" /\ FileNext
       \/ part = "secrets" /\ SecretNext
       \/ part = "mode" /\ ModeNext
       \/ part = "order" /\ OrderNext
       \/ part = "hosts" /\ HostNext
    /\ Kept({"roots", "signing"}, trustVars) /\ Kept({"secrets"}, secretVars)
    /\ Kept({"mode"}, serviceVars) /\ Kept({"order"}, orderVars) /\ Kept({"hosts"}, hostVars)

EdgeNext ==
    /\ \/ part = "path" /\ PathNext
       \/ part = "streams" /\ StreamNext
       \/ part = "accounts" /\ AdminNext
       \/ part = "routes" /\ RouteNext
       \/ part = "port" /\ PortNext
       \/ part = "ingress" /\ IngressNext
       \/ part = "events" /\ EventNext
       \/ part = "store" /\ StoreNext
       \/ part = "external" /\ ExternalNext
    /\ Kept({"path"}, pathVars) /\ Kept({"streams"}, streamVars)
    /\ Kept({"accounts"}, adminVars) /\ Kept({"routes"}, routeVars) /\ Kept({"port"}, portVars)
    /\ Kept({"ingress"}, ingressVars) /\ Kept({"events"}, eventVars) /\ Kept({"store"}, storeVars)
    /\ Kept({"external"}, externalVars)

ComponentNext ==
    \/ ReleaseNext /\ UNCHANGED <<part, nodeGroup, edgeGroup>>
    \/ NodeNext /\ UNCHANGED <<part, releaseGroup, edgeGroup>>
    \/ EdgeNext /\ UNCHANGED <<part, releaseGroup, nodeGroup>>

ComponentSpec == ComponentInit /\ [][ComponentNext]_componentVars
=============================================================================
