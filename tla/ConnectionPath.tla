---------------------------- MODULE ConnectionPath ----------------------------
(* A client connection on its way to an upstream: the connection filters,   *)
(* the first packet, the handshake filters, the status ping, the route       *)
(* providers with their cache, and the dial.  Every stage loads the          *)
(* published extensions for itself and asks their handlers in priority       *)
(* order, while an administrator enables and disables plugins.  A plugin     *)
(* registers every extension point it can; what it answers is up to it.      *)
EXTENDS Naturals, FiniteSets

CONSTANTS
    Plugins,       \* numbered in the order of (priority, plugin ID)
    FailClosed,    \* plugins whose manifest says fail_policy close
    Connections,
    ServerHosts,   \* host names a client or a rewrite can name
    Routed,        \* the ones the route table knows
    MaxSwitches    \* administrator's operations

ASSUME PathAssumption ==
    /\ Plugins \subseteq Nat \ {0}
    /\ FailClosed \subseteq Plugins
    /\ ServerHosts # {} /\ Routed \subseteq ServerHosts
    /\ MaxSwitches \in Nat

VARIABLES
    published,   \* extensionSnapshot: the plugins whose handlers it holds
    routeCache,  \* host -> the decision of a provider
    clearing,    \* a removal that has published and not yet cleared the cache
    conn,        \* the connections
    switches

pathVars == <<published, routeCache, clearing, conn, switches>>

-----------------------------------------------------------------------------
NoEntry == [by |-> 0, refuse |-> FALSE]

(* through and passed are history: the plugins published ever since the      *)
(* connection started, and the filters that let it through.                  *)
Conns == [at : {"new", "connection", "handshake", "status", "route", "dial", "relaying", "closed"},
          todo : SUBSET Plugins, host : ServerHosts, by : Plugins \cup {0},
          through : SUBSET Plugins, passed : SUBSET ({"connection", "handshake"} \X Plugins)]

Fresh == [at |-> "new", todo |-> {}, host |-> CHOOSE h \in ServerHosts : TRUE,
          by |-> 0, through |-> {}, passed |-> {}]

PathInit ==
    /\ published \in SUBSET Plugins
    /\ routeCache = [h \in ServerHosts |-> NoEntry]
    /\ clearing = FALSE
    /\ conn = [c \in Connections |-> Fresh]
    /\ switches = 0

(* The handler of a stage that is asked next (sortMiddlewareHandlers and     *)
(* the like).                                                               *)
First(todo) == CHOOSE p \in todo : \A q \in todo : p <= q

(* Stage by stage; each loads the snapshot anew.                            *)
Enter(c, stage) == [c EXCEPT !.at = stage, !.todo = published]
Closed(c) == [c EXCEPT !.at = "closed", !.todo = {}]

Asks(c, stage) == conn[c].at = stage /\ conn[c].todo # {}
Asked(c) == conn[c].at \in {"connection", "handshake", "status", "route"} /\ conn[c].todo = {}

Connect(c) ==
    /\ conn[c].at = "new"
    /\ conn' = [conn EXCEPT ![c] = Enter([@ EXCEPT !.through = published], "connection")]
    /\ UNCHANGED <<published, routeCache, clearing, switches>>

-----------------------------------------------------------------------------
(* FilterConnection and FilterHandshake: an acceptor that declines skips     *)
(* the handler; a panic, an error or a timeout of either is decided by the   *)
(* fail policy; a decision without Allow, or with Reject, ends the request.  *)

Refuses(p, answer) == answer = "block" \/ (answer = "error" /\ p \in FailClosed)

Filter(c, stage, answer) ==
    LET p == First(conn[c].todo)
        next == [conn[c] EXCEPT !.todo = @ \ {p},
                                !.passed = IF answer # "error" \/ p \notin FailClosed
                                             THEN @ \cup {<<stage, p>>} ELSE @]
    IN  /\ Asks(c, stage)
        /\ conn' = [conn EXCEPT ![c] = IF Refuses(p, answer) THEN Closed(next) ELSE next]
        /\ UNCHANGED <<published, routeCache, clearing, switches>>

FilterConnection(c) == \E answer \in {"skip", "allow", "block", "error"} : Filter(c, "connection", answer)
FilterHandshake(c) == \E answer \in {"skip", "allow", "block", "error"} : Filter(c, "handshake", answer)

(* A handler that allows may rewrite the host; later handlers and stages     *)
(* see the new one, and the first packet is rebuilt with it.                 *)
RewriteHost(c, host) ==
    /\ Asks(c, "handshake") /\ host # conn[c].host
    /\ LET p == First(conn[c].todo) IN
         conn' = [conn EXCEPT ![c].todo = @ \ {p}, ![c].host = host,
                              ![c].passed = @ \cup {<<"handshake", p>>}]
    /\ UNCHANGED <<published, routeCache, clearing, switches>>

(* readMinecraftPacket and ParseHandshake: a malformed or short packet, an   *)
(* empty host name, or the host the client asks for.                         *)
ReadHandshake(c, host) ==
    /\ conn[c].at = "connection" /\ Asked(c)
    /\ conn' = [conn EXCEPT ![c] = Enter([@ EXCEPT !.host = host], "handshake")]
    /\ UNCHANGED <<published, routeCache, clearing, switches>>

BadPacket(c) ==
    /\ conn[c].at = "connection" /\ Asked(c)
    /\ conn' = [conn EXCEPT ![c] = Closed(@)]
    /\ UNCHANGED <<published, routeCache, clearing, switches>>

-----------------------------------------------------------------------------
(* A status query asks the status handlers first; a login goes on to the     *)
(* route.                                                                    *)
NextState(c, stage) ==
    /\ conn[c].at = "handshake" /\ Asked(c)
    /\ conn' = [conn EXCEPT ![c] = Enter(@, stage)]
    /\ UNCHANGED <<published, routeCache, clearing, switches>>

(* StatusPing: the first answer is written back and ends the connection; an  *)
(* error goes on to the route.                                               *)
StatusPing(c, answer) ==
    /\ Asks(c, "status")
    /\ conn' = [conn EXCEPT ![c] =
                  CASE answer = "response" -> Closed(@)
                    [] answer = "error" -> [@ EXCEPT !.todo = {}]
                    [] answer = "pass" -> [@ EXCEPT !.todo = conn[c].todo \ {First(conn[c].todo)}]]
    /\ UNCHANGED <<published, routeCache, clearing, switches>>

StatusUnanswered(c) ==
    /\ conn[c].at = "status" /\ Asked(c)
    /\ conn' = [conn EXCEPT ![c] = Enter(@, "route")]
    /\ UNCHANGED <<published, routeCache, clearing, switches>>

-----------------------------------------------------------------------------
(* ResolveRoute and resolveGatewayRoute.                                     *)

Route(c, entry) ==
    IF entry.refuse THEN Closed(c) ELSE [c EXCEPT !.at = "dial", !.todo = {}, !.by = entry.by]

Cached(host) == routeCache[host] # NoEntry

(* The route table: by = 0.                                                  *)
Fallback(host) == [by |-> 0, refuse |-> host \notin Routed]

(* A provider decides: an upstream, or a rejection.  The decision is cached  *)
(* and followed.                                                             *)
Decide(c, refuse) ==
    /\ Asks(c, "route")
    /\ LET entry == [by |-> First(conn[c].todo), refuse |-> refuse] IN
         /\ routeCache' = [routeCache EXCEPT ![conn[c].host] = entry]
         /\ conn' = [conn EXCEPT ![c] = Route(@, entry)]
    /\ UNCHANGED <<published, clearing, switches>>

(* It passes, declines, or decides nothing.                                  *)
Pass(c) ==
    /\ Asks(c, "route")
    /\ conn' = [conn EXCEPT ![c].todo = @ \ {First(@)}]
    /\ UNCHANGED <<published, routeCache, clearing, switches>>

(* A provider that fails ends the asking, a panicking acceptor also the use  *)
(* of the cache.                                                             *)
ProviderFails(c) ==
    /\ Asks(c, "route")
    /\ conn' = [conn EXCEPT ![c].todo = {}]
    /\ UNCHANGED <<published, routeCache, clearing, switches>>

AcceptorPanics(c) ==
    /\ Asks(c, "route")
    /\ conn' = [conn EXCEPT ![c] = Route(@, Fallback(@.host))]
    /\ UNCHANGED <<published, routeCache, clearing, switches>>

Undecided(c) ==
    /\ conn[c].at = "route" /\ Asked(c)
    /\ conn' = [conn EXCEPT ![c] = Route(@, IF Cached(@.host) THEN routeCache[@.host] ELSE Fallback(@.host))]
    /\ UNCHANGED <<published, routeCache, clearing, switches>>

(* The dial by the target's protocol and the replay of the first packet.     *)
Dial(c, ok) ==
    /\ conn[c].at = "dial"
    /\ conn' = [conn EXCEPT ![c].at = IF ok THEN "relaying" ELSE "closed"]
    /\ UNCHANGED <<published, routeCache, clearing, switches>>

HangUp(c) ==
    /\ conn[c].at = "relaying"
    /\ conn' = [conn EXCEPT ![c] = Closed(@)]
    /\ UNCHANGED <<published, routeCache, clearing, switches>>

-----------------------------------------------------------------------------
(* Publication, under m.mu: what is published is carried over.               *)

(* Mutant: the new snapshot holds only what was just enabled.                *)
PublishAlone(p) == {p}

PublishExtensions(p) == published \cup {p}

EnableExtensions(p) ==
    /\ ~clearing /\ switches < MaxSwitches
    /\ published' = PublishExtensions(p)
    /\ switches' = switches + 1
    /\ UNCHANGED <<routeCache, clearing, conn>>

RemoveExtensions(p) ==
    /\ ~clearing /\ switches < MaxSwitches
    /\ published' = published \ {p}
    /\ conn' = [c \in Connections |-> [conn[c] EXCEPT !.through = @ \ {p}]]
    /\ clearing' = TRUE
    /\ switches' = switches + 1
    /\ UNCHANGED routeCache

ClearRouteCache ==
    /\ clearing /\ clearing' = FALSE
    /\ routeCache' = [h \in ServerHosts |-> NoEntry]
    /\ UNCHANGED <<published, conn, switches>>

RefreshRouteProviders ==
    /\ switches < MaxSwitches
    /\ switches' = switches + 1
    /\ routeCache' = [h \in ServerHosts |-> NoEntry]
    /\ UNCHANGED <<published, clearing, conn>>

(* cachedRoute drops an entry whose time is over.                            *)
ExpireRoute(h) ==
    /\ Cached(h)
    /\ routeCache' = [routeCache EXCEPT ![h] = NoEntry]
    /\ UNCHANGED <<published, clearing, conn, switches>>

PathNext ==
    \/ \E c \in Connections :
         \/ Connect(c) \/ FilterConnection(c) \/ FilterHandshake(c) \/ BadPacket(c)
         \/ \E h \in ServerHosts : ReadHandshake(c, h) \/ RewriteHost(c, h)
         \/ \E stage \in {"status", "route"} : NextState(c, stage)
         \/ \E answer \in {"response", "error", "pass"} : StatusPing(c, answer)
         \/ StatusUnanswered(c)
         \/ \E refuse \in BOOLEAN : Decide(c, refuse)
         \/ Pass(c) \/ ProviderFails(c) \/ AcceptorPanics(c) \/ Undecided(c)
         \/ \E ok \in BOOLEAN : Dial(c, ok)
         \/ HangUp(c)
    \/ \E p \in Plugins : EnableExtensions(p) \/ RemoveExtensions(p)
    \/ ClearRouteCache \/ RefreshRouteProviders
    \/ \E h \in ServerHosts : ExpireRoute(h)

PathSpec == PathInit /\ [][PathNext]_pathVars

-----------------------------------------------------------------------------
(* Types of the snapshot, of the cache and of the connections.               *)
PathTypeOK ==
    /\ published \subseteq Plugins
    /\ routeCache \in [ServerHosts -> [by : Plugins \cup {0}, refuse : BOOLEAN]]
    /\ clearing \in BOOLEAN /\ switches \in 0 .. MaxSwitches
    /\ conn \in [Connections -> Conns]

(* No bytes reach an upstream past a filter: whatever is enabled and         *)
(* disabled meanwhile, both filters of a plugin that was published all the   *)
(* time from the connection's start let it through, and a plugin that fails  *)
(* closed did not fail.                                                      *)
FiltersCover ==
    \A c \in Connections : conn[c].at \in {"dial", "relaying"} =>
        {"connection", "handshake"} \X conn[c].through \subseteq conn[c].passed

=============================================================================
