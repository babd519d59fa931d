------------------------------ MODULE SharedPort ------------------------------
(* One TCP port for the admin HTTP server and for Minecraft: every accepted  *)
(* connection is read by a goroutine of its own until its protocol is known, *)
(* and goes to the HTTP server's queue or to the TCP handler.  Serve ends    *)
(* when its listener is closed.                                              *)
EXTENDS Naturals, FiniteSets

CONSTANTS
    Clients,    \* connections
    Backlog     \* the queue's length

ASSUME PortAssumption == Backlog \in Nat \ {0} /\ IsFiniteSet(Clients)

VARIABLES
    serve,      \* Serve: its accept loop and its deferred steps, in order
    webClosed,  \* ChanListener.closed
    web,        \* http.Server: serving, or its Serve has returned
    client,     \* where each connection is
    routing     \* routingWG: connections not handed off yet

portVars == <<serve, webClosed, web, client, routing>>

-----------------------------------------------------------------------------
PortInit ==
    /\ serve = "accepting" /\ webClosed = FALSE /\ web = "serving"
    /\ client = [c \in Clients |-> "waiting"]
    /\ routing = {}

InBacklog == {c \in Clients : client[c] = "queued"}

Accept(c) ==
    /\ serve = "accepting" /\ client[c] = "waiting"
    /\ client' = [client EXCEPT ![c] = "reading"]
    /\ routing' = routing \cup {c}
    /\ UNCHANGED <<serve, webClosed, web>>

(* ReadInitialPacket fails, times out or reads nothing.                      *)
NoPacket(c) ==
    /\ client[c] = "reading"
    /\ client' = [client EXCEPT ![c] = "closed"]
    /\ routing' = routing \ {c}
    /\ UNCHANGED <<serve, webClosed, web>>

(* Mutant: the goroutine is counted until the protocol is known, not until   *)
(* the connection is delivered.                                              *)
RoutedWhenRead(c) == routing' = routing \ {c}

StillRouting(c) == UNCHANGED routing

(* The first bytes are an HTTP method: Deliver looks at closed first ...     *)
DeliverChecks(c) ==
    /\ client[c] = "reading"
    /\ client' = [client EXCEPT ![c] = IF webClosed THEN "refused" ELSE "delivering"]
    /\ StillRouting(c)
    /\ UNCHANGED <<serve, webClosed, web>>

(* ... and then tries the queue, whatever closed is by then: a full queue or *)
(* a closed listener refuses, and select takes any branch that is ready.     *)
DeliverQueues(c) ==
    /\ client[c] = "delivering" /\ Cardinality(InBacklog) < Backlog
    /\ client' = [client EXCEPT ![c] = "queued"]
    /\ routing' = routing \ {c}
    /\ UNCHANGED <<serve, webClosed, web>>

DeliverRefuses(c) ==
    /\ client[c] = "delivering" /\ (webClosed \/ Cardinality(InBacklog) >= Backlog)
    /\ client' = [client EXCEPT ![c] = "refused"]
    /\ UNCHANGED <<serve, webClosed, web, routing>>

CloseRefused(c) ==
    /\ client[c] = "refused"
    /\ client' = [client EXCEPT ![c] = "closed"]
    /\ routing' = routing \ {c}
    /\ UNCHANGED <<serve, webClosed, web>>

(* Anything else is Minecraft: the hand-off comes before the handler.        *)
HandToTCP(c) ==
    /\ client[c] = "reading"
    /\ client' = [client EXCEPT ![c] = "tcp"]
    /\ routing' = routing \ {c}
    /\ UNCHANGED <<serve, webClosed, web>>

(* ChanListener.Accept, by the HTTP server.                                  *)
AcceptHTTP(c) ==
    /\ web = "serving" /\ client[c] = "queued"
    /\ client' = [client EXCEPT ![c] = "served"]
    /\ UNCHANGED <<serve, webClosed, web, routing>>

(* The handler is done with its connection.                                  *)
HandlerCloses(c) ==
    /\ client[c] \in {"tcp", "served"}
    /\ client' = [client EXCEPT ![c] = "closed"]
    /\ UNCHANGED <<serve, webClosed, web, routing>>

-----------------------------------------------------------------------------
(* The end of Serve: its three deferred steps.                               *)

ListenerCloses ==
    /\ serve = "accepting"
    /\ serve' = "closeWeb"
    /\ UNCHANGED <<webClosed, web, client, routing>>

CloseWebListener ==
    /\ serve = "closeWeb"
    /\ webClosed' = TRUE
    /\ serve' = "waitWeb"
    /\ UNCHANGED <<web, client, routing>>

(* webServer.Close closes what the HTTP server has; its Serve returns.       *)
WebServerEnds ==
    /\ serve = "waitWeb"
    /\ web' = "ended"
    /\ client' = [c \in Clients |-> IF client[c] = "served" THEN "closed" ELSE client[c]]
    /\ serve' = "waitRouting"
    /\ UNCHANGED <<webClosed, routing>>

ServeReturns ==
    /\ serve = "waitRouting" /\ routing = {}
    /\ serve' = "returned"
    /\ UNCHANGED <<webClosed, web, client, routing>>

PortNext ==
    \/ \E c \in Clients :
         \/ Accept(c) \/ NoPacket(c) \/ DeliverChecks(c) \/ DeliverQueues(c) \/ DeliverRefuses(c)
         \/ CloseRefused(c) \/ HandToTCP(c) \/ AcceptHTTP(c) \/ HandlerCloses(c)
    \/ ListenerCloses \/ CloseWebListener \/ WebServerEnds \/ ServeReturns

PortSpec == PortInit /\ [][PortNext]_portVars

-----------------------------------------------------------------------------
(* Types of the connections and of the end of Serve.                         *)
PortTypeOK ==
    /\ serve \in {"accepting", "closeWeb", "waitWeb", "waitRouting", "returned"}
    /\ web \in {"serving", "ended"} /\ webClosed \in BOOLEAN
    /\ client \in [Clients -> {"waiting", "reading", "delivering", "refused", "queued", "served", "tcp", "closed"}]
    /\ routing \subseteq Clients

(* When Serve has returned, no goroutine is left between reading a           *)
(* connection and handing it over, and a connection that no handler has and  *)
(* nobody closed sits in the queue, never more of them than its length.      *)
RoutedBeforeReturn ==
    serve = "returned" =>
      /\ \A c \in Clients : client[c] \in {"waiting", "queued", "tcp", "closed"}
      /\ Cardinality(InBacklog) <= Backlog
=============================================================================
