--------------------------- MODULE IngressListeners ---------------------------
(* The listeners of plugins that serve ingress: one per plugin, started by   *)
(* calls that listen without a lock, and closed by Disable, Drain and the    *)
(* manager's Close.                                                          *)
EXTENDS Naturals, FiniteSets

CONSTANTS
    Sockets,     \* listeners ever opened, one per call of StartIngressListener
    Ports,       \* ports a manifest can ask for
    NoSocket

ASSUME IngressAssumption == NoSocket \notin Sockets

VARIABLES
    reserved,    \* ports of the gateway's own services
    listening,   \* sockets that are open
    entry,       \* listeners[plugin]: its socket and state
    start,       \* the calls of StartIngressListener
    port,        \* the port each call asks for
    managerClosed

ingressVars == <<reserved, listening, entry, start, port, managerClosed>>

-----------------------------------------------------------------------------
IngressInit ==
    /\ reserved \in SUBSET Ports
    /\ listening = {}
    /\ entry = [socket |-> NoSocket, state |-> "none"]
    /\ start = [s \in Sockets |-> "new"]
    /\ port \in [Sockets -> Ports]
    /\ managerClosed = "open"

(* StartIngressListener up to the lock: the manager is not closing, the      *)
(* gate is open and the manifest asks for ingress.                           *)
BeginStart(s) ==
    /\ start[s] = "new" /\ managerClosed = "open"
    /\ start' = [start EXCEPT ![s] = "check"]
    /\ UNCHANGED <<reserved, listening, entry, port, managerClosed>>

(* Start: a port of the gateway's own services is refused under the lock.    *)
CheckReserved(s) ==
    /\ start[s] = "check"
    /\ start' = [start EXCEPT ![s] = IF port[s] \in reserved THEN "failed" ELSE "listen"]
    /\ UNCHANGED <<reserved, listening, entry, port, managerClosed>>

InUse(p) == \E s \in listening : port[s] = p

(* net.Listen, without the lock.                                             *)
ListenPort(s) ==
    /\ start[s] = "listen"
    /\ start' = [start EXCEPT ![s] = IF InUse(port[s]) THEN "failed" ELSE "register"]
    /\ listening' = IF InUse(port[s]) THEN listening ELSE listening \cup {s}
    /\ UNCHANGED <<reserved, entry, port, managerClosed>>

(* Mutant: the listener it replaces is forgotten.                            *)
ForgetOld(s) == listening

CloseOld(s) == listening \ {entry.socket}

Register(s) ==
    /\ start[s] = "register"
    /\ listening' = CloseOld(s)
    /\ entry' = [socket |-> s, state |-> "enabled"]
    /\ start' = [start EXCEPT ![s] = "done"]
    /\ UNCHANGED <<reserved, port, managerClosed>>

(* Disable and Drain close the plugin's listener and keep its entry.         *)
CloseListener(state) ==
    /\ entry.state # "none"
    /\ listening' = listening \ {entry.socket}
    /\ entry' = [socket |-> NoSocket, state |-> state]
    /\ UNCHANGED <<reserved, start, port, managerClosed>>

(* Manager.Close sets closing, and then closes every listener.               *)
BeginClose ==
    /\ managerClosed = "open"
    /\ managerClosed' = "closing"
    /\ UNCHANGED <<reserved, listening, entry, start, port>>

CloseIngress ==
    /\ managerClosed = "closing"
    /\ managerClosed' = "closed"
    /\ listening' = listening \ {entry.socket}
    /\ entry' = IF entry.state = "none" THEN entry ELSE [socket |-> NoSocket, state |-> "draining"]
    /\ UNCHANGED <<reserved, start, port>>

(* RefreshReservedListeners replaces the list; what listens goes on.         *)
RefreshReserved(r) ==
    /\ reserved' = r
    /\ UNCHANGED <<listening, entry, start, port, managerClosed>>

IngressNext ==
    \/ \E s \in Sockets : BeginStart(s) \/ CheckReserved(s) \/ ListenPort(s) \/ Register(s)
    \/ \E state \in {"disabled", "draining"} : CloseListener(state)
    \/ BeginClose \/ CloseIngress
    \/ \E r \in SUBSET Ports : RefreshReserved(r)

IngressSpec == IngressInit /\ [][IngressNext]_ingressVars

-----------------------------------------------------------------------------
(* Types of the listeners and of the entry.                                  *)
IngressTypeOK ==
    /\ reserved \subseteq Ports /\ listening \subseteq Sockets
    /\ entry \in [socket : Sockets \cup {NoSocket}, state : {"none", "enabled", "disabled", "draining"}]
    /\ port \in [Sockets -> Ports]
    /\ start \in [Sockets -> {"new", "check", "listen", "register", "done", "failed"}]
    /\ managerClosed \in {"open", "closing", "closed"}

(* No open listener is lost: it is the one the plugin's entry closes, or a   *)
(* Start is about to register it; and an entry that says enabled is open.    *)
OpenListenerIsKnown ==
    /\ \A s \in listening : entry.socket = s \/ start[s] = "register"
    /\ entry.state = "enabled" => entry.socket \in listening
=============================================================================
