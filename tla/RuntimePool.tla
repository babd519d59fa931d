----------------------------- MODULE RuntimePool -----------------------------
(***************************************************************************)
(* What the manager promises of the plugin runtimes to the connections      *)
(* that use them, whatever operations overlap: a runtime is started once,   *)
(* its stop is decided once and only while nobody is inside, nobody enters  *)
(* it after an upgrade has superseded it, and only a Close stops a runtime  *)
(* that is in use.  TakeoverRetirement implements it.  That a runtime is    *)
(* still running when it is entered is not promised: a connection with an   *)
(* old snapshot may come after the stop.                                    *)
(***************************************************************************)
CONSTANTS
    Runtimes,
    Users,       \* invocations of a handler: a connection at a chain position
    NoRuntime

VARIABLES
    life,        \* of each runtime: free, started, stopping, stopped
    superseded,  \* runtimes that another one has replaced
    using,       \* the runtime each user is inside
    closing      \* the manager is shutting down

poolVars == <<life, superseded, using, closing>>

PoolInit ==
    /\ life = [r \in Runtimes |-> "free"] /\ superseded = {}
    /\ using = [u \in Users |-> NoRuntime] /\ closing = FALSE

Start(r) ==
    /\ life[r] = "free" /\ ~closing
    /\ life' = [life EXCEPT ![r] = "started"]
    /\ UNCHANGED <<superseded, using, closing>>

Enter(u, r) ==
    /\ using[u] = NoRuntime /\ r \notin superseded /\ life[r] # "free"
    /\ using' = [using EXCEPT ![u] = r]
    /\ UNCHANGED <<life, superseded, closing>>

Leave(u) ==
    /\ using[u] # NoRuntime
    /\ using' = [using EXCEPT ![u] = NoRuntime]
    /\ UNCHANGED <<life, superseded, closing>>

Supersede(r) ==
    /\ life[r] = "started"
    /\ superseded' = superseded \cup {r}
    /\ UNCHANGED <<life, using, closing>>

\* The end of a use may decide the stop of several runtimes.
DecideStops(rs) ==
    /\ \A r \in rs : life[r] = "started" /\ \A u \in Users : using[u] # r
    /\ life' = [r \in Runtimes |-> IF r \in rs THEN "stopping" ELSE life[r]]
    /\ UNCHANGED <<superseded, using, closing>>

Stopped(r) ==
    /\ life[r] = "stopping"
    /\ life' = [life EXCEPT ![r] = "stopped"]
    /\ UNCHANGED <<superseded, using, closing>>

Close ==
    /\ closing' = TRUE
    /\ UNCHANGED <<life, superseded, using>>

CloseStops(r) ==
    /\ closing /\ life[r] = "started"
    /\ life' = [life EXCEPT ![r] = "stopped"]
    /\ UNCHANGED <<superseded, using, closing>>

PoolNext ==
    \/ \E r \in Runtimes : Start(r) \/ Supersede(r) \/ Stopped(r) \/ CloseStops(r)
    \/ \E u \in Users : Leave(u) \/ \E r \in Runtimes : Enter(u, r)
    \/ \E rs \in SUBSET Runtimes : DecideStops(rs)
    \/ Close

PoolSpec == PoolInit /\ [][PoolNext]_poolVars
=============================================================================
