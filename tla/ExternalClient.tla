---------------------------- MODULE ExternalClient ----------------------------
(***************************************************************************)
(* One external dependency of a plugin and its circuit breaker             *)
(* (pluginExternalClient in internal/pluginmanager/operations.go), and one *)
(* operations exporter, whose sink is called with no lock held.            *)
(***************************************************************************)
EXTENDS Naturals

CONSTANTS
    Requests,   \* goroutines that call the dependency
    Sinks,      \* sinks an administrator configures
    Threshold,  \* 3: consecutive failures that open the circuit
    Window,     \* 30 seconds, in ticks
    MaxExports, \* bound of the exports and configurations
    NoSink

VARIABLES
    failures,   \* consecutiveFailures, up to the threshold
    openFor,       \* what is left of circuitUntil
    inflight,   \* requests between beforeRequest and their return
    stretched,  \* ghost: the window was moved while it was open
    sink, enabled, lastError,   \* operationsExporterRuntime
    exporting,  \* the sink of the export in flight
    exports

circuitVars == <<failures, openFor, inflight, stretched>>
exporterVars == <<sink, enabled, lastError, exporting, exports>>
externalVars == <<circuitVars, exporterVars>>

ExternalInit ==
    /\ failures = 0 /\ openFor = 0 /\ inflight = {} /\ stretched = FALSE
    /\ sink = NoSink /\ enabled = FALSE /\ lastError = FALSE /\ exporting = NoSink
    /\ exports = 0

-----------------------------------------------------------------------------
(* finish: every error counts, the circuit opens again with each one.      *)

Failed ==
    /\ failures' = IF failures < Threshold THEN failures + 1 ELSE failures
    /\ openFor' = IF failures + 1 >= Threshold THEN Window ELSE openFor
    /\ stretched' = (stretched \/ (openFor > 0 /\ openFor' > openFor))

Succeeded == failures' = 0 /\ openFor' = 0 /\ UNCHANGED stretched

\* A URL or an address outside the declared endpoint, or an open circuit:
\* the call is refused, and the refusal is an error for finish.
Refused(r) ==
    /\ r \notin inflight
    /\ Failed
    /\ UNCHANGED <<inflight, exporterVars>>

CircuitOpen(r) == openFor > 0 /\ Refused(r)
PolicyDenied(r) == Refused(r)

beforeRequest(r) ==
    /\ r \notin inflight /\ openFor = 0
    /\ inflight' = inflight \cup {r}
    /\ UNCHANGED <<failures, openFor, stretched, exporterVars>>

\* DoHTTP and DialTCP, with the retries of the specification behind them.
RequestReturns(r) ==
    /\ r \in inflight
    /\ inflight' = inflight \ {r}
    /\ Failed \/ Succeeded
    /\ UNCHANGED exporterVars

CircuitTick ==
    /\ openFor > 0
    /\ openFor' = openFor - 1
    /\ UNCHANGED <<failures, inflight, stretched, exporterVars>>

-----------------------------------------------------------------------------
(* The exporter.                                                           *)

ConfigureExporter(s, on) ==
    /\ exports < MaxExports /\ exports' = exports + 1
    /\ sink' = s /\ enabled' = on
    /\ UNCHANGED <<circuitVars, lastError, exporting>>

RollbackExporter ==
    /\ enabled
    /\ sink' = NoSink /\ enabled' = FALSE
    /\ UNCHANGED <<circuitVars, lastError, exporting, exports>>

\* export reads the configuration, then calls the sink without the lock.  A
\* missing sink and a label the boundary rejects are failures as well.
ExportStarts ==
    /\ enabled /\ exporting = NoSink /\ exports < MaxExports /\ exports' = exports + 1
    /\ \/ sink # NoSink /\ exporting' = sink /\ UNCHANGED lastError
       \/ lastError' = TRUE /\ UNCHANGED exporting
    /\ UNCHANGED <<circuitVars, sink, enabled>>

ExportReturns ==
    /\ exporting # NoSink
    /\ exporting' = NoSink
    /\ lastError' \in BOOLEAN
    /\ UNCHANGED <<circuitVars, sink, enabled, exports>>

ExternalNext ==
    \/ \E r \in Requests : CircuitOpen(r) \/ PolicyDenied(r) \/ beforeRequest(r) \/ RequestReturns(r)
    \/ CircuitTick
    \/ \E s \in Sinks \cup {NoSink}, on \in BOOLEAN : ConfigureExporter(s, on)
    \/ RollbackExporter \/ ExportStarts \/ ExportReturns

ExternalSpec == ExternalInit /\ [][ExternalNext]_externalVars

\* Time passes, and requests in flight return (their context has a timeout).
ExternalFair ==
    /\ ExternalSpec /\ WF_externalVars(CircuitTick)
    /\ \A r \in Requests : WF_externalVars(RequestReturns(r))

-----------------------------------------------------------------------------
\* The circuit is never opened for longer than one window (finish).
OpenBriefly == openFor > 0 ~> openFor = 0
=============================================================================
