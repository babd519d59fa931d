----------------------------- MODULE WasmRuntime -----------------------------
(* A loaded WASM plugin: the calls that connections make into the module,   *)
(* the traps they count, the quarantine that a run of traps leads to, and   *)
(* the reloading, draining and stopping that an administrator's request     *)
(* does under the manager's lock.                                           *)
EXTENDS Naturals, FiniteSets

CONSTANTS
    WasmCalls,      \* connections that may call the module
    Admin,          \* the request that holds the manager's lock, as a caller
    WasmThreshold,  \* wasmTrapQuarantineThreshold
    Validates,      \* the manifest names config.validate/v1
    MaxWasmOps,     \* bound on reloads
    MaxWasmRefused  \* bound on refused calls

ASSUME WasmAssumption == Admin \notin WasmCalls /\ WasmThreshold \in Nat \ {0} /\ Validates \in BOOLEAN

VARIABLES
    wasm,   \* the instance: state, active calls, consecutive traps, quarantined, in dispatch
    wcall,  \* what each caller does
    wop,    \* what the holder of the manager's lock does
    wasmOps

wasmVars == <<wasm, wcall, wop, wasmOps>>

WasmCallers == WasmCalls \cup {Admin}

-----------------------------------------------------------------------------
(* WASMAdapter.Start: the module is validated and compiled; loading sets the *)
(* quarantine callback and publishes the handlers.                           *)
WasmInit ==
    /\ wasm = [state |-> "enabled", active |-> 0, traps |-> 0, quarantined |-> FALSE, published |-> TRUE, drained |-> FALSE]
    /\ wcall = [c \in WasmCallers |-> "idle"]
    /\ wop = "none"
    /\ wasmOps = [reloads |-> 0, refused |-> 0]

(* beginDispatch: refused unless the instance is enabled; a refusal is       *)
(* recorded, and is no trap.                                                 *)
BeginDispatch(c) ==
    /\ wcall[c] = "idle" /\ wasm.state = "enabled"
    /\ wasm' = [wasm EXCEPT !.active = @ + 1]
    /\ wcall' = [wcall EXCEPT ![c] = "running"]

Refuse(c) ==
    /\ wcall[c] = "idle" /\ wasm.state # "enabled" /\ wasmOps.refused < MaxWasmRefused
    /\ wasm' = [wasm EXCEPT !.traps = 0]
    /\ wasmOps' = [wasmOps EXCEPT !.refused = @ + 1]
    /\ UNCHANGED <<wcall, wop>>

Dispatch(c) ==
    /\ c \in WasmCalls
    /\ BeginDispatch(c)
    /\ UNCHANGED <<wop, wasmOps>>

(* WASMRunner.Dispatch ends, by its time limit at the latest: with what the  *)
(* module wrote to its memory, or with the error that wazero gave.           *)
Replies == {"ok", "plugin error", "bad output"}
Faults == {"trap", "timeout", "memory exceeded"}
Answers == Replies \cup Faults

(* recordDispatchWithContext counts: a trap after a trap, or not; a run of   *)
(* time-outs is none.  The call that reaches the threshold quarantines the   *)
(* instance and calls the manager before it is finished.                     *)
Record(c, answer) ==
    /\ wcall[c] = "running"
    /\ LET traps == IF answer = "trap" THEN wasm.traps + 1 ELSE 0
           hit == traps >= WasmThreshold /\ ~wasm.quarantined
       IN  /\ wasm' = [wasm EXCEPT !.traps = IF traps > WasmThreshold THEN WasmThreshold ELSE traps,
                                   !.quarantined = @ \/ hit, !.state = IF hit THEN "draining" ELSE @]
           /\ wcall' = [wcall EXCEPT ![c] = IF hit THEN "callback" ELSE "finish"]
    /\ UNCHANGED <<wop, wasmOps>>

(* Mutant: the callback does not wait for the lock.                          *)
CallbackTries(c) ==
    /\ wcall[c] = "callback"
    /\ wasm' = [wasm EXCEPT !.published = @ /\ wop # "none"]
    /\ wcall' = [wcall EXCEPT ![c] = "finish"]
    /\ UNCHANGED <<wop, wasmOps>>

(* handleWASMRepeatedTrapQuarantine takes the manager's lock; it leaves the  *)
(* plugin alone when another runtime is loaded by then.                      *)
Callback(c) ==
    /\ wcall[c] = "callback" /\ wop = "none"
    /\ wasm' = [wasm EXCEPT !.published = FALSE]
    /\ wcall' = [wcall EXCEPT ![c] = "finish"]
    /\ UNCHANGED <<wop, wasmOps>>

FinishDispatch(c) ==
    /\ wcall[c] = "finish"
    /\ wasm' = [wasm EXCEPT !.active = @ - 1]
    /\ wcall' = [wcall EXCEPT ![c] = "idle"]
    /\ UNCHANGED <<wop, wasmOps>>

-----------------------------------------------------------------------------
(* reloadLoadedRuntime holds the lock over ReloadConfig, and that over       *)
(* validateConfig, a call like any other.                                    *)
ReloadWasm ==
    /\ wop = "none" /\ wasm.state # "stopped" /\ wasmOps.reloads < MaxWasmOps
    /\ wasmOps' = [wasmOps EXCEPT !.reloads = @ + 1]
    /\ wop' = "reload"
    /\ IF Validates /\ wasm.state = "enabled" THEN BeginDispatch(Admin) ELSE UNCHANGED <<wasm, wcall>>

ReloadEnds ==
    /\ wop = "reload" /\ wcall[Admin] = "idle"
    /\ wop' = "none"
    /\ UNCHANGED <<wasm, wcall, wasmOps>>

(* Mutant: drain waits without closing the door.                             *)
WaitOnly(s) == s

(* drain: the state first, then the wait.                                    *)
DrainState(s) == IF s = "stopped" THEN s ELSE "draining"

(* Disable: out of dispatch, drain, stop.                                    *)
DisableWasm ==
    /\ wop = "none" /\ wasm.state # "stopped"
    /\ wop' = "drain"
    /\ wasm' = [wasm EXCEPT !.published = FALSE, !.state = DrainState(@)]
    /\ UNCHANGED <<wcall, wasmOps>>

(* drain returns when no call is active, or with an error at its time limit. *)
DrainReturns(timeout) ==
    /\ wop = "drain" /\ (timeout \/ wasm.active = 0)
    /\ wop' = "stop"
    /\ wasm' = [wasm EXCEPT !.drained = ~timeout, !.state = DrainState(@)]
    /\ UNCHANGED <<wcall, wasmOps>>

(* stop drains again, then releases the module; calls keep their copy.       *)
StopWasm(timeout) ==
    /\ wop = "stop" /\ (timeout \/ wasm.active = 0)
    /\ wop' = "none"
    /\ wasm' = [wasm EXCEPT !.drained = @ \/ ~timeout, !.state = "stopped"]
    /\ UNCHANGED <<wcall, wasmOps>>

WasmNext ==
    \/ \E c \in WasmCallers :
         \/ Dispatch(c) \/ Callback(c) \/ FinishDispatch(c)
         \/ \E answer \in Answers : Record(c, answer)
    \/ \E c \in WasmCalls : Refuse(c)
    \/ ReloadWasm \/ ReloadEnds \/ DisableWasm
    \/ \E timeout \in BOOLEAN : DrainReturns(timeout) \/ StopWasm(timeout)

(* A call ends by its time limit; whoever waits for the lock gets it.        *)
CallStep(c) == Callback(c) \/ FinishDispatch(c) \/ \E answer \in Answers : Record(c, answer)
AdminStep == ReloadEnds \/ DrainReturns(TRUE) \/ StopWasm(TRUE)

WasmSpec == WasmInit /\ [][WasmNext]_wasmVars
WasmFairSpec == WasmSpec /\ WF_wasmVars(AdminStep) /\ \A c \in WasmCallers : WF_wasmVars(CallStep(c))

-----------------------------------------------------------------------------
(* Once a drain has returned without an error no call is in the module, and  *)
(* none enters it again.                                                     *)
DrainedIsIdle == wasm.drained => \A c \in WasmCalls : wcall[c] = "idle"

(* What the production plan says: repeated traps can lead to quarantine -    *)
(* the instance that reached the threshold leaves the dispatch tables.       *)
TrapsLeaveDispatch == wasm.quarantined ~> ~wasm.published

(* What the production plan's acceptance list says: a trap does not affect   *)
(* the gateway - whoever holds the manager's lock gives it back.             *)
TrapSparesGateway == wop # "none" ~> wop = "none"
=============================================================================
