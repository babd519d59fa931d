------------------------------ MODULE ServiceMode ------------------------------
(* Where the plugins of a gateway run: the one row of plugin_service_state   *)
(* that every node shares, and the mode each node keeps in memory.           *)
(* ApplyPluginServiceMode runs when a manager is made (by a gateway or by    *)
(* the command line) and when an administrator posts to the service          *)
(* endpoint; nothing serialises its calls, and its statements on the row and *)
(* its assignment to the node's mode are steps of their own (future.go       *)
(* 101-379, repository.go 344-404).  The row's last_error and the reports of   *)
(* the nodes in plugin_nodes decide nothing; the limits of its crash policy  *)
(* are constants of HostProcesses.                                           *)
EXTENDS FiniteSets

CONSTANTS
    ModeNodes,   \* processes that share the database
    ModeCalls    \* calls of ApplyPluginServiceMode that can overlap

Modes == {"in-process", "go-plugin-process", "sandbox-process"}

VARIABLES
    serviceRow,   \* the row: desired and active mode
    nodeMode,     \* m.serviceMode; "none" while the node is down
    managed,      \* nodes whose manager picks its adapters by mode
    sandboxFit,   \* nodes whose gate, profile and self-check allow the sandbox
    modeCall,     \* the calls in progress
    overtaken     \* history: nodes whose mode is not from the latest active mode

serviceVars == <<serviceRow, nodeMode, managed, sandboxFit, modeCall, overtaken>>

NoApply == [at |-> "idle"]
Applying(n) == \E c \in ModeCalls : modeCall[c] # NoApply /\ modeCall[c].node = n

ModeInit ==
    /\ serviceRow = [desired |-> "in-process", active |-> "in-process"]
    /\ nodeMode = [n \in ModeNodes |-> "none"]
    /\ sandboxFit \in SUBSET ModeNodes /\ managed \in SUBSET ModeNodes
    /\ modeCall = [c \in ModeCalls |-> NoApply]
    /\ overtaken = {}

-----------------------------------------------------------------------------
(* What an administrator writes.                                             *)
SetPluginServiceDesired(mode) ==
    /\ serviceRow' = [serviceRow EXCEPT !.desired = mode]
    /\ UNCHANGED <<nodeMode, managed, sandboxFit, modeCall, overtaken>>

-----------------------------------------------------------------------------
(* ApplyPluginServiceMode.                                                   *)

(* PluginServiceModeFeatureForOptions: only the sandbox depends on the node. *)
HasDataPlane(n, mode) == mode # "sandbox-process" \/ n \in sandboxFit

(* validateSandboxServiceModeApply                                           *)
SandboxApplies(n) == n \in sandboxFit \cap managed

(* The row is read.  A sandbox that does not apply is refused, to go on with *)
(* the active mode of the row; without managed adapters the node falls back  *)
(* to in-process; otherwise the desired mode is made active.                 *)
SandboxRefused(n) == serviceRow.desired = "sandbox-process" /\ ~SandboxApplies(n)
FallsBack(n) == serviceRow.desired # "in-process" /\ n \notin managed

ReadMode(c, n) ==
    /\ modeCall[c] = NoApply /\ (nodeMode[n] = "none" => ~Applying(n))
    /\ \E step \in {[at |-> "refuse", mode |-> serviceRow.active],
                    [at |-> "fallback", mode |-> "in-process"],
                    [at |-> "activate", mode |-> serviceRow.desired]} :
         /\ step.at = "refuse" <=> SandboxRefused(n)
         /\ step.at = "fallback" <=> ~SandboxRefused(n) /\ FallsBack(n)
         /\ modeCall' = [modeCall EXCEPT ![c] =
                [at |-> step.at, node |-> n, mode |-> step.mode, late |-> FALSE]]
    /\ UNCHANGED <<serviceRow, nodeMode, managed, sandboxFit, overtaken>>

(* ApplyPluginServiceActive: the statement, then a select of the row.  late  *)
(* is history: the row has moved since a call that is refused has read it.   *)
ApplyPluginServiceActive(c) ==
    /\ modeCall[c].at \in {"activate", "fallback"}
    /\ serviceRow' = [serviceRow EXCEPT !.active = modeCall[c].mode]
    /\ modeCall' = [d \in ModeCalls |->
           IF d = c THEN [modeCall[c] EXCEPT !.at = IF @ = "activate" THEN "select" ELSE "skipped"]
           ELSE IF modeCall[d].at = "refuse" THEN [modeCall[d] EXCEPT !.late = TRUE] ELSE modeCall[d]]
    /\ overtaken' = overtaken \cup (ModeNodes \ {modeCall[c].node})
    /\ UNCHANGED <<nodeMode, managed, sandboxFit>>

(* A call ends with a mode for its node.                                     *)
Takes(c, mode, behind) ==
    /\ nodeMode' = [nodeMode EXCEPT ![modeCall[c].node] = mode]
    /\ modeCall' = [modeCall EXCEPT ![c] = NoApply]
    /\ overtaken' = IF behind THEN overtaken \cup {modeCall[c].node} ELSE overtaken \ {modeCall[c].node}
    /\ UNCHANGED <<serviceRow, managed, sandboxFit>>

(* The node takes the mode that the select finds.                            *)
TakeMode(c) == modeCall[c].at = "select" /\ Takes(c, serviceRow.active, FALSE)

(* Without managed adapters the node stays in process.                       *)
SkipMode(c) == modeCall[c].at = "skipped" /\ Takes(c, "in-process", FALSE)

(* recordPluginServiceModeApplyFailure: the node goes on with the active     *)
(* mode that the call read at its start.                                     *)
RecordFailure(c) == modeCall[c].at = "refuse" /\ Takes(c, modeCall[c].mode, modeCall[c].late)

(* A statement fails: the call returns its error, the mode is as it was; a   *)
(* manager that could not apply any mode runs in process.  When it is the    *)
(* select of ApplyPluginServiceActive, the row has moved.                    *)
ApplyFails(c) ==
    /\ modeCall[c] # NoApply
    /\ nodeMode' = [nodeMode EXCEPT ![modeCall[c].node] = IF @ = "none" THEN "in-process" ELSE @]
    /\ modeCall' = [modeCall EXCEPT ![c] = NoApply]
    /\ overtaken' = overtaken \cup {n \in {modeCall[c].node} : modeCall[c].at \in {"select", "skipped"}}
    /\ UNCHANGED <<serviceRow, managed, sandboxFit>>

(* The process stops, and starts again in an environment of its own.         *)
Restart(n) ==
    /\ nodeMode[n] # "none"
    /\ nodeMode' = [nodeMode EXCEPT ![n] = "none"]
    /\ sandboxFit' \in {sandboxFit \cup {n}, sandboxFit \ {n}}
    /\ modeCall' = [c \in ModeCalls |-> IF modeCall[c] # NoApply /\ modeCall[c].node = n THEN NoApply ELSE modeCall[c]]
    /\ overtaken' = overtaken \ {n}
    /\ UNCHANGED <<serviceRow, managed>>

-----------------------------------------------------------------------------
(* enrichPluginServiceState: what a node says of itself.                     *)
DataPlaneMode(n) == IF HasDataPlane(n, nodeMode[n]) THEN nodeMode[n] ELSE "in-process"

(* Mutant: only the desired mode is compared.                                *)
DesiredOnly(n) == serviceRow.desired # DataPlaneMode(n)

RestartRequired(n) ==
    \/ serviceRow.desired # serviceRow.active
    \/ serviceRow.desired # DataPlaneMode(n)
    \/ serviceRow.active # DataPlaneMode(n)

ModeNext ==
    \/ \E mode \in Modes : SetPluginServiceDesired(mode)
    \/ \E c \in ModeCalls :
         \/ \E n \in ModeNodes : ReadMode(c, n)
         \/ ApplyPluginServiceActive(c) \/ TakeMode(c) \/ SkipMode(c) \/ RecordFailure(c) \/ ApplyFails(c)
    \/ \E n \in ModeNodes : Restart(n)

ModeSpec == ModeInit /\ [][ModeNext]_serviceVars

-----------------------------------------------------------------------------
(* A node that is at rest and asks for no restart runs in the mode that the  *)
(* administrator wants: a mode that failed to apply, or that the node can no *)
(* longer run after a restart, keeps showing, although enrich reports such a *)
(* node as in-process.  It takes the comparison of all three modes, since    *)
(* the mode in memory may be one whose data plane is not there.  The code    *)
(* leaves three exceptions, the nodes in overtaken: another process has      *)
(* moved the shared row since the node's last call; a refused call ended     *)
(* with the mode it read before another call moved the row (future.go:273-   *)
(* 277); the select of ApplyPluginServiceActive failed (repository.go:393).  *)
NoAlertMeansDesired ==
    \A n \in ModeNodes :
        nodeMode[n] # "none" /\ ~Applying(n) /\ ~RestartRequired(n) =>
            nodeMode[n] = serviceRow.desired \/ n \in overtaken
=============================================================================
