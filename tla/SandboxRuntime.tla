---------------------------- MODULE SandboxRuntime ----------------------------
(* The sandbox-process runtime: starting a child process, the three requests *)
(* it must make over the control socket before it counts as started, the    *)
(* calls and streams the gateway then runs against it, its end, and the      *)
(* quarantine that a crash leads to.  A goroutine serves each request of     *)
(* the child, and one more waits for its exit.                               *)
EXTENDS Naturals, Integers, FiniteSets

CONSTANTS
    Boxes,       \* processes ever started for the plugin
    BoxCalls,    \* invocations
    BoxStreams,  \* takeover streams
    Injected,    \* TRUE: the child answers calls (controlInvoker); FALSE: SendSandboxControlRequest
    NoBox

ASSUME BoxAssumption == NoBox \notin Boxes /\ Injected \in BOOLEAN

VARIABLES
    box,        \* each process: its state, startup and clean-up
    current,    \* loaded[plugin]
    serving,    \* the handlers at work for the child: box -> command -> step
    boxCall,    \* invocations
    boxStream,  \* streams
    suspect     \* the box a diagnostics pass found crashed, until it is quarantined

boxVars == <<box, current, serving, boxCall, boxStream, suspect>>

Commands == {"handshake", "init", "register"}

-----------------------------------------------------------------------------
(* caller: who runs Supervisor.Start; asked: the request that started it is  *)
(* still open; ok: requests of the startup that succeeded; startup: the      *)
(* startupDone channel and startupErr; files: root directory and socket, or  *)
(* what a removal that failed left of them; streams: activeStreams.          *)
Unstarted == [caller |-> "none", asked |-> FALSE, process |-> "none", crash |-> FALSE,
              ok |-> {}, startup |-> "open", files |-> "none", done |-> FALSE, streams |-> 0]

SandboxInit ==
    /\ box = [b \in Boxes |-> Unstarted]
    /\ current = NoBox
    /\ serving = [b \in Boxes |-> [c \in Commands |-> "idle"]]
    /\ boxCall = [k \in BoxCalls |-> [at |-> "new"]]
    /\ boxStream = [s \in BoxStreams |-> [at |-> "new", of |-> NoBox, watcher |-> "none", released |-> FALSE]]
    /\ suspect = NoBox

(* sandboxEnforcementFacts: what the policy asks for must be enforceable on  *)
(* this platform; every fact that is required and not optional holds only    *)
(* without the network and with the isolation of an outer container.         *)
Enforceable(policy) == ~policy.network /\ policy.isolation /\ policy.platform

Policies == [network : BOOLEAN, isolation : BOOLEAN, platform : BOOLEAN]

(* Prepare, and Start up to the child.  The manager's lock does not order    *)
(* starts: a dry run of a configuration starts a process of its own.         *)
StartBox(b, policy) ==
    /\ box[b].caller = "none" /\ Enforceable(policy)
    /\ box' = [box EXCEPT ![b].caller = "starting", ![b].asked = TRUE, ![b].process = "running", ![b].files = "made"]
    /\ UNCHANGED <<current, serving, boxCall, boxStream, suspect>>

(* os.RemoveAll, whose error every caller ignores.  The root and most of     *)
(* what is in it have the mode 0555 by then.                                 *)
Removals == {"none", "left"}

(* A policy that cannot be enforced, and then nothing was made; or a later   *)
(* step, and the root is removed again.                                      *)
StartRefused(b, policy, files) ==
    /\ box[b].caller = "none"
    /\ ~Enforceable(policy) => files = "none"
    /\ box' = [box EXCEPT ![b].caller = "failed", ![b].files = files]
    /\ UNCHANGED <<current, serving, boxCall, boxStream, suspect>>

-----------------------------------------------------------------------------
(* The child's requests; each connection has a goroutine of its own, so they *)
(* may overlap and repeat.                                                   *)

Before(c) == CASE c = "handshake" -> {} [] c = "init" -> {"handshake"} [] c = "register" -> {"handshake", "init"}

(* requireSandboxStartupSequence.                                            *)
InSequence(b, c) == Before(c) \subseteq box[b].ok

(* completeSandboxStartupLocked: the first completion counts.                *)
Complete(r, how) == IF r.startup = "open" THEN [r EXCEPT !.startup = how] ELSE r

(* A request whose protocol, deadline, identity, generation, size or payload *)
(* is wrong, or that comes out of turn, fails the startup unless register    *)
(* has succeeded.                                                            *)
RejectChild(b) ==
    box' = [box EXCEPT ![b] = IF "register" \in @.ok THEN @ ELSE Complete(@, "error")]

BadRequest(b, c) ==
    /\ box[b].process = "running" /\ box[b].caller = "starting"
    /\ RejectChild(b)
    /\ UNCHANGED <<current, serving, boxCall, boxStream, suspect>>

(* A request that is well formed; once the startup is over, repeating one     *)
(* changes nothing that is modelled here.                                    *)
ChildAsks(b, c) ==
    /\ box[b].process = "running" /\ box[b].caller = "starting" /\ serving[b][c] = "idle"
    /\ IF InSequence(b, c)
         THEN serving' = [serving EXCEPT ![b][c] = "checked"] /\ UNCHANGED box
         ELSE RejectChild(b) /\ UNCHANGED serving
    /\ UNCHANGED <<current, boxCall, boxStream, suspect>>

(* handleSandboxHandshake, handleSandboxInit, handleSandboxRegister.          *)
Succeed(b, c) ==
    /\ serving[b][c] = "checked"
    /\ serving' = [serving EXCEPT ![b][c] = "idle"]
    /\ LET r == [box[b] EXCEPT !.ok = @ \cup {c}]
       IN  box' = [box EXCEPT ![b] = IF c = "register" THEN Complete(r, "ok") ELSE r]
    /\ UNCHANGED <<current, boxCall, boxStream, suspect>>

-----------------------------------------------------------------------------
(* waitForStartup: whichever channel is ready.                                *)

Started(b) ==
    /\ box[b].caller = "starting" /\ box[b].startup = "ok"
    /\ box' = [box EXCEPT ![b].caller = "registering"]
    /\ UNCHANGED <<current, serving, boxCall, boxStream, suspect>>

(* Mutant: the child is left to itself.                                      *)
LeftRunning(process) == process

(* Kill.                                                                     *)
Killed(process) == IF process = "running" THEN "dying" ELSE process

(* A startup error, the exit of the child, or the time limit: the child is   *)
(* killed, and its end awaited for a second.                                 *)
GiveUpStart(b) ==
    /\ box[b].caller = "starting"
    /\ LET r == Complete(box[b], "error")
       IN  box' = [box EXCEPT ![b] = [r EXCEPT !.caller = "failed", !.process = Killed(@)]]
    /\ UNCHANGED <<current, serving, boxCall, boxStream, suspect>>

(* sandboxHostedPlugin.Init registers the handlers; an extension point       *)
(* without a data plane stops the child.                                     *)
InitRefused(b) ==
    /\ box[b].caller = "registering"
    /\ box' = [box EXCEPT ![b].caller = "stopping"]
    /\ UNCHANGED <<current, serving, boxCall, boxStream, suspect>>

(* DryRunConfig: the process is for the validation of a configuration and is *)
(* stopped, whatever the plugin said.                                        *)
DryRunConfig(b) ==
    /\ box[b].caller = "registering"
    /\ box' = [box EXCEPT ![b].caller = "stopping"]
    /\ UNCHANGED <<current, serving, boxCall, boxStream, suspect>>

(* The manager loads it, and will stop the one it replaces.                  *)
LoadBox(b) ==
    /\ box[b].caller = "registering"
    /\ current' = b
    /\ box' = [a \in Boxes |-> CASE a = b -> [box[a] EXCEPT !.caller = "loaded"]
                                 [] a = current /\ a # b -> [box[a] EXCEPT !.caller = "stopping"]
                                 [] OTHER -> box[a]]
    /\ UNCHANGED <<serving, boxCall, boxStream, suspect>>

UnloadBox ==
    /\ current # NoBox
    /\ current' = NoBox
    /\ box' = [box EXCEPT ![current].caller = "stopping"]
    /\ UNCHANGED <<serving, boxCall, boxStream, suspect>>

(* The HTTP request that started the process is answered, or its client is   *)
(* gone: its context ends, and with it the command (exec.CommandContext).    *)
RequestEnds(b) ==
    /\ box[b].asked
    /\ box' = [box EXCEPT ![b].asked = FALSE, ![b].process = Killed(@)]
    /\ UNCHANGED <<current, serving, boxCall, boxStream, suspect>>

-----------------------------------------------------------------------------
(* Stop interrupts the child, and kills it after a second or with the        *)
(* context; Stop returns when done is closed.                                *)
InterruptBox(b) ==
    /\ box[b].caller = "stopping" /\ box[b].process = "running"
    /\ box' = [box EXCEPT ![b].process = "dying"]
    /\ UNCHANGED <<current, serving, boxCall, boxStream, suspect>>

StopReturns(b) ==
    /\ box[b].caller = "stopping" /\ box[b].done
    /\ box' = [box EXCEPT ![b].caller = "stopped"]
    /\ UNCHANGED <<current, serving, boxCall, boxStream, suspect>>

(* The child ends by itself, well or not, or of the signal.                  *)
ExitBox(b, well) ==
    /\ box[b].process \in {"running", "dying"}
    /\ well => box[b].process = "running"
    /\ box' = [box EXCEPT ![b].process = "exited", ![b].crash = ~well]
    /\ UNCHANGED <<current, serving, boxCall, boxStream, suspect>>

(* Mutant: done is closed before the files are removed.                      *)
DoneFirst(r, files) == [r EXCEPT !.process = "reaped", !.done = TRUE]

(* wait: the listener is closed and the root removed, as far as that works;  *)
(* then done is closed.                                                      *)
Cleaned(r, files) == [r EXCEPT !.process = "reaped", !.files = files]

RemoveFiles(b, files) ==
    /\ box[b].process = "exited"
    /\ box' = [box EXCEPT ![b] = Cleaned(@, files)]
    /\ UNCHANGED <<current, serving, boxCall, boxStream, suspect>>

CloseDone(b) ==
    /\ box[b].process = "reaped" /\ ~box[b].done
    /\ box' = [box EXCEPT ![b].done = TRUE]
    /\ UNCHANGED <<current, serving, boxCall, boxStream, suspect>>

-----------------------------------------------------------------------------
(* invoke and sendControlRequest: a call is answered by the child, or, over  *)
(* the socket the gateway itself listens on, by the gateway's own handler,   *)
(* which has no such command.  Otherwise it ends by its time limit or the    *)
(* child's exit.                                                             *)

(* The handlers the hosted plugin registers, by what becomes of a failure:   *)
(* route.resolve and rule.evaluate decide, status.ping, event.subscriber and *)
(* config.validate answer, provider describes itself.                        *)
Points == {"decide", "answer", "describe"}

Invoke(k, point, open) ==
    /\ boxCall[k].at # "sent" /\ current # NoBox
    /\ boxCall' = [boxCall EXCEPT ![k] = [at |-> "sent", of |-> current, point |-> point, open |-> open]]
    /\ UNCHANGED <<box, current, serving, boxStream, suspect>>

(* What a handler returns for a call that brought no usable answer, by the   *)
(* fail policy the child registered (open, degraded and fallback, or not).   *)
Failure(point, open) ==
    CASE point = "describe" -> "error"
      [] point # "describe" /\ open -> "pass"
      [] point = "decide" /\ ~open -> "reject"
      [] point = "answer" /\ ~open -> "error"

Answered(k) ==
    /\ boxCall[k].at = "sent" /\ Injected /\ box[boxCall[k].of].process = "running"
    /\ boxCall' = [boxCall EXCEPT ![k] = [at |-> "answered"]]
    /\ UNCHANGED <<box, current, serving, boxStream, suspect>>

(* An error, a reply of the wrong identity or without the handler's part,    *)
(* the time limit, the exit of the child; without an injected invoker, the   *)
(* gateway's own not_implemented.                                            *)
Unanswered(k) ==
    /\ boxCall[k].at = "sent"
    /\ boxCall' = [boxCall EXCEPT ![k] = [at |-> Failure(@.point, @.open)]]
    /\ UNCHANGED <<box, current, serving, boxStream, suspect>>

-----------------------------------------------------------------------------
(* openStream dials the child's endpoint; bindSandboxStreamEndpoint counts   *)
(* the stream and starts its watcher.                                        *)
OpenStream(s) ==
    /\ boxStream[s].at = "new" /\ current # NoBox /\ Injected /\ box[current].process = "running"
    /\ boxStream' = [boxStream EXCEPT ![s] = [at |-> "open", of |-> current, watcher |-> "watching", released |-> FALSE]]
    /\ box' = [box EXCEPT ![current].streams = @ + 1]
    /\ UNCHANGED <<current, serving, boxCall, suspect>>

ReleaseStream(s) ==
    box' = IF boxStream[s].released THEN box
           ELSE [box EXCEPT ![boxStream[s].of].streams = @ - 1]

(* The handler closes its end (twice, when a continuation returned).         *)
CloseStream(s) ==
    /\ boxStream[s].at \in {"open", "closed"}
    /\ boxStream' = [boxStream EXCEPT ![s].at = IF @ = "open" THEN "closed" ELSE "gone", ![s].released = TRUE]
    /\ IF boxStream[s].at = "open" THEN ReleaseStream(s) ELSE UNCHANGED box
    /\ UNCHANGED <<current, serving, boxCall, suspect>>

(* The watcher: the connection's context or the child ended ...              *)
WatcherCloses(s) ==
    /\ boxStream[s].watcher = "watching"
    /\ boxStream' = [boxStream EXCEPT ![s].watcher = "ended", ![s].released = TRUE]
    /\ ReleaseStream(s)
    /\ UNCHANGED <<current, serving, boxCall, suspect>>

(* ... or the stream was released.                                           *)
WatcherEnds(s) ==
    /\ boxStream[s].watcher = "watching" /\ boxStream[s].released
    /\ boxStream' = [boxStream EXCEPT ![s].watcher = "ended"]
    /\ UNCHANGED <<box, current, serving, boxCall, suspect>>

-----------------------------------------------------------------------------
(* liveSandboxRuntimeSummaries, under m.mu, and quarantineSandboxProcess,    *)
(* under m.mu again: by plugin, whichever process is loaded by then.         *)
FindCrashed ==
    /\ suspect = NoBox /\ current # NoBox
    /\ box[current].process = "reaped" /\ box[current].crash
    /\ suspect' = current
    /\ UNCHANGED <<box, current, serving, boxCall, boxStream>>

Quarantine ==
    /\ suspect # NoBox
    /\ suspect' = NoBox
    /\ current' = NoBox
    /\ UNCHANGED <<box, serving, boxCall, boxStream>>

SandboxNext ==
    \/ \E b \in Boxes :
         \/ \E policy \in Policies : StartBox(b, policy) \/ \E files \in Removals : StartRefused(b, policy, files)
         \/ \E c \in Commands : ChildAsks(b, c) \/ BadRequest(b, c) \/ Succeed(b, c)
         \/ Started(b) \/ GiveUpStart(b) \/ InitRefused(b) \/ DryRunConfig(b) \/ LoadBox(b) \/ RequestEnds(b)
         \/ InterruptBox(b) \/ StopReturns(b) \/ CloseDone(b)
         \/ \E files \in Removals : RemoveFiles(b, files)
         \/ \E well \in BOOLEAN : ExitBox(b, well)
    \/ UnloadBox \/ FindCrashed \/ Quarantine
    \/ \E k \in BoxCalls :
         \/ \E point \in Points, open \in BOOLEAN : Invoke(k, point, open)
         \/ Answered(k) \/ Unanswered(k)
    \/ \E s \in BoxStreams : OpenStream(s) \/ CloseStream(s) \/ WatcherCloses(s) \/ WatcherEnds(s)

(* A signalled child ends, and the goroutines that wait go on.               *)
StopStep(b) == InterruptBox(b) \/ StopReturns(b)
EndStep(b) ==
    \/ box[b].process = "dying" /\ ExitBox(b, FALSE)
    \/ (\E files \in Removals : RemoveFiles(b, files)) \/ CloseDone(b)
WatcherStep(s) == boxStream[s].of # NoBox /\ box[boxStream[s].of].done /\ WatcherCloses(s)

SandboxSpec == SandboxInit /\ [][SandboxNext]_boxVars
SandboxFairSpec ==
    /\ SandboxSpec
    /\ \A b \in Boxes : WF_boxVars(GiveUpStart(b)) /\ WF_boxVars(StopStep(b)) /\ WF_boxVars(EndStep(b))
    /\ \A s \in BoxStreams : WF_boxVars(WatcherStep(s))

-----------------------------------------------------------------------------

(* When Stop returns the child is gone, and the removal of its root          *)
(* directory and socket is behind it: nothing is removed later, under a      *)
(* successor.  What a removal that failed left stays for good, and nobody    *)
(* is told.                                                                  *)
StopLeavesNothing ==
    \A b \in Boxes : box[b].caller = "stopped" => box[b].process = "reaped" /\ box[b].files # "made"

(* Whatever ends a process - a failed start, a stop, the request's context,  *)
(* a crash - the removal of its directory comes, and its streams are let go. *)
EndedBoxIsCleaned ==
    \A b \in Boxes : (box[b].caller \in {"failed", "stopping"} \/ box[b].process = "dying") ~>
        box[b].files # "made" /\ box[b].streams = 0

=============================================================================
