----------------------------- MODULE HostTakeover -----------------------------
(* One takeover across the process border: the gateway relays a connection  *)
(* to the plugin host and asks what the plugin decided, the host runs the    *)
(* plugin's handler, and the two meet over three one-element channels of a   *)
(* session.  A continuation (Next, Core) is offered by the host, run by the  *)
(* gateway and reported back; until then it blocks in the host.              *)
EXTENDS Naturals

CONSTANT Takeovers   \* sessions, one per connection

VARIABLES
    caller,     \* RunPluginHostTakeover in the gateway
    inHost,     \* sessions in the host's takeovers map
    handler,    \* the goroutine that runs the plugin's handler
    flow,       \* pluginHostTakeoverFlow.state
    cont,       \* the continuation call that won the flow
    action, complete, done,    \* the session's channels, one element each
    waiter,     \* the host's takeover_wait request
    completer,  \* the host's takeover_complete request
    hosted      \* the plugin in the host: the control server's state

takeoverVars == <<caller, inHost, handler, flow, cont, action, complete, done, waiter, completer, hosted>>

hostRequests == <<waiter, completer>>
channels == <<action, complete, done>>

Init0(v) == [s \in Takeovers |-> v]

TakeoverInit ==
    /\ caller = Init0("idle") /\ inHost = {}
    /\ handler = Init0("none") /\ flow = Init0("available") /\ cont = Init0("none")
    /\ action = Init0("empty") /\ complete = Init0("empty") /\ done = Init0("empty")
    /\ waiter = Init0("none") /\ completer = Init0("none")
    /\ hosted = "not_loaded"

-----------------------------------------------------------------------------
(* The control server of the host holds one plugin instance at a time.       *)

Instance == hosted \in {"enabled", "draining"}

(* initPlugin: opening the artifact, its configuration and Init succeed.     *)
InitPlugin ==
    /\ ~Instance
    /\ hosted' = "enabled"
    /\ UNCHANGED <<caller, inHost, handler, flow, cont, channels, hostRequests>>

(* drain is a mark: it refuses no session.                                   *)
HostDrain ==
    /\ hosted = "enabled"
    /\ hosted' = "draining"
    /\ UNCHANGED <<caller, inHost, handler, flow, cont, channels, hostRequests>>

(* destroy: the plugin is gone for new sessions; running handlers go on.     *)
DestroyPlugin ==
    /\ hosted # "disabled"
    /\ hosted' = "disabled"
    /\ UNCHANGED <<caller, inHost, handler, flow, cont, channels, hostRequests>>

(* takeover_open: the session exists and its handler runs when the answer    *)
(* goes back; the connection then turns into the relayed stream.             *)
Open(s) ==
    /\ caller[s] = "idle" /\ Instance
    /\ inHost' = inHost \cup {s}
    /\ handler' = [handler EXCEPT ![s] = "running"]
    /\ caller' = [caller EXCEPT ![s] = "opened"]
    /\ UNCHANGED <<flow, cont, channels, hostRequests, hosted>>

OpenRefused(s) ==
    /\ caller[s] = "idle" /\ ~Instance
    /\ caller' = [caller EXCEPT ![s] = "returned"]
    /\ UNCHANGED <<inHost, handler, flow, cont, channels, hostRequests, hosted>>

(* The answer or the acknowledging byte is lost, or the wait's deadline      *)
(* passes: the caller closes the stream and returns an error, and sends      *)
(* neither the wait nor the completion that the session is owed.             *)
Abandon(s) ==
    /\ caller[s] \in {"opened", "waiting"}
    /\ caller' = [caller EXCEPT ![s] = "abandoned"]
    /\ UNCHANGED <<inHost, handler, flow, cont, channels, hostRequests, hosted>>

SendWait(s) ==
    /\ caller[s] = "opened"
    /\ caller' = [caller EXCEPT ![s] = "waiting"]
    /\ waiter' = [waiter EXCEPT ![s] = "action"]
    /\ UNCHANGED <<inHost, handler, flow, cont, channels, completer, hosted>>

-----------------------------------------------------------------------------
(* The plugin's handler.                                                     *)

(* It calls Next or Core itself, and is then inside the call, or lets        *)
(* another goroutine call.  A second call is refused (ErrContinuationUsed).  *)
Continue(s, own) ==
    /\ handler[s] = "running" /\ flow[s] = "available"
    /\ flow' = [flow EXCEPT ![s] = "running"]
    /\ cont' = [cont EXCEPT ![s] = "entered"]
    /\ handler' = IF own THEN [handler EXCEPT ![s] = "continuing"] ELSE handler
    /\ UNCHANGED <<caller, inHost, channels, hostRequests, hosted>>

(* continueWith cannot offer the stream: the action is "handled", with the   *)
(* error, and the call returns.                                              *)
OfferFails(s) ==
    /\ cont[s] = "entered" /\ action[s] = "empty"
    /\ action' = [action EXCEPT ![s] = "handled"]
    /\ cont' = [cont EXCEPT ![s] = "leaving"]
    /\ UNCHANGED <<caller, inHost, handler, flow, complete, done, hostRequests, hosted>>

Offer(s) ==
    /\ cont[s] = "entered" /\ action[s] = "empty"
    /\ action' = [action EXCEPT ![s] = "continue"]
    /\ cont' = [cont EXCEPT ![s] = "offered"]
    /\ UNCHANGED <<caller, inHost, handler, flow, complete, done, hostRequests, hosted>>

(* The listener is closed, and the relay to the gateway awaited.             *)
Completed(s) ==
    /\ cont[s] = "offered" /\ complete[s] = "full"
    /\ complete' = [complete EXCEPT ![s] = "empty"]
    /\ cont' = [cont EXCEPT ![s] = "relaying"]
    /\ UNCHANGED <<caller, inHost, handler, flow, action, done, hostRequests, hosted>>

(* relayDone: nobody dialled and Accept fails, or both copies of the relay   *)
(* end.  One of them reads the plugin's stream, which may stay open until    *)
(* the gateway closes the connection's stream - after the completion.        *)
RelayDone(s) ==
    /\ cont[s] = "relaying"
    /\ cont' = [cont EXCEPT ![s] = "leaving"]
    /\ UNCHANGED <<caller, inHost, handler, flow, channels, hostRequests, hosted>>

(* The deferred end of continueWith.                                         *)
LeaveContinue(s) ==
    /\ cont[s] = "leaving"
    /\ cont' = [cont EXCEPT ![s] = "ended"]
    /\ flow' = [flow EXCEPT ![s] = "used"]
    /\ handler' = IF handler[s] = "continuing" THEN [handler EXCEPT ![s] = "running"] ELSE handler
    /\ UNCHANGED <<caller, inHost, channels, hostRequests, hosted>>

(* handlerReturned: what the flow is after the handler's return or panic,    *)
(* and whether the continuation was used.                                    *)
FlowAfterReturn(f) ==
    CASE f = "available" -> "expired"
      [] f = "running" -> "runningAfterReturn"
      [] OTHER -> f

FlowWasUsed(f) == f \in {"running", "runningAfterReturn", "used"}

HandlerReturns(s) ==
    /\ handler[s] = "running"
    /\ flow' = [flow EXCEPT ![s] = FlowAfterReturn(flow[s])]
    /\ handler' = [handler EXCEPT ![s] = IF FlowWasUsed(flow[s]) THEN "finishing" ELSE "handled"]
    /\ UNCHANGED <<caller, inHost, cont, channels, hostRequests, hosted>>

(* Only a handler that used no continuation says that it handled the         *)
(* connection.                                                               *)
SayHandled(s) ==
    /\ handler[s] = "handled" /\ action[s] = "empty"
    /\ action' = [action EXCEPT ![s] = "handled"]
    /\ handler' = [handler EXCEPT ![s] = "finishing"]
    /\ UNCHANGED <<caller, inHost, flow, cont, complete, done, hostRequests, hosted>>

FinishHandler(s) ==
    /\ handler[s] = "finishing" /\ done[s] = "empty"
    /\ done' = [done EXCEPT ![s] = "full"]
    /\ handler' = [handler EXCEPT ![s] = "ended"]
    /\ UNCHANGED <<caller, inHost, flow, cont, action, complete, hostRequests, hosted>>

-----------------------------------------------------------------------------
(* The host's side of the control requests.                                  *)

WaitAction(s) ==
    /\ waiter[s] = "action" /\ action[s] # "empty"
    /\ action' = [action EXCEPT ![s] = "empty"]
    /\ waiter' = [waiter EXCEPT ![s] = IF action[s] = "handled" THEN "done" ELSE "answeredContinue"]
    /\ UNCHANGED <<caller, inHost, handler, flow, cont, complete, done, completer, hosted>>

WaitDone(s) ==
    /\ waiter[s] = "done" /\ done[s] = "full"
    /\ done' = [done EXCEPT ![s] = "empty"]
    /\ inHost' = inHost \ {s}
    /\ waiter' = [waiter EXCEPT ![s] = "answeredHandled"]
    /\ UNCHANGED <<caller, handler, flow, cont, action, complete, completer, hosted>>

CompleteArrives(s) ==
    /\ completer[s] = "sent" /\ s \in inHost /\ complete[s] = "empty"
    /\ complete' = [complete EXCEPT ![s] = "full"]
    /\ completer' = [completer EXCEPT ![s] = "done"]
    /\ UNCHANGED <<caller, inHost, handler, flow, cont, action, done, waiter, hosted>>

CompleteDone(s) ==
    /\ completer[s] = "done" /\ done[s] = "full"
    /\ done' = [done EXCEPT ![s] = "empty"]
    /\ inHost' = inHost \ {s}
    /\ completer' = [completer EXCEPT ![s] = "answered"]
    /\ UNCHANGED <<caller, handler, flow, cont, action, complete, waiter, hosted>>

-----------------------------------------------------------------------------
(* The gateway's side of the answers.                                        *)

AnswerHandled(s) ==
    /\ caller[s] = "waiting" /\ waiter[s] = "answeredHandled"
    /\ caller' = [caller EXCEPT ![s] = "returned"]
    /\ UNCHANGED <<inHost, handler, flow, cont, channels, hostRequests, hosted>>

(* The rest of the chain runs over the endpoint the host offered (or the     *)
(* dial to it fails).                                                        *)
AnswerContinue(s) ==
    /\ caller[s] = "waiting" /\ waiter[s] = "answeredContinue"
    /\ caller' = [caller EXCEPT ![s] = "acting"]
    /\ UNCHANGED <<inHost, handler, flow, cont, channels, hostRequests, hosted>>

(* Whatever the continuation returned, the completion is sent, with a time   *)
(* limit of its own that does not depend on the caller's context.            *)
SendComplete(s) ==
    /\ caller[s] = "acting"
    /\ caller' = [caller EXCEPT ![s] = "completing"]
    /\ completer' = [completer EXCEPT ![s] = "sent"]
    /\ UNCHANGED <<inHost, handler, flow, cont, channels, waiter, hosted>>

(* Mutant: the completion has no time limit.                                 *)
AwaitsAnswer(s) ==
    /\ caller[s] = "completing" /\ completer[s] = "answered"
    /\ caller' = [caller EXCEPT ![s] = "returned"]
    /\ UNCHANGED <<inHost, handler, flow, cont, channels, hostRequests, hosted>>

(* The answer, or the five seconds are over; the connection's stream is      *)
(* closed.                                                                   *)
TakeoverReturns(s) ==
    /\ caller[s] = "completing"
    /\ caller' = [caller EXCEPT ![s] = "returned"]
    /\ UNCHANGED <<inHost, handler, flow, cont, channels, hostRequests, hosted>>

TakeoverStep(s) ==
    \/ Open(s) \/ OpenRefused(s) \/ Abandon(s) \/ SendWait(s)
    \/ \E own \in BOOLEAN : Continue(s, own)
    \/ OfferFails(s) \/ Offer(s) \/ Completed(s) \/ RelayDone(s) \/ LeaveContinue(s)
    \/ HandlerReturns(s) \/ SayHandled(s) \/ FinishHandler(s)
    \/ WaitAction(s) \/ WaitDone(s) \/ CompleteArrives(s) \/ CompleteDone(s)
    \/ AnswerHandled(s) \/ AnswerContinue(s) \/ SendComplete(s) \/ TakeoverReturns(s)

TakeoverNext == (\E s \in Takeovers : TakeoverStep(s)) \/ InitPlugin \/ HostDrain \/ DestroyPlugin

TakeoverSpec == TakeoverInit /\ [][TakeoverNext]_takeoverVars

(* Goroutines that can go on do; the plugin's handler returns once it is not *)
(* inside its continuation; the gateway carries on with what it began.  A    *)
(* relay is sure to end only once the gateway has closed the stream.         *)
CallerStep(s) == SendWait(s) \/ AnswerHandled(s) \/ AnswerContinue(s) \/ SendComplete(s) \/ TakeoverReturns(s)
HandlerStep(s) == HandlerReturns(s) \/ SayHandled(s) \/ FinishHandler(s)
ContinuationStep(s) ==
    \/ OfferFails(s) \/ Offer(s) \/ Completed(s) \/ LeaveContinue(s)
    \/ caller[s] = "returned" /\ RelayDone(s)
WaiterStep(s) == WaitAction(s) \/ WaitDone(s)
CompleterStep(s) == CompleteArrives(s) \/ CompleteDone(s)

TakeoverFairSpec ==
    /\ TakeoverSpec
    /\ \A s \in Takeovers :
         /\ WF_takeoverVars(CallerStep(s)) /\ WF_takeoverVars(HandlerStep(s)) /\ WF_takeoverVars(ContinuationStep(s))
         /\ WF_takeoverVars(WaiterStep(s)) /\ WF_takeoverVars(CompleterStep(s))

-----------------------------------------------------------------------------

Settled(s) == s \notin inHost /\ handler[s] = "ended" /\ cont[s] \in {"none", "ended"}

(* A takeover the gateway did not abandon before it knew the decision is     *)
(* settled in the host: its handler and its continuation end, and the        *)
(* session leaves the map.                                                   *)
TakeoverSettles ==
    \A s \in Takeovers : caller[s] = "opened" ~> (Settled(s) \/ caller[s] = "abandoned")
=============================================================================
