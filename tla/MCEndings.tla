------------------------------ MODULE MCEndings ------------------------------
(* What must end, and what must hold while it does: the runs of a scheduled  *)
(* task, the takeovers of a plugin host, sandbox processes, hits of an       *)
(* advisory, a trapping WASM module, source builds.  They share no state, so *)
(* a behaviour follows one of them, chosen at the start, under the fairness  *)
(* of that one.                                                              *)
EXTENDS MCBackgroundTasks, HostTakeover, SandboxRuntime, ReleaseGate, WasmRuntime, SourceBuild

CONSTANT plug

\* Both nodes run the task on schedule.
MCScheduled == [p \in Runtimes |-> Periodic("singleton")]

MCNoPairs == {}
MCSingletons == plug :> {}
MCBuiltBy == plug :> "upload"
MCPortOf == plug :> 0

VARIABLE part

endingVars == <<part, taskVars, takeoverVars, boxVars, gateVars, wasmVars, vars>>

EndingInit ==
    /\ part \in {"tasks", "takeover", "sandbox", "gate", "wasm", "builds", "retries"}
    /\ TaskInit /\ TakeoverInit /\ SandboxInit /\ GateInit /\ WasmInit /\ Init

Kept(names, v) == IF part \in names THEN TRUE ELSE UNCHANGED v

\* Builds: one row, and everything that can happen to it; or two rows, every
\* client stays to the end, and no binary comes from elsewhere.
OneRow == builds[2].status = "none"
NobodyLeaves ==
    \A w \in BuildRequests : req[w].ctx = "open" /\ (req[w].at = "save" => req[w].artifact \notin Binaries)

\* A sandboxed process has calls or streams: neither looks at the other.
CallsOrStreams == (\A c \in BoxCalls : boxCall[c].at = "new") \/ (\A s \in BoxStreams : boxStream[s].at = "new")

EndingNext ==
    /\ UNCHANGED part
    /\ \/ part = "tasks" /\ TaskNext
       \/ part = "takeover" /\ TakeoverNext
       \/ part = "sandbox" /\ SandboxNext /\ CallsOrStreams'
       \/ part = "gate" /\ GateNext
       \/ part = "wasm" /\ WasmNext
       \/ part = "builds" /\ Next /\ OneRow'
       \/ part = "retries" /\ Next /\ UNCHANGED orphaned /\ NobodyLeaves'
    /\ Kept({"tasks"}, taskVars) /\ Kept({"takeover"}, takeoverVars) /\ Kept({"sandbox"}, boxVars)
    /\ Kept({"gate"}, gateVars) /\ Kept({"wasm"}, wasmVars) /\ Kept({"builds", "retries"}, vars)

EndingSpec ==
    /\ EndingInit /\ [][EndingNext]_endingVars
    /\ WF_taskVars(part = "tasks" /\ TaskTick)
    /\ \A q \in Runtimes, s \in Slots :
         /\ WF_taskVars(part = "tasks" /\ TaskStep(q, s))
         /\ WF_taskVars(part = "tasks" /\ renewTaskLease(q, s))
    /\ \A s \in Takeovers :
         /\ WF_takeoverVars(part = "takeover" /\ CallerStep(s))
         /\ WF_takeoverVars(part = "takeover" /\ HandlerStep(s))
         /\ WF_takeoverVars(part = "takeover" /\ ContinuationStep(s))
         /\ WF_takeoverVars(part = "takeover" /\ WaiterStep(s))
         /\ WF_takeoverVars(part = "takeover" /\ CompleterStep(s))
    /\ \A b \in Boxes :
         /\ WF_boxVars(part = "sandbox" /\ GiveUpStart(b))
         /\ WF_boxVars(part = "sandbox" /\ StopStep(b))
         /\ WF_boxVars(part = "sandbox" /\ EndStep(b))
    /\ \A s \in BoxStreams : WF_boxVars(part = "sandbox" /\ WatcherStep(s))
    /\ \A r \in GateRequests : WF_gateVars(part = "gate" /\ GateStep(r))
    /\ WF_wasmVars(part = "wasm" /\ AdminStep)
    /\ \A c \in WasmCallers : WF_wasmVars(part = "wasm" /\ CallStep(c))
    /\ \A w \in BuildRequests :
         /\ WF_buildVars(part = "builds" /\ RequestStep(w) /\ OneRow')
         /\ WF_buildVars(part = "retries" /\ RequestStep(w))
=============================================================================
