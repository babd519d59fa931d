---------------------------- MODULE RuntimeProofs ----------------------------
(* What the theorems about plugin runtimes of their own - WASM modules,      *)
(* sandboxed processes, the takeovers a plugin host serves - rest on, and    *)
(* their proofs.                                                             *)
EXTENDS WasmRuntime, SandboxRuntime, HostTakeover, FiniteSetTheorems, TLAPS

-----------------------------------------------------------------------------
(* WASM: the active calls are counted, and a quarantine is carried out.      *)

Busy == {c \in WasmCallers : wcall[c] # "idle"}

WasmStates == {"enabled", "draining", "stopped"}

WasmTypeOK ==
    /\ wasm \in [state : WasmStates, active : Nat, traps : Nat, quarantined : BOOLEAN,
                 published : BOOLEAN, drained : BOOLEAN]
    /\ wcall \in [WasmCallers -> {"idle", "running", "callback", "finish"}]

\* The counter that drain reads under mu counts the calls between
\* beginDispatch and finishDispatch, the validation of a reload included.
ActiveIsCounted == IsFiniteSet(Busy) /\ wasm.active = Cardinality(Busy)

\* A drain that returned without an error saw no call, and closed the door.
DrainedIsShut == wasm.drained => wasm.state # "enabled" /\ Busy = {}

WasmInv == WasmTypeOK /\ ActiveIsCounted /\ DrainedIsShut

\* A caller that comes or goes changes the number of the busy ones by one.
LEMMA BusyChanges ==
    ASSUME WasmTypeOK, ActiveIsCounted, NEW c \in WasmCallers
    PROVE  /\ IsFiniteSet(Busy \cup {c}) /\ IsFiniteSet(Busy \ {c})
           /\ c \notin Busy => Cardinality(Busy \cup {c}) = wasm.active + 1
           /\ c \in Busy => Cardinality(Busy \ {c}) = wasm.active - 1 /\ wasm.active # 0
           /\ wasm.active = 0 => Busy = {}
<1>1. /\ IsFiniteSet(Busy \cup {c})
      /\ Cardinality(Busy \cup {c}) = IF c \in Busy THEN Cardinality(Busy) ELSE Cardinality(Busy) + 1
  BY FS_AddElement DEF ActiveIsCounted
<1>2. /\ IsFiniteSet(Busy \ {c})
      /\ Cardinality(Busy \ {c}) = IF c \in Busy THEN Cardinality(Busy) - 1 ELSE Cardinality(Busy)
  BY FS_RemoveElement DEF ActiveIsCounted
<1>3. Cardinality(Busy) = 0 <=> Busy = {}
  BY FS_EmptySet DEF ActiveIsCounted
<1>4. wasm.active = Cardinality(Busy)
  BY DEF ActiveIsCounted
<1> QED
  BY <1>1, <1>2, <1>3, <1>4

\* Init and every step keep the counter, and the door behind a drain.
LEMMA WasmInductive ==
    /\ WasmInit => WasmInv
    /\ WasmInv /\ [WasmNext]_wasmVars => WasmInv'
<1>1. WasmInit => WasmInv
  <2> SUFFICES ASSUME WasmInit PROVE WasmInv
    OBVIOUS
  <2>1. Busy = {}
    BY DEF WasmInit, Busy
  <2>2. IsFiniteSet(Busy) /\ Cardinality(Busy) = 0
    BY <2>1, FS_EmptySet
  <2> QED
    BY <2>1, <2>2 DEF WasmInit, WasmInv, WasmTypeOK, WasmStates, ActiveIsCounted, DrainedIsShut
<1>2. ASSUME WasmInv, WasmNext PROVE WasmInv'
  <2> USE DEF WasmStates
  <2>0. WasmTypeOK /\ ActiveIsCounted /\ DrainedIsShut
    BY <1>2 DEF WasmInv
  <2>1. CASE \E c \in WasmCallers : Dispatch(c) \/ Callback(c) \/ FinishDispatch(c)
                \/ \E answer \in Answers : Record(c, answer)
    <3> PICK c \in WasmCallers : Dispatch(c) \/ Callback(c) \/ FinishDispatch(c)
                \/ \E answer \in Answers : Record(c, answer)
      BY <2>1
    <3>1. CASE Dispatch(c)
      <4>1. WasmTypeOK' /\ Busy' = Busy \cup {c} /\ c \notin Busy /\ wasm.state = "enabled"
            /\ wasm'.active = wasm.active + 1 /\ wasm'.drained = wasm.drained
        BY <2>0, <3>1 DEF Dispatch, BeginDispatch, WasmTypeOK, Busy
      <4> QED
        BY <2>0, <4>1, BusyChanges DEF WasmInv, ActiveIsCounted, DrainedIsShut
    <3>2. CASE Callback(c) \/ \E answer \in Answers : Record(c, answer)
      <4>1. WasmTypeOK' /\ Busy' = Busy /\ wasm'.active = wasm.active /\ wasm'.drained = wasm.drained
            /\ (wasm'.state = wasm.state \/ wasm'.state = "draining")
        <5>1. CASE Callback(c)
          BY <2>0, <5>1 DEF Callback, WasmTypeOK, Busy
        <5>2. CASE \E answer \in Answers : Record(c, answer)
          <6> PICK answer \in Answers : Record(c, answer)
            BY <5>2
          <6> DEFINE traps == IF answer = "trap" THEN wasm.traps + 1 ELSE 0
                     hit == traps >= WasmThreshold /\ ~wasm.quarantined
                     count == IF traps > WasmThreshold THEN WasmThreshold ELSE traps
          <6>1. wasm' = [wasm EXCEPT !.traps = count, !.quarantined = @ \/ hit,
                                     !.state = IF hit THEN "draining" ELSE @]
            BY DEF Record
          <6>2. wcall[c] = "running" /\ wcall' = [wcall EXCEPT ![c] = IF hit THEN "callback" ELSE "finish"]
            BY DEF Record
          <6>3. count \in Nat
            BY <2>0, WasmAssumption DEF WasmTypeOK
          <6>4. (wasm.quarantined \/ hit) \in BOOLEAN
            BY <2>0 DEF WasmTypeOK
          <6> HIDE DEF count, hit
          <6>5. Busy' = Busy /\ wcall' \in [WasmCallers -> {"idle", "running", "callback", "finish"}]
            BY <2>0, <6>2 DEF WasmTypeOK, Busy
          <6>6. wasm' \in [state : WasmStates, active : Nat, traps : Nat, quarantined : BOOLEAN,
                            published : BOOLEAN, drained : BOOLEAN]
            BY <2>0, <6>1, <6>3, <6>4 DEF WasmTypeOK
          <6>7. /\ wasm'.active = wasm.active /\ wasm'.drained = wasm.drained
                /\ (wasm'.state = wasm.state \/ wasm'.state = "draining")
            BY <2>0, <6>1 DEF WasmTypeOK
          <6> QED
            BY <6>5, <6>6, <6>7 DEF WasmTypeOK
        <5> QED
          BY <3>2, <5>1, <5>2
      <4> QED
        BY <2>0, <4>1 DEF WasmInv, ActiveIsCounted, DrainedIsShut
    <3>3. CASE FinishDispatch(c)
      <4>1. c \in Busy /\ Busy' = Busy \ {c} /\ wasm'.active = wasm.active - 1
            /\ wasm'.drained = wasm.drained /\ wasm'.state = wasm.state
        BY <2>0, <3>3 DEF FinishDispatch, WasmTypeOK, Busy
      <4>2. wasm.active # 0
        BY <2>0, <4>1, BusyChanges
      <4>3. WasmTypeOK'
        BY <2>0, <3>3, <4>2 DEF FinishDispatch, WasmTypeOK
      <4> QED
        BY <2>0, <4>1, <4>3, BusyChanges DEF WasmInv, ActiveIsCounted, DrainedIsShut
    <3> QED
      BY <3>1, <3>2, <3>3
  <2>2. CASE ReloadWasm
    <3>1. CASE Validates /\ wasm.state = "enabled"
      <4>1. WasmTypeOK' /\ Busy' = Busy \cup {Admin} /\ Admin \notin Busy
            /\ wasm'.active = wasm.active + 1 /\ wasm'.drained = wasm.drained
        BY <2>0, <2>2, <3>1 DEF ReloadWasm, BeginDispatch, WasmTypeOK, Busy, WasmCallers
      <4>2. Admin \in WasmCallers
        BY DEF WasmCallers
      <4> QED
        BY <2>0, <3>1, <4>1, <4>2, BusyChanges DEF WasmInv, ActiveIsCounted, DrainedIsShut
    <3>2. CASE ~(Validates /\ wasm.state = "enabled")
      BY <1>2, <2>2, <3>2 DEF ReloadWasm, WasmInv, WasmTypeOK, ActiveIsCounted, DrainedIsShut, Busy
    <3> QED
      BY <3>1, <3>2
  <2>3. CASE (\E c \in WasmCalls : Refuse(c)) \/ ReloadEnds
    <3>1. WasmTypeOK' /\ Busy' = Busy /\ wasm'.active = wasm.active /\ wasm'.drained = wasm.drained
            /\ wasm'.state = wasm.state
      BY <2>0, <2>3 DEF Refuse, ReloadEnds, WasmTypeOK, Busy
    <3> QED
      BY <2>0, <3>1 DEF WasmInv, ActiveIsCounted, DrainedIsShut
  <2>4. CASE DisableWasm \/ \E timeout \in BOOLEAN : DrainReturns(timeout) \/ StopWasm(timeout)
    <3>1. WasmTypeOK' /\ Busy' = Busy /\ wasm'.active = wasm.active /\ wasm'.state # "enabled"
          /\ (wasm'.drained => wasm.drained \/ wasm.active = 0)
      BY <2>0, <2>4, ZenonT(30) DEF DisableWasm, DrainReturns, StopWasm, DrainState, WasmTypeOK, Busy
    <3>2. wasm.active = 0 => Busy = {}
      BY <2>0, FS_EmptySet DEF ActiveIsCounted
    <3> QED
      BY <2>0, <3>1, <3>2 DEF WasmInv, ActiveIsCounted, DrainedIsShut
  <2> QED
    BY <1>2, <2>1, <2>2, <2>3, <2>4 DEF WasmNext
<1>3. ASSUME WasmInv, UNCHANGED wasmVars PROVE WasmInv'
  BY <1>3 DEF WasmInv, WasmTypeOK, ActiveIsCounted, DrainedIsShut, Busy, wasmVars
<1> QED
  BY <1>1, <1>2, <1>3

\* The inductive invariant of a WASM instance.
THEOREM WasmInvariant == WasmSpec => []WasmInv
  BY WasmInductive, PTL DEF WasmSpec

\* Once WASMPluginInstance.drain has returned without an error no connection
\* is in the module, for any number of callers, any threshold, and whatever
\* reloads, traps and quarantines came before.
THEOREM DrainedIsIdleAlways == WasmSpec => []DrainedIsIdle
<1>1. WasmInv => DrainedIsIdle
  BY DEF WasmInv, DrainedIsShut, DrainedIsIdle, Busy, WasmCallers
<1> QED
  BY <1>1, WasmInvariant, PTL

\* A quarantine whose plugin is still in the dispatch tables is carried by the one call that
\* reached the threshold, which has the callback before it.
TrapIsCarried ==
    /\ wasm.quarantined /\ wasm.published => \E c \in WasmCallers : wcall[c] = "callback"
    /\ \A c, d \in WasmCallers : wcall[c] = "callback" /\ wcall[d] = "callback" => c = d

\* Whoever holds the manager's lock waits for a call in the module only while a reload
\* validates a configuration.
HolderValidates == wcall[Admin] # "idle" => Validates /\ wop = "reload"

TrapInv ==
    /\ WasmTypeOK /\ TrapIsCarried /\ HolderValidates
    /\ \A c \in WasmCallers : wcall[c] = "callback" => wasm.quarantined

StaysOut == [][wasm'.published => wasm.published]_wasmVars

LEMMA TrapInductive ==
    /\ WasmInit => TrapInv
    /\ WasmInv /\ TrapInv /\ [WasmNext]_wasmVars => TrapInv' /\ (wasm'.published => wasm.published)
<1>a. Admin \in WasmCallers /\ Admin \notin WasmCalls /\ WasmCalls \subseteq WasmCallers
  BY WasmAssumption DEF WasmCallers
<1>1. WasmInit => TrapInv
  BY <1>a DEF WasmInit, TrapInv, WasmTypeOK, WasmStates, TrapIsCarried, HolderValidates
<1>2. ASSUME WasmInv, TrapInv, [WasmNext]_wasmVars
      PROVE  TrapInv' /\ (wasm'.published => wasm.published)
  <2>t. WasmTypeOK'
    BY <1>2, WasmInductive DEF WasmInv
  <2>0. WasmTypeOK /\ TrapIsCarried /\ HolderValidates /\ \A c \in WasmCallers : wcall[c] = "callback" => wasm.quarantined
    BY <1>2 DEF TrapInv
  <2>k. ASSUME wasm'.published => wasm.published, wasm.quarantined => wasm'.quarantined,
               wasm'.quarantined => wasm.quarantined,
               \A c \in WasmCallers : wcall'[c] = "callback" <=> wcall[c] = "callback",
               wcall'[Admin] # "idle" => Validates /\ wop' = "reload"
        PROVE  TrapInv' /\ (wasm'.published => wasm.published)
    BY <2>0, <2>t, <2>k DEF TrapInv, TrapIsCarried, HolderValidates
  <2>1. ASSUME NEW c \in WasmCallers, Dispatch(c) \/ FinishDispatch(c)
        PROVE  TrapInv' /\ (wasm'.published => wasm.published)
    <3>1. /\ wasm'.published = wasm.published /\ wasm'.quarantined = wasm.quarantined
      BY <2>0, <2>1 DEF Dispatch, BeginDispatch, FinishDispatch, WasmTypeOK
    <3>2. \A d \in WasmCallers : wcall'[d] = "callback" <=> wcall[d] = "callback"
      BY <2>0, <2>1 DEF Dispatch, BeginDispatch, FinishDispatch, WasmTypeOK
    <3>3. wop' = wop /\ (wcall'[Admin] # "idle" => wcall[Admin] # "idle")
      BY <1>a, <2>0, <2>1 DEF Dispatch, BeginDispatch, FinishDispatch, WasmTypeOK
    <3> QED
      BY <2>0, <2>k, <3>1, <3>2, <3>3 DEF HolderValidates
  <2>2. ASSUME NEW c \in WasmCallers, Callback(c)
        PROVE  TrapInv' /\ (wasm'.published => wasm.published)
    <3>1. ~wasm'.published /\ (wasm.quarantined => wasm'.quarantined)
      BY <2>0, <2>2 DEF Callback, WasmTypeOK
    <3>2. \A d \in WasmCallers : wcall'[d] = IF d = c THEN "finish" ELSE wcall[d]
      BY <2>0, <2>2 DEF Callback, WasmTypeOK
    <3>3. wop' = wop /\ wcall[c] = "callback"
      BY <2>2 DEF Callback
    <3>4. wcall'[Admin] # "idle" => wcall[Admin] # "idle"
      BY <1>a, <3>2, <3>3
    <3>5. TrapIsCarried'
      BY <2>0, <3>1, <3>2 DEF TrapIsCarried
    <3> QED
      BY <2>0, <2>t, <3>1, <3>2, <3>3, <3>4, <3>5 DEF TrapInv, HolderValidates
  <2>3. ASSUME NEW c \in WasmCallers, NEW answer \in Answers, Record(c, answer)
        PROVE  TrapInv' /\ (wasm'.published => wasm.published)
    <3> DEFINE traps == IF answer = "trap" THEN wasm.traps + 1 ELSE 0
               hit == traps >= WasmThreshold /\ ~wasm.quarantined
               count == IF traps > WasmThreshold THEN WasmThreshold ELSE traps
    <3>1. wasm' = [wasm EXCEPT !.traps = count, !.quarantined = @ \/ hit,
                               !.state = IF hit THEN "draining" ELSE @]
      BY <2>3 DEF Record
    <3>2. wcall[c] = "running" /\ wcall' = [wcall EXCEPT ![c] = IF hit THEN "callback" ELSE "finish"]
          /\ wop' = wop
      BY <2>3 DEF Record
    <3>3. hit => ~wasm.quarantined
      OBVIOUS
    <3> HIDE DEF count, hit
    <3>4. wasm'.published = wasm.published
      BY <2>0, <3>1 DEF WasmTypeOK
    <3>5. wasm'.quarantined <=> wasm.quarantined \/ hit
      BY <2>0, <3>1, Zenon DEF WasmTypeOK
    <3>6. \A d \in WasmCallers : wcall'[d] = IF d = c THEN (IF hit THEN "callback" ELSE "finish") ELSE wcall[d]
      BY <2>0, <3>2 DEF WasmTypeOK
    <3>7. wcall'[Admin] # "idle" => wcall[Admin] # "idle"
      BY <1>a, <3>2, <3>6
    <3>8. CASE hit
      <4>1. \A d \in WasmCallers : wcall'[d] = "callback" <=> d = c
        BY <2>0, <3>3, <3>6, <3>8
      <4>2. TrapIsCarried'
        BY <4>1 DEF TrapIsCarried
      <4> QED
        BY <2>0, <2>t, <3>2, <3>4, <3>5, <3>7, <3>8, <4>2 DEF TrapInv, HolderValidates
    <3>9. CASE ~hit
      <4>1. \A d \in WasmCallers : wcall'[d] = "callback" <=> wcall[d] = "callback"
        BY <3>2, <3>6, <3>9
      <4> QED
        BY <2>0, <2>k, <3>2, <3>4, <3>5, <3>7, <3>9, <4>1 DEF HolderValidates
    <3> QED
      BY <3>8, <3>9
  <2>4. ASSUME ReloadWasm PROVE TrapInv' /\ (wasm'.published => wasm.published)
    <3>1. wasm'.published = wasm.published /\ wasm'.quarantined = wasm.quarantined /\ wop' = "reload"
      BY <2>0, <2>4 DEF ReloadWasm, BeginDispatch, WasmTypeOK
    <3>2. \A d \in WasmCallers : wcall'[d] = "callback" <=> wcall[d] = "callback"
      BY <2>0, <2>4 DEF ReloadWasm, BeginDispatch, WasmTypeOK
    <3>3. wcall'[Admin] # "idle" => Validates
      BY <2>0, <2>4 DEF ReloadWasm, HolderValidates
    <3> QED
      BY <2>k, <3>1, <3>2, <3>3
  <2>5. ASSUME ReloadEnds \/ (\E c \in WasmCalls : Refuse(c)) \/ DisableWasm
                 \/ (\E timeout \in BOOLEAN : DrainReturns(timeout) \/ StopWasm(timeout))
                 \/ UNCHANGED wasmVars
        PROVE  TrapInv' /\ (wasm'.published => wasm.published)
    <3>1. wcall' = wcall
      BY <2>5 DEF ReloadEnds, Refuse, DisableWasm, DrainReturns, StopWasm, wasmVars
    <3>2. (wasm'.published => wasm.published) /\ wasm'.quarantined = wasm.quarantined
      <4>1. CASE ReloadEnds \/ UNCHANGED wasmVars
        BY <4>1 DEF ReloadEnds, wasmVars
      <4>2. CASE (\E c \in WasmCalls : Refuse(c)) \/ DisableWasm
        BY <2>0, <4>2 DEF Refuse, DisableWasm, WasmTypeOK
      <4>3. ASSUME NEW timeout \in BOOLEAN, DrainReturns(timeout) \/ StopWasm(timeout)
            PROVE  wasm'.published = wasm.published /\ wasm'.quarantined = wasm.quarantined
        BY <2>0, <4>3 DEF DrainReturns, StopWasm, WasmTypeOK
      <4> QED
        BY <2>5, <4>1, <4>2, <4>3
    <3>3. wcall[Admin] = "idle" \/ wop' = wop
      BY <2>0, <2>5 DEF ReloadEnds, Refuse, DisableWasm, DrainReturns, StopWasm, wasmVars, HolderValidates
    <3> QED
      BY <2>0, <2>k, <3>1, <3>2, <3>3 DEF HolderValidates
  <2> QED
    BY <1>2, <2>1, <2>2, <2>3, <2>4, <2>5 DEF WasmNext
<1> QED
  BY <1>1, <1>2

\* The safety half of TrapsLeaveDispatch, for any number of callers and any threshold: an
\* instance that reached the threshold and is still in the dispatch tables has exactly one call
\* with handleWASMRepeatedTrapQuarantine before it, nothing puts it back once it is out, and
\* the manager's lock that this call waits for is held by one that waits for a call only in
\* the validation of a reload (validateConfig) - the one case in which the two wait for each
\* other, and none for a manifest without config.validate/v1.
THEOREM TrapsAreCarried == WasmSpec => [](TrapIsCarried /\ HolderValidates) /\ StaysOut
<1>1. WasmInv /\ TrapInv /\ [WasmNext]_wasmVars => TrapInv'
  BY TrapInductive
<1>2. WasmInv /\ TrapInv /\ [WasmNext]_wasmVars => [wasm'.published => wasm.published]_wasmVars
  BY TrapInductive
<1>3. WasmInit => TrapInv
  BY TrapInductive
<1>4. TrapInv => TrapIsCarried /\ HolderValidates
  BY DEF TrapInv
<1> QED
  BY <1>1, <1>2, <1>3, <1>4, WasmInvariant, PTL DEF WasmSpec, StaysOut

-----------------------------------------------------------------------------
(* Sandbox: what a process leaves behind, and when.                          *)

BoxRecord ==
    [caller : {"none", "starting", "registering", "loaded", "stopping", "failed", "stopped"},
     asked : BOOLEAN, process : {"none", "running", "dying", "exited", "reaped"}, crash : BOOLEAN,
     ok : SUBSET Commands, startup : {"open", "ok", "error"}, files : {"none", "made", "left"}, done : BOOLEAN,
     streams : Int]

\* done is closed by the goroutine that reaped the child, after it removed
\* the files, and nobody writes them again; Stop returns after done.
BoxOK(r) ==
    /\ r.caller = "none" => r.process = "none"
    /\ r.process = "reaped" => r.files # "made"
    /\ r.done => r.process = "reaped"
    /\ r.caller = "stopped" => r.done

SandboxInv == box \in [Boxes -> BoxRecord] /\ \A b \in Boxes : BoxOK(box[b])

\* A step that replaces the record of one process has that record to look at.
LEMMA OneBox ==
    ASSUME SandboxInv, NEW b, NEW r, b \in Boxes => r \in BoxRecord /\ BoxOK(r),
           box' = [box EXCEPT ![b] = r]
    PROVE  SandboxInv'
  BY DEF SandboxInv

\* The updates of a record that the actions share keep its shape.
LEMMA BoxUpdates ==
    ASSUME NEW r \in BoxRecord, BoxOK(r)
    PROVE  /\ Complete(r, "error") \in BoxRecord /\ BoxOK(Complete(r, "error"))
           /\ Complete(r, "ok") \in BoxRecord /\ BoxOK(Complete(r, "ok"))
           /\ \A c \in Commands : LET u == [r EXCEPT !.ok = @ \cup {c}] IN u \in BoxRecord /\ BoxOK(u)
           /\ LET u == [r EXCEPT !.caller = "stopping"] IN u \in BoxRecord /\ BoxOK(u)
  BY DEF BoxRecord, BoxOK, Complete

\* Init and every step of the runtime keep SandboxInv.
LEMMA SandboxInductive ==
    /\ SandboxInit => SandboxInv
    /\ SandboxInv /\ [SandboxNext]_boxVars => SandboxInv'
<1>1. SandboxInit => SandboxInv
  BY DEF SandboxInit, SandboxInv, Unstarted, BoxRecord, BoxOK
<1>2. ASSUME SandboxInv, SandboxNext PROVE SandboxInv'
  <2>0. \A b \in Boxes : box[b] \in BoxRecord /\ BoxOK(box[b])
    BY <1>2 DEF SandboxInv
  <2>1. ASSUME NEW b \in Boxes, NEW policy \in Policies, StartBox(b, policy) PROVE SandboxInv'
    <3> DEFINE r == [box[b] EXCEPT !.caller = "starting", !.asked = TRUE, !.process = "running", !.files = "made"]
    <3>1. box' = [box EXCEPT ![b] = r] /\ box[b].caller = "none"
      BY <2>1 DEF StartBox
    <3>2. r \in BoxRecord /\ BoxOK(r)
      BY <2>0, <3>1 DEF BoxRecord, BoxOK
    <3> QED
      BY <1>2, <3>1, <3>2, OneBox
  <2>1a. ASSUME NEW b \in Boxes, NEW policy \in Policies, NEW files \in Removals, StartRefused(b, policy, files)
         PROVE  SandboxInv'
    <3> DEFINE r == [box[b] EXCEPT !.caller = "failed", !.files = files]
    <3>1. box' = [box EXCEPT ![b] = r] /\ box[b].caller = "none"
      BY <2>1a DEF StartRefused
    <3>2. r \in BoxRecord /\ BoxOK(r)
      BY <2>0, <3>1 DEF BoxRecord, BoxOK, Removals
    <3> QED
      BY <1>2, <3>1, <3>2, OneBox
  <2>2. ASSUME NEW b \in Boxes, NEW c \in Commands, ChildAsks(b, c) \/ BadRequest(b, c) PROVE SandboxInv'
    <3> DEFINE r == IF "register" \in box[b].ok THEN box[b] ELSE Complete(box[b], "error")
    <3>1. UNCHANGED box \/ box' = [box EXCEPT ![b] = r]
      BY <2>2 DEF ChildAsks, BadRequest, RejectChild
    <3>2. r \in BoxRecord /\ BoxOK(r)
      BY <2>0, BoxUpdates
    <3> HIDE DEF r
    <3>3. UNCHANGED box => SandboxInv'
      BY <1>2 DEF SandboxInv
    <3> QED
      BY <1>2, <3>1, <3>2, <3>3, OneBox
  <2>3. ASSUME NEW b \in Boxes, NEW c \in Commands, Succeed(b, c) PROVE SandboxInv'
    <3> DEFINE u == [box[b] EXCEPT !.ok = @ \cup {c}]
               r == IF c = "register" THEN Complete(u, "ok") ELSE u
    <3>1. box' = [box EXCEPT ![b] = r]
      BY <2>3 DEF Succeed
    <3>2. u \in BoxRecord /\ BoxOK(u)
      BY <2>0, BoxUpdates
    <3> HIDE DEF u
    <3>3. r \in BoxRecord /\ BoxOK(r)
      BY <3>2, BoxUpdates
    <3> HIDE DEF r
    <3> QED
      BY <1>2, <3>1, <3>3, OneBox
  <2>4. ASSUME NEW b \in Boxes, GiveUpStart(b) PROVE SandboxInv'
    <3> DEFINE u == Complete(box[b], "error")
               r == [u EXCEPT !.caller = "failed", !.process = Killed(@)]
    <3>1. box' = [box EXCEPT ![b] = r]
      BY <2>4 DEF GiveUpStart
    <3>2. u \in BoxRecord /\ BoxOK(u)
      BY <2>0, BoxUpdates
    <3> HIDE DEF u
    <3>3. r \in BoxRecord /\ BoxOK(r)
      BY <3>2 DEF BoxRecord, BoxOK, Killed
    <3> HIDE DEF r
    <3> QED
      BY <1>2, <3>1, <3>3, OneBox
  <2>5. ASSUME NEW b \in Boxes, Started(b) \/ InitRefused(b) \/ DryRunConfig(b) \/ RequestEnds(b)
        PROVE  SandboxInv'
    <3>1. CASE Started(b) \/ InitRefused(b) \/ DryRunConfig(b)
      BY <1>2, <2>0, <3>1 DEF Started, InitRefused, DryRunConfig, SandboxInv, BoxRecord, BoxOK
    <3>2. CASE RequestEnds(b)
      <4> DEFINE r == [box[b] EXCEPT !.asked = FALSE, !.process = Killed(@)]
      <4>1. box' = [box EXCEPT ![b] = r]
        BY <2>0, <3>2 DEF RequestEnds
      <4>2. r \in BoxRecord /\ BoxOK(r)
        BY <2>0, <4>1 DEF BoxRecord, BoxOK, Killed
      <4> HIDE DEF r
      <4> QED
        BY <1>2, <4>1, <4>2, OneBox
    <3> QED
      BY <2>5, <3>1, <3>2
  <2>6. ASSUME NEW b \in Boxes, InterruptBox(b) \/ StopReturns(b) \/ \E well \in BOOLEAN : ExitBox(b, well)
        PROVE SandboxInv'
    BY <1>2, <2>0, <2>6 DEF InterruptBox, StopReturns, ExitBox, SandboxInv, BoxRecord, BoxOK
  <2>7. ASSUME NEW b \in Boxes, (\E files \in Removals : RemoveFiles(b, files)) \/ CloseDone(b)
        PROVE  SandboxInv'
    <3>1. ASSUME NEW files \in Removals, RemoveFiles(b, files) PROVE SandboxInv'
      <4> DEFINE r == [box[b] EXCEPT !.process = "reaped", !.files = files]
      <4>1. box' = [box EXCEPT ![b] = r] /\ box[b].process = "exited"
        BY <3>1 DEF RemoveFiles, Cleaned
      <4>2. r \in BoxRecord /\ BoxOK(r)
        BY <2>0, <4>1 DEF BoxRecord, BoxOK, Removals
      <4> HIDE DEF r
      <4> QED
        BY <1>2, <4>1, <4>2, OneBox
    <3>2. CASE CloseDone(b)
      <4> DEFINE r == [box[b] EXCEPT !.done = TRUE]
      <4>1. box' = [box EXCEPT ![b] = r] /\ box[b].process = "reaped"
        BY <2>0, <3>2 DEF CloseDone
      <4>2. r \in BoxRecord /\ BoxOK(r)
        BY <2>0, <4>1 DEF BoxRecord, BoxOK
      <4> HIDE DEF r
      <4> QED
        BY <1>2, <4>1, <4>2, OneBox
    <3> QED
      BY <2>7, <3>1, <3>2
  <2>8. ASSUME NEW b \in Boxes, LoadBox(b) PROVE SandboxInv'
    <3>1. \A a \in Boxes : LET u == [box[a] EXCEPT !.caller = "stopping"] IN u \in BoxRecord /\ BoxOK(u)
      BY <2>0, BoxUpdates
    <3>2. [box[b] EXCEPT !.caller = "loaded"] \in BoxRecord /\ BoxOK([box[b] EXCEPT !.caller = "loaded"])
      BY <2>0 DEF BoxRecord, BoxOK
    <3>3. box' \in [Boxes -> BoxRecord]
      BY <2>0, <2>8, <3>1, <3>2 DEF LoadBox
    <3>4. \A a \in Boxes : \/ box'[a] = [box[a] EXCEPT !.caller = "loaded"] /\ a = b
                           \/ box'[a] = [box[a] EXCEPT !.caller = "stopping"]
                           \/ box'[a] = box[a]
      BY <2>8 DEF LoadBox
    <3>5. \A a \in Boxes : BoxOK(box'[a])
      BY <2>0, <3>1, <3>2, <3>4
    <3> QED
      BY <3>3, <3>5 DEF SandboxInv
  <2>9. ASSUME UnloadBox PROVE SandboxInv'
    <3>1. box' = [box EXCEPT ![current] = [box[current] EXCEPT !.caller = "stopping"]]
      BY <2>9 DEF UnloadBox
    <3> QED
      BY <1>2, <2>0, <3>1, OneBox, BoxUpdates
  <2>10. ASSUME NEW s \in BoxStreams, OpenStream(s) PROVE SandboxInv'
    <3> DEFINE r == [box[current] EXCEPT !.streams = box[current].streams + 1]
    <3>1. box' = [box EXCEPT ![current] = r]
      BY <2>10 DEF OpenStream
    <3>2. current \in Boxes => r \in BoxRecord /\ BoxOK(r)
      BY <2>0 DEF BoxRecord, BoxOK
    <3> HIDE DEF r
    <3> QED
      BY <1>2, <3>1, <3>2, OneBox
  <2>11. ASSUME NEW s \in BoxStreams, CloseStream(s) \/ WatcherCloses(s) PROVE SandboxInv'
    <3> DEFINE of == boxStream[s].of
    <3> DEFINE r == [box[of] EXCEPT !.streams = box[of].streams - 1]
    <3>1. UNCHANGED box \/ box' = [box EXCEPT ![of] = r]
      BY <2>11 DEF CloseStream, WatcherCloses, ReleaseStream
    <3>2. UNCHANGED box => SandboxInv'
      BY <1>2 DEF SandboxInv
    <3>3. of \in Boxes => r \in BoxRecord /\ BoxOK(r)
      BY <2>0 DEF BoxRecord, BoxOK
    <3> HIDE DEF of, r
    <3> QED
      BY <1>2, <3>1, <3>2, <3>3, OneBox
  <2>12. ASSUME UNCHANGED box PROVE SandboxInv'
    BY <1>2, <2>12 DEF SandboxInv
  <2>13. FindCrashed \/ Quarantine \/ (\E s \in BoxStreams : WatcherEnds(s))
          \/ (\E k \in BoxCalls : \/ \E point \in Points, open \in BOOLEAN : Invoke(k, point, open)
                                  \/ Answered(k) \/ Unanswered(k))
         => UNCHANGED box
    BY DEF FindCrashed, Quarantine, WatcherEnds, Invoke, Answered, Unanswered
  <2> QED
    BY <1>2, <2>1, <2>1a, <2>2, <2>3, <2>4, <2>5, <2>6, <2>7, <2>8, <2>9, <2>10, <2>11, <2>12, <2>13
       DEF SandboxNext
<1>3. ASSUME SandboxInv, UNCHANGED boxVars PROVE SandboxInv'
  BY <1>3 DEF SandboxInv, boxVars
<1> QED
  BY <1>1, <1>2, <1>3

\* When sandboxProcess.Stop returns the child is reaped and the removal of its
\* directory and socket is over, for any number of processes - overlapping starts and
\* dry runs included -, calls and streams, and whichever of a stop, a crash or the end
\* of the request killed the child.
THEOREM StopLeavesNothingAlways == SandboxSpec => []StopLeavesNothing
<1>1. SandboxInv => StopLeavesNothing
  BY DEF SandboxInv, BoxOK, StopLeavesNothing
<1> QED
  BY <1>1, SandboxInductive, PTL DEF SandboxSpec
-----------------------------------------------------------------------------
(* Sandbox: the streams of a process, and what EndedBoxIsCleaned rests on,   *)
(* but for the fairness.                                                     *)

\* The streams bound to a process and not yet released.
Unreleased(b) == {s \in BoxStreams : boxStream[s].of = b /\ ~boxStream[s].released}

\* activeStreams of a process is the number of its streams that are open, although the
\* handler closes a stream up to twice and races its watcher.
StreamsCounted == \A b \in Boxes : IsFiniteSet(Unreleased(b)) /\ box[b].streams = Cardinality(Unreleased(b))

StreamRecord ==
    [at : {"new", "open", "closed", "gone"}, of : Boxes \cup {NoBox},
     watcher : {"none", "watching", "ended"}, released : BOOLEAN]

\* A stream that is bound is watched until somebody has released it.
StreamOK(r) ==
    /\ r.at = "new" <=> r.of = NoBox
    /\ r.at \in {"closed", "gone"} => r.released
    /\ r.at # "new" /\ ~r.released => r.watcher = "watching"
    /\ r.at = "new" => r.watcher = "none"

\* What the caller of Start knows of the child: there is one once the caller is past
\* the start, and none is running when the start has failed.
CallerOK(r) ==
    /\ r.caller \notin {"none", "failed"} => r.process # "none"
    /\ r.caller = "failed" => r.process # "running"
    /\ r.process = "none" => r.files # "made"

StreamInv ==
    /\ SandboxInv /\ StreamsCounted
    /\ boxStream \in [BoxStreams -> StreamRecord] /\ \A s \in BoxStreams : StreamOK(boxStream[s])
    /\ current \in Boxes \cup {NoBox} /\ (current # NoBox => box[current].process # "none")
    /\ \A b \in Boxes : CallerOK(box[b]) /\ (box[b].process = "none" => Unreleased(b) = {})

\* A process that is ending and has left files or streams has somebody at work on it:
\* the guards of the steps that SandboxFairSpec lets go on.
Ending(b) == box[b].caller \in {"failed", "stopping"} \/ box[b].process = "dying"

SomebodyCleans(b) ==
    \/ box[b].caller = "stopping" /\ box[b].process = "running"
    \/ box[b].process \in {"dying", "exited"}
    \/ box[b].process = "reaped" /\ ~box[b].done
    \/ box[b].done /\ \E s \in BoxStreams : boxStream[s].of = b /\ boxStream[s].watcher = "watching"

EndingIsServed == \A b \in Boxes : Ending(b) => (box[b].files # "made" /\ box[b].streams = 0) \/ SomebodyCleans(b)

\* A process only goes on: it is never started twice, none that is ending gets a stream,
\* and what is removed stays removed.
ProcessAge(process) ==
    CASE process = "none" -> 0 [] process = "running" -> 1 [] process = "dying" -> 2
      [] process = "exited" -> 3 [] OTHER -> 4

OnlyOnwards(b) ==
    /\ ProcessAge(box[b].process) <= ProcessAge(box'[b].process)
    /\ box[b].process # "running" => box'[b].streams <= box[b].streams
    /\ box[b].process # "none" /\ box[b].files # "made" => box'[b].files # "made"

ProcessesOnlyAge == [][\A b \in Boxes : OnlyOnwards(b)]_boxVars

\* How the record of a process may change by a step that opens or releases no stream.
Moved(old, new) ==
    /\ new.streams = old.streams /\ CallerOK(new)
    /\ ProcessAge(old.process) <= ProcessAge(new.process)
    /\ old.process # "none" /\ old.files # "made" => new.files # "made"

LEMMA NotMoved ==
    ASSUME NEW r \in BoxRecord, CallerOK(r)
    PROVE  Moved(r, r)
<1>1. r.process \in {"none", "running", "dying", "exited", "reaped"}
  BY DEF BoxRecord
<1>2. ProcessAge(r.process) <= ProcessAge(r.process)
  BY <1>1 DEF ProcessAge
<1> QED
  BY <1>2 DEF Moved

\* Steps that leave the streams alone.
LEMMA BoxesMoveOn ==
    ASSUME StreamInv, SandboxInv', boxStream' = boxStream,
           \A a \in Boxes : Moved(box[a], box'[a]),
           current' \in Boxes \cup {NoBox}, current' # NoBox => box[current'].process # "none"
    PROVE  StreamInv' /\ \A a \in Boxes : OnlyOnwards(a)
<1>0. \A a \in Boxes : box[a] \in BoxRecord /\ box'[a] \in BoxRecord
  BY DEF StreamInv, SandboxInv
<1>1. \A a \in Boxes : Unreleased(a)' = Unreleased(a)
  BY DEF Unreleased
<1>2. \A a \in Boxes : box'[a].process = "none" => box[a].process = "none"
  <2> SUFFICES ASSUME NEW a \in Boxes, box'[a].process = "none", box[a].process # "none" PROVE FALSE
    OBVIOUS
  <2>1. ProcessAge(box[a].process) <= ProcessAge(box'[a].process)
    BY DEF Moved
  <2>2. box[a].process \in {"running", "dying", "exited", "reaped"}
    BY <1>0 DEF BoxRecord
  <2> QED
    BY <2>1, <2>2 DEF ProcessAge
<1>3. StreamsCounted'
  BY <1>1 DEF StreamInv, StreamsCounted, Moved
<1>4. current' # NoBox => box'[current'].process # "none"
  BY <1>2
<1>5. \A a \in Boxes : CallerOK(box'[a]) /\ (box'[a].process = "none" => Unreleased(a)' = {})
  BY <1>1, <1>2 DEF StreamInv, Moved
<1>6. StreamInv'
  BY <1>3, <1>4, <1>5 DEF StreamInv
<1>7. ASSUME NEW a \in Boxes PROVE OnlyOnwards(a)
  <2>1. box[a].streams \in Int
    BY <1>0 DEF BoxRecord
  <2> QED
    BY <2>1 DEF OnlyOnwards, Moved
<1> QED
  BY <1>6, <1>7

\* One record is replaced.
LEMMA OneBoxMovesOn ==
    ASSUME StreamInv, SandboxInv', boxStream' = boxStream, current' = current,
           NEW b \in Boxes, NEW r, box' = [box EXCEPT ![b] = r], Moved(box[b], r)
    PROVE  StreamInv' /\ \A a \in Boxes : OnlyOnwards(a)
<1>1. \A a \in Boxes : box'[a] = IF a = b THEN r ELSE box[a]
  BY DEF StreamInv, SandboxInv
<1>2. \A a \in Boxes : box[a] \in BoxRecord /\ CallerOK(box[a])
  BY DEF StreamInv, SandboxInv
<1>3. \A a \in Boxes : Moved(box[a], box'[a])
  BY <1>1, <1>2, NotMoved
<1> QED
  BY <1>3, BoxesMoveOn DEF StreamInv

\* The updates of a record.
LEMMA RecordMoves ==
    ASSUME NEW r \in BoxRecord, BoxOK(r), CallerOK(r)
    PROVE  /\ \A how \in {"ok", "error"} : Moved(r, Complete(r, how))
           /\ \A c \in Commands : Moved(r, [r EXCEPT !.ok = @ \cup {c}])
           /\ r.process # "none" => Moved(r, [r EXCEPT !.caller = "stopping"])
<1>0. r.process \in {"none", "running", "dying", "exited", "reaped"}
  BY DEF BoxRecord
<1>1. ProcessAge(r.process) <= ProcessAge(r.process)
  BY <1>0 DEF ProcessAge
<1>2. \A how \in {"ok", "error"} : Moved(r, Complete(r, how))
  BY <1>1 DEF Moved, Complete, CallerOK, BoxRecord
<1>3. \A c \in Commands : Moved(r, [r EXCEPT !.ok = @ \cup {c}])
  BY <1>1 DEF Moved, CallerOK, BoxRecord
<1>4. r.process # "none" => Moved(r, [r EXCEPT !.caller = "stopping"])
  BY <1>1 DEF Moved, CallerOK, BoxRecord
<1> QED
  BY <1>2, <1>3, <1>4

\* One stream is released, or was before.
LEMMA ReleaseCounts ==
    ASSUME StreamInv, SandboxInv', NEW s \in BoxStreams, NEW r \in StreamRecord, boxStream[s].at # "new",
           boxStream' = [boxStream EXCEPT ![s] = r], StreamOK(r), r.of = boxStream[s].of, r.released,
           ReleaseStream(s), current' = current
    PROVE  StreamInv' /\ \A a \in Boxes : OnlyOnwards(a)
<1> DEFINE b == boxStream[s].of
<1>0. /\ \A a \in Boxes : box[a] \in BoxRecord /\ box[a].streams \in Int /\ CallerOK(box[a])
      /\ boxStream \in [BoxStreams -> StreamRecord] /\ b \in Boxes
  BY DEF StreamInv, SandboxInv, BoxRecord, StreamRecord, StreamOK
<1>1. \A t \in BoxStreams : boxStream'[t] = IF t = s THEN r ELSE boxStream[t]
  BY <1>0
<1>2. \A a \in Boxes : Unreleased(a)' = Unreleased(a) \ {s}
  BY <1>1 DEF Unreleased
<1>3. \A a \in Boxes : s \in Unreleased(a) <=> a = b /\ ~boxStream[s].released
  BY DEF Unreleased
<1>4. \A a \in Boxes : /\ box'[a].process = box[a].process /\ box'[a].caller = box[a].caller
                       /\ box'[a].files = box[a].files
                       /\ box'[a].streams = IF a = b /\ ~boxStream[s].released THEN box[a].streams - 1
                                            ELSE box[a].streams
  <2>1. CASE boxStream[s].released
    BY <2>1 DEF ReleaseStream
  <2>2. CASE ~boxStream[s].released
    <3> DEFINE u == [box[b] EXCEPT !.streams = box[b].streams - 1]
    <3>1. box' = [box EXCEPT ![b] = u]
      BY <2>2 DEF ReleaseStream
    <3>2. /\ u.process = box[b].process /\ u.caller = box[b].caller /\ u.files = box[b].files
          /\ u.streams = box[b].streams - 1
      BY <1>0 DEF BoxRecord
    <3>3. \A a \in Boxes : box'[a] = IF a = b THEN u ELSE box[a]
      BY <1>0, <3>1 DEF StreamInv, SandboxInv
    <3> HIDE DEF u
    <3> QED
      BY <2>2, <3>2, <3>3
  <2> QED
    BY <2>1, <2>2
<1> HIDE DEF b
<1>5. StreamsCounted'
  <2> SUFFICES ASSUME NEW a \in Boxes
               PROVE  IsFiniteSet(Unreleased(a)') /\ box'[a].streams = Cardinality(Unreleased(a)')
    BY DEF StreamsCounted
  <2>1. IsFiniteSet(Unreleased(a)) /\ box[a].streams = Cardinality(Unreleased(a))
    BY DEF StreamInv, StreamsCounted
  <2>2. /\ IsFiniteSet(Unreleased(a) \ {s})
        /\ Cardinality(Unreleased(a) \ {s}) =
             IF s \in Unreleased(a) THEN Cardinality(Unreleased(a)) - 1 ELSE Cardinality(Unreleased(a))
    BY <2>1, FS_RemoveElement
  <2> QED
    BY <1>0, <1>2, <1>3, <1>4, <2>1, <2>2
<1>6. StreamInv'
  <2>1. boxStream' \in [BoxStreams -> StreamRecord] /\ \A t \in BoxStreams : StreamOK(boxStream'[t])
    BY <1>0, <1>1 DEF StreamInv
  <2>2. current' \in Boxes \cup {NoBox} /\ (current' # NoBox => box'[current'].process # "none")
    BY <1>4 DEF StreamInv
  <2>3. \A a \in Boxes : CallerOK(box'[a]) /\ (box'[a].process = "none" => Unreleased(a)' = {})
    BY <1>0, <1>2, <1>4 DEF StreamInv, CallerOK
  <2> QED
    BY <1>5, <2>1, <2>2, <2>3 DEF StreamInv
<1>7. ASSUME NEW a \in Boxes PROVE OnlyOnwards(a)
  <2>1. ProcessAge(box[a].process) <= ProcessAge(box'[a].process)
    BY <1>0, <1>4 DEF ProcessAge, BoxRecord
  <2>2. box'[a].streams <= box[a].streams
    BY <1>0, <1>4
  <2> QED
    BY <1>4, <2>1, <2>2 DEF OnlyOnwards
<1> QED
  BY <1>6, <1>7

\* A stream is opened on the process that is loaded, while it runs.
LEMMA OpenCounts ==
    ASSUME StreamInv, SandboxInv', NEW s \in BoxStreams, OpenStream(s)
    PROVE  StreamInv' /\ \A a \in Boxes : OnlyOnwards(a)
<1> DEFINE r == [at |-> "open", of |-> current, watcher |-> "watching", released |-> FALSE]
           u == [box[current] EXCEPT !.streams = box[current].streams + 1]
<1>0. /\ \A a \in Boxes : box[a] \in BoxRecord /\ box[a].streams \in Int /\ CallerOK(box[a])
      /\ boxStream \in [BoxStreams -> StreamRecord] /\ current \in Boxes /\ box[current].process = "running"
      /\ boxStream[s].at = "new" /\ boxStream[s].of = NoBox /\ current' = current
  BY DEF OpenStream, StreamInv, SandboxInv, BoxRecord, StreamRecord, StreamOK
<1>1. r \in StreamRecord /\ StreamOK(r) /\ ~r.released /\ r.of = current
  BY <1>0, BoxAssumption DEF StreamRecord, StreamOK
<1>2. boxStream' = [boxStream EXCEPT ![s] = r] /\ box' = [box EXCEPT ![current] = u]
  BY DEF OpenStream
<1>3. /\ u.process = box[current].process /\ u.caller = box[current].caller /\ u.files = box[current].files
      /\ u.streams = box[current].streams + 1
  BY <1>0 DEF BoxRecord
<1> HIDE DEF r, u
<1>4. \A t \in BoxStreams : boxStream'[t] = IF t = s THEN r ELSE boxStream[t]
  BY <1>0, <1>2
<1>5. \A a \in Boxes : box'[a] = IF a = current THEN u ELSE box[a]
  BY <1>0, <1>2 DEF StreamInv, SandboxInv
<1>6. /\ Unreleased(current)' = Unreleased(current) \cup {s} /\ s \notin Unreleased(current)
      /\ \A a \in Boxes : a # current => Unreleased(a)' = Unreleased(a)
  <2>1. current # NoBox
    BY <1>0, BoxAssumption
  <2>2. \A a \in Boxes : boxStream[s].of # a
    BY <1>0, BoxAssumption
  <2>3. s \notin Unreleased(current)
    BY <1>0, <2>2 DEF Unreleased
  <2>4. \A a \in Boxes, t \in BoxStreams :
            (boxStream'[t].of = a /\ ~boxStream'[t].released)
              <=> (a = current /\ t = s) \/ (boxStream[t].of = a /\ ~boxStream[t].released)
    BY <1>1, <1>4, <2>2
  <2> QED
    BY <1>0, <2>3, <2>4 DEF Unreleased
<1>7. StreamsCounted'
  <2> SUFFICES ASSUME NEW a \in Boxes
               PROVE  IsFiniteSet(Unreleased(a)') /\ box'[a].streams = Cardinality(Unreleased(a)')
    BY DEF StreamsCounted
  <2>1. IsFiniteSet(Unreleased(a)) /\ box[a].streams = Cardinality(Unreleased(a))
    BY DEF StreamInv, StreamsCounted
  <2>2. CASE a = current
    <3>1. IsFiniteSet(Unreleased(a) \cup {s}) /\ Cardinality(Unreleased(a) \cup {s}) = Cardinality(Unreleased(a)) + 1
      BY <1>6, <2>1, <2>2, FS_AddElement
    <3>2. Unreleased(a)' = Unreleased(a) \cup {s}
      BY <1>0, <1>6, <2>2 DEF Unreleased
    <3>3. box'[a].streams = box[a].streams + 1
      BY <1>3, <1>5, <2>2
    <3> QED
      BY <2>1, <3>1, <3>2, <3>3
  <2>3. CASE a # current
    BY <1>5, <1>6, <2>1, <2>3
  <2> QED
    BY <2>2, <2>3
<1>8. StreamInv'
  <2>1. boxStream' \in [BoxStreams -> StreamRecord] /\ \A t \in BoxStreams : StreamOK(boxStream'[t])
    BY <1>0, <1>1, <1>2, <1>4 DEF StreamInv
  <2>2. current' \in Boxes \cup {NoBox} /\ (current' # NoBox => box'[current'].process # "none")
    BY <1>0, <1>3, <1>5
  <2>3. \A a \in Boxes : CallerOK(box'[a])
    BY <1>0, <1>3, <1>5 DEF CallerOK
  <2>4. \A a \in Boxes : box'[a].process = "none" => Unreleased(a)' = {}
    BY <1>0, <1>3, <1>5, <1>6 DEF StreamInv
  <2> QED
    BY <1>7, <2>1, <2>2, <2>3, <2>4 DEF StreamInv
<1>9. ASSUME NEW a \in Boxes PROVE OnlyOnwards(a)
  <2>1. box'[a].process = box[a].process /\ box'[a].files = box[a].files
    BY <1>3, <1>5
  <2>2. ProcessAge(box[a].process) <= ProcessAge(box'[a].process)
    BY <1>0, <2>1 DEF ProcessAge, BoxRecord
  <2>3. box[a].process # "running" => box'[a].streams <= box[a].streams
    BY <1>0, <1>5
  <2> QED
    BY <2>1, <2>2, <2>3 DEF OnlyOnwards
<1> QED
  BY <1>8, <1>9

LEMMA StreamStep ==
    ASSUME StreamInv, SandboxInv', SandboxNext
    PROVE  StreamInv' /\ \A a \in Boxes : OnlyOnwards(a)
<1> DEFINE Goal == StreamInv' /\ \A a \in Boxes : OnlyOnwards(a)
<1>0. /\ \A b \in Boxes : box[b] \in BoxRecord /\ BoxOK(box[b]) /\ CallerOK(box[b])
      /\ current \in Boxes \cup {NoBox} /\ (current # NoBox => box[current].process # "none")
  BY DEF StreamInv, SandboxInv
<1>1. ASSUME NEW b \in Boxes, NEW policy \in Policies, StartBox(b, policy) PROVE Goal
  <2> DEFINE r == [box[b] EXCEPT !.caller = "starting", !.asked = TRUE, !.process = "running", !.files = "made"]
  <2>1. box' = [box EXCEPT ![b] = r] /\ box[b].caller = "none" /\ UNCHANGED <<current, boxStream>>
    BY <1>1 DEF StartBox
  <2>2. box[b].process = "none"
    BY <1>0, <2>1 DEF BoxOK
  <2>3. Moved(box[b], r)
    BY <1>0, <2>2 DEF Moved, CallerOK, BoxRecord, ProcessAge
  <2> HIDE DEF r
  <2> QED
    BY <2>1, <2>3, OneBoxMovesOn
<1>1a. ASSUME NEW b \in Boxes, NEW policy \in Policies, NEW files \in Removals, StartRefused(b, policy, files)
       PROVE  Goal
  <2> DEFINE r == [box[b] EXCEPT !.caller = "failed", !.files = files]
  <2>1. box' = [box EXCEPT ![b] = r] /\ box[b].caller = "none" /\ UNCHANGED <<current, boxStream>>
    BY <1>1a DEF StartRefused
  <2>2. box[b].process = "none"
    BY <1>0, <2>1 DEF BoxOK
  <2>3. Moved(box[b], r)
    BY <1>0, <2>2 DEF Moved, CallerOK, BoxRecord, ProcessAge, Removals
  <2> HIDE DEF r
  <2> QED
    BY <2>1, <2>3, OneBoxMovesOn
<1>2. ASSUME NEW b \in Boxes, NEW c \in Commands, ChildAsks(b, c) \/ BadRequest(b, c) PROVE Goal
  <2> DEFINE r == IF box' = box \/ "register" \in box[b].ok THEN box[b] ELSE Complete(box[b], "error")
  <2>1. box' = [box EXCEPT ![b] = r] /\ UNCHANGED <<current, boxStream>>
    BY <1>2 DEF ChildAsks, BadRequest, RejectChild, StreamInv, SandboxInv
  <2>2. Moved(box[b], r)
    BY <1>0, NotMoved, RecordMoves
  <2> HIDE DEF r
  <2> QED
    BY <2>1, <2>2, OneBoxMovesOn
<1>3. ASSUME NEW b \in Boxes, NEW c \in Commands, Succeed(b, c) PROVE Goal
  <2> DEFINE u == [box[b] EXCEPT !.ok = @ \cup {c}]
             r == IF c = "register" THEN Complete(u, "ok") ELSE u
  <2>1. box' = [box EXCEPT ![b] = r] /\ UNCHANGED <<current, boxStream>>
    BY <1>3 DEF Succeed
  <2>2. u \in BoxRecord /\ BoxOK(u) /\ Moved(box[b], u)
    BY <1>0, BoxUpdates, RecordMoves
  <2>u. u.process = box[b].process /\ u.files = box[b].files
    BY <1>0 DEF BoxRecord
  <2> HIDE DEF u
  <2>3. Moved(u, Complete(u, "ok"))
    BY <2>2, RecordMoves DEF Moved
  <2>4. Moved(box[b], r)
    BY <2>2, <2>u, <2>3 DEF Moved
  <2> HIDE DEF r
  <2> QED
    BY <2>1, <2>4, OneBoxMovesOn
<1>4. ASSUME NEW b \in Boxes, GiveUpStart(b) PROVE Goal
  <2> DEFINE u == Complete(box[b], "error")
             r == [u EXCEPT !.caller = "failed", !.process = Killed(@)]
  <2>1. box' = [box EXCEPT ![b] = r] /\ UNCHANGED <<current, boxStream>>
    BY <1>4 DEF GiveUpStart
  <2>a. box[b] \in BoxRecord
    BY <1>0
  <2>p. u.process = box[b].process /\ u.files = box[b].files
    BY <2>a DEF Complete, BoxRecord
  <2>m. u \in BoxRecord /\ Moved(box[b], u)
    BY <1>0, <2>a, BoxUpdates, RecordMoves
  <2>2. u \in BoxRecord /\ Moved(box[b], u) /\ u.process = box[b].process /\ u.files = box[b].files
    BY <2>p, <2>m
  <2> HIDE DEF u
  <2>3. /\ r.streams = u.streams /\ r.files = u.files /\ r.caller = "failed"
        /\ r.process = Killed(u.process)
    BY <2>2 DEF BoxRecord
  <2> HIDE DEF r
  <2>4. u.process \in {"none", "running", "dying", "exited", "reaped"}
    BY <2>2 DEF BoxRecord
  <2>5. Moved(box[b], r)
    BY <1>0, <2>2, <2>3, <2>4 DEF Moved, CallerOK, Killed, ProcessAge
  <2> QED
    BY <2>1, <2>5, OneBoxMovesOn
<1>5. ASSUME NEW b \in Boxes, Started(b) \/ InitRefused(b) \/ DryRunConfig(b) PROVE Goal
  <2> DEFINE r == [box[b] EXCEPT !.caller = IF Started(b) THEN "registering" ELSE "stopping"]
  <2>1. box' = [box EXCEPT ![b] = r] /\ UNCHANGED <<current, boxStream>> /\ box[b].process # "none"
    BY <1>0, <1>5 DEF Started, InitRefused, DryRunConfig, CallerOK
  <2>2. /\ r.streams = box[b].streams /\ r.process = box[b].process /\ r.files = box[b].files
        /\ r.caller \in {"registering", "stopping"}
    BY <1>0 DEF BoxRecord
  <2> HIDE DEF r
  <2>3. Moved(box[b], r)
    BY <1>0, <2>1, <2>2, NotMoved DEF Moved, CallerOK
  <2> QED
    BY <2>1, <2>3, OneBoxMovesOn
<1>6. ASSUME NEW b \in Boxes, RequestEnds(b) PROVE Goal
  <2> DEFINE r == [box[b] EXCEPT !.asked = FALSE, !.process = Killed(@)]
  <2>1. box' = [box EXCEPT ![b] = r] /\ UNCHANGED <<current, boxStream>>
    BY <1>0, <1>6 DEF RequestEnds
  <2>2. /\ r.streams = box[b].streams /\ r.process = Killed(box[b].process) /\ r.files = box[b].files
        /\ r.caller = box[b].caller
    BY <1>0 DEF BoxRecord
  <2> HIDE DEF r
  <2>3. box[b].process \in {"none", "running", "dying", "exited", "reaped"}
    BY <1>0 DEF BoxRecord
  <2>4. Moved(box[b], r)
    BY <1>0, <2>2, <2>3 DEF Moved, CallerOK, Killed, ProcessAge
  <2> QED
    BY <2>1, <2>4, OneBoxMovesOn
<1>7. ASSUME NEW b \in Boxes, InterruptBox(b) \/ StopReturns(b) \/ \E well \in BOOLEAN : ExitBox(b, well)
      PROVE  Goal
  <2>1. CASE InterruptBox(b)
    <3> DEFINE r == [box[b] EXCEPT !.process = "dying"]
    <3>1. box' = [box EXCEPT ![b] = r] /\ UNCHANGED <<current, boxStream>> /\ box[b].process = "running"
      BY <2>1 DEF InterruptBox
    <3>2. Moved(box[b], r)
      BY <1>0, <3>1 DEF Moved, CallerOK, BoxRecord, ProcessAge
    <3> HIDE DEF r
    <3> QED
      BY <3>1, <3>2, OneBoxMovesOn
  <2>2. CASE StopReturns(b)
    <3> DEFINE r == [box[b] EXCEPT !.caller = "stopped"]
    <3>1. box' = [box EXCEPT ![b] = r] /\ UNCHANGED <<current, boxStream>> /\ box[b].process = "reaped"
      BY <1>0, <2>2 DEF StopReturns, BoxOK
    <3>2. Moved(box[b], r)
      BY <1>0, <3>1 DEF Moved, CallerOK, BoxRecord, ProcessAge
    <3> HIDE DEF r
    <3> QED
      BY <3>1, <3>2, OneBoxMovesOn
  <2>3. ASSUME NEW well \in BOOLEAN, ExitBox(b, well) PROVE Goal
    <3> DEFINE r == [box[b] EXCEPT !.process = "exited", !.crash = ~well]
    <3>1. /\ box' = [box EXCEPT ![b] = r] /\ UNCHANGED <<current, boxStream>>
          /\ box[b].process \in {"running", "dying"}
      BY <1>0, <2>3 DEF ExitBox
    <3>2. Moved(box[b], r)
      BY <1>0, <3>1 DEF Moved, CallerOK, BoxRecord, ProcessAge
    <3> HIDE DEF r
    <3> QED
      BY <3>1, <3>2, OneBoxMovesOn
  <2> QED
    BY <1>7, <2>1, <2>2, <2>3
<1>8. ASSUME NEW b \in Boxes, (\E files \in Removals : RemoveFiles(b, files)) \/ CloseDone(b) PROVE Goal
  <2>1. ASSUME NEW files \in Removals, RemoveFiles(b, files) PROVE Goal
    <3> DEFINE r == [box[b] EXCEPT !.process = "reaped", !.files = files]
    <3>1. box' = [box EXCEPT ![b] = r] /\ UNCHANGED <<current, boxStream>> /\ box[b].process = "exited"
      BY <2>1 DEF RemoveFiles, Cleaned
    <3>2. Moved(box[b], r)
      BY <1>0, <3>1 DEF Moved, CallerOK, BoxRecord, ProcessAge, Removals
    <3> HIDE DEF r
    <3> QED
      BY <3>1, <3>2, OneBoxMovesOn
  <2>2. CASE CloseDone(b)
    <3> DEFINE r == [box[b] EXCEPT !.done = TRUE]
    <3>1. box' = [box EXCEPT ![b] = r] /\ UNCHANGED <<current, boxStream>> /\ box[b].process = "reaped"
      BY <1>0, <2>2 DEF CloseDone
    <3>2. Moved(box[b], r)
      BY <1>0, <3>1 DEF Moved, CallerOK, BoxRecord, ProcessAge
    <3> HIDE DEF r
    <3> QED
      BY <3>1, <3>2, OneBoxMovesOn
  <2> QED
    BY <1>8, <2>1, <2>2
<1>9. ASSUME NEW b \in Boxes, LoadBox(b) PROVE Goal
  <2>1. current' = b /\ boxStream' = boxStream /\ box[b].process # "none"
    BY <1>0, <1>9 DEF LoadBox, CallerOK
  <2>2. \A a \in Boxes : \/ box'[a] = [box[a] EXCEPT !.caller = "loaded"] /\ a = b
                         \/ box'[a] = [box[a] EXCEPT !.caller = "stopping"] /\ a = current
                         \/ box'[a] = box[a]
    BY <1>9 DEF LoadBox
  <2>3. Moved(box[b], [box[b] EXCEPT !.caller = "loaded"])
    BY <1>0, <2>1 DEF Moved, CallerOK, BoxRecord, ProcessAge
  <2>4. \A a \in Boxes : Moved(box[a], box'[a])
    BY <1>0, <2>2, <2>3, NotMoved, RecordMoves, BoxAssumption
  <2> QED
    BY <2>1, <2>4, BoxesMoveOn
<1>10. ASSUME UnloadBox PROVE Goal
  <2>1. /\ current \in Boxes /\ current' = NoBox /\ boxStream' = boxStream
        /\ box' = [box EXCEPT ![current] = [box[current] EXCEPT !.caller = "stopping"]]
    BY <1>0, <1>10 DEF UnloadBox
  <2>2. Moved(box[current], [box[current] EXCEPT !.caller = "stopping"])
    BY <1>0, <2>1, RecordMoves, BoxAssumption
  <2>3. \A a \in Boxes : box'[a] = IF a = current THEN [box[current] EXCEPT !.caller = "stopping"] ELSE box[a]
    BY <2>1 DEF StreamInv, SandboxInv
  <2>4. \A a \in Boxes : Moved(box[a], box'[a])
    BY <1>0, <2>2, <2>3, NotMoved
  <2> QED
    BY <2>1, <2>4, BoxesMoveOn
<1>11. ASSUME FindCrashed \/ Quarantine \/ \E k \in BoxCalls :
                  \/ \E point \in Points, open \in BOOLEAN : Invoke(k, point, open)
                  \/ Answered(k) \/ Unanswered(k)
       PROVE  Goal
  <2>1. box' = box /\ boxStream' = boxStream /\ current' \in {current, NoBox}
    BY <1>11 DEF FindCrashed, Quarantine, Invoke, Answered, Unanswered
  <2>2. \A a \in Boxes : Moved(box[a], box'[a])
    BY <1>0, <2>1, NotMoved
  <2> QED
    BY <1>0, <2>1, <2>2, BoxesMoveOn
<1>12. ASSUME NEW s \in BoxStreams, OpenStream(s) PROVE Goal
  BY <1>12, OpenCounts
<1>13. ASSUME NEW s \in BoxStreams, CloseStream(s) \/ WatcherCloses(s) \/ WatcherEnds(s) PROVE Goal
  <2>0. boxStream[s] \in StreamRecord /\ StreamOK(boxStream[s]) /\ boxStream[s].released \in BOOLEAN
    BY DEF StreamInv, StreamRecord
  <2>1. CASE CloseStream(s)
    <3> DEFINE r == [boxStream[s] EXCEPT !.at = IF @ = "open" THEN "closed" ELSE "gone", !.released = TRUE]
    <3>1. /\ boxStream' = [boxStream EXCEPT ![s] = r] /\ boxStream[s].at \in {"open", "closed"}
          /\ current' = current
      BY <2>1 DEF CloseStream
    <3>2. r \in StreamRecord /\ StreamOK(r) /\ r.of = boxStream[s].of /\ r.released
      BY <2>0, <3>1 DEF StreamRecord, StreamOK
    <3>3. ReleaseStream(s)
      BY <2>0, <2>1 DEF CloseStream, ReleaseStream, StreamOK
    <3> HIDE DEF r
    <3> QED
      BY <3>1, <3>2, <3>3, ReleaseCounts
  <2>2. CASE WatcherCloses(s)
    <3> DEFINE r == [boxStream[s] EXCEPT !.watcher = "ended", !.released = TRUE]
    <3>1. boxStream' = [boxStream EXCEPT ![s] = r] /\ current' = current /\ ReleaseStream(s)
      BY <2>2 DEF WatcherCloses
    <3>2. boxStream[s].at # "new"
      BY <2>0, <2>2 DEF WatcherCloses, StreamOK
    <3>3. r \in StreamRecord /\ StreamOK(r) /\ r.of = boxStream[s].of /\ r.released
      BY <2>0, <3>2 DEF StreamRecord, StreamOK
    <3> HIDE DEF r
    <3> QED
      BY <3>1, <3>2, <3>3, ReleaseCounts
  <2>3. CASE WatcherEnds(s)
    <3> DEFINE r == [boxStream[s] EXCEPT !.watcher = "ended"]
    <3>1. /\ boxStream' = [boxStream EXCEPT ![s] = r] /\ current' = current /\ ReleaseStream(s)
          /\ boxStream[s].released
      BY <2>3 DEF WatcherEnds, ReleaseStream
    <3>2. boxStream[s].at # "new"
      BY <2>0, <2>3 DEF WatcherEnds, StreamOK
    <3>3. r \in StreamRecord /\ StreamOK(r) /\ r.of = boxStream[s].of /\ r.released
      BY <2>0, <3>1, <3>2 DEF StreamRecord, StreamOK
    <3> HIDE DEF r
    <3> QED
      BY <3>1, <3>2, <3>3, ReleaseCounts
  <2> QED
    BY <1>13, <2>1, <2>2, <2>3
<1> QED
  BY <1>1, <1>1a, <1>2, <1>3, <1>4, <1>5, <1>6, <1>7, <1>8, <1>9, <1>10, <1>11, <1>12, <1>13 DEF SandboxNext

LEMMA StreamInductive ==
    /\ SandboxInit => StreamInv
    /\ StreamInv /\ [SandboxNext]_boxVars => StreamInv' /\ (SandboxNext => \A b \in Boxes : OnlyOnwards(b))
<1>1. ASSUME SandboxInit PROVE StreamInv
  <2>1. SandboxInv
    BY <1>1, SandboxInductive
  <2>2. \A b \in Boxes : Unreleased(b) = {}
    BY <1>1, BoxAssumption DEF SandboxInit, Unreleased
  <2>3. StreamsCounted
    BY <1>1, <2>2, FS_EmptySet DEF SandboxInit, Unstarted, StreamsCounted
  <2>4. boxStream \in [BoxStreams -> StreamRecord] /\ \A s \in BoxStreams : StreamOK(boxStream[s])
    BY <1>1 DEF SandboxInit, StreamRecord, StreamOK
  <2>5. \A b \in Boxes : CallerOK(box[b])
    BY <1>1 DEF SandboxInit, Unstarted, CallerOK
  <2> QED
    BY <1>1, <2>1, <2>2, <2>3, <2>4, <2>5 DEF SandboxInit, StreamInv
<1>2. ASSUME StreamInv, SandboxNext PROVE StreamInv' /\ \A b \in Boxes : OnlyOnwards(b)
  <2>1. SandboxInv'
    BY <1>2, SandboxInductive DEF StreamInv
  <2> QED
    BY <1>2, <2>1, StreamStep
<1>3. ASSUME StreamInv, UNCHANGED boxVars PROVE StreamInv'
  <2>1. UNCHANGED <<box, current, boxStream>>
    BY <1>3 DEF boxVars
  <2> QED
    BY <1>3, <2>1 DEF StreamInv, SandboxInv, StreamsCounted, Unreleased
<1> QED
  BY <1>1, <1>2, <1>3

\* activeStreams of every sandboxed process is the number of its streams that are open, for
\* any number of processes and streams: a stream is released once, although its handler may
\* close it twice and its watcher at the same time (bindSandboxStreamEndpoint).
THEOREM StreamsAreCounted == SandboxSpec => []StreamsCounted
<1>1. StreamInv => StreamsCounted
  BY DEF StreamInv
<1> QED
  BY <1>1, StreamInductive, PTL DEF SandboxSpec

\* The safety half of EndedBoxIsCleaned, for any number of processes and streams: a process
\* that is being stopped, whose start failed or that was killed, and whose files are not yet
\* removed (or given up) or that has streams left, always has somebody at work on it - Stop, the goroutine that waits for its exit or the
\* watcher of a stream - and no step takes back what was done.
THEOREM EndingsAreServed == SandboxSpec => []EndingIsServed /\ ProcessesOnlyAge
<1>1. ASSUME StreamInv PROVE EndingIsServed
  <2> SUFFICES ASSUME NEW b \in Boxes, Ending(b), ~SomebodyCleans(b)
               PROVE  box[b].files # "made" /\ box[b].streams = 0
    BY DEF EndingIsServed
  <2>0. /\ box[b] \in BoxRecord /\ BoxOK(box[b]) /\ CallerOK(box[b])
        /\ IsFiniteSet(Unreleased(b)) /\ box[b].streams = Cardinality(Unreleased(b))
        /\ box[b].process = "none" => Unreleased(b) = {}
    BY <1>1 DEF StreamInv, SandboxInv, StreamsCounted
  <2>1. box[b].process = "none" \/ (box[b].process = "reaped" /\ box[b].done)
    BY <2>0 DEF Ending, SomebodyCleans, CallerOK, BoxRecord
  <2>2. box[b].files # "made"
    BY <2>0, <2>1 DEF CallerOK, BoxOK
  <2>3. Unreleased(b) = {}
    <3>1. CASE box[b].process = "none"
      BY <2>0, <3>1
    <3>2. CASE box[b].done
      <4> SUFFICES ASSUME NEW s \in Unreleased(b) PROVE FALSE
        OBVIOUS
      <4>1. /\ s \in BoxStreams /\ boxStream[s].of = b /\ ~boxStream[s].released
            /\ boxStream[s].watcher # "watching"
        BY <3>2 DEF Unreleased, SomebodyCleans
      <4> QED
        BY <1>1, <4>1, BoxAssumption DEF StreamInv, StreamOK
    <3> QED
      BY <2>1, <3>1, <3>2
  <2> QED
    BY <2>0, <2>2, <2>3, FS_EmptySet
<1>2. StreamInv /\ [SandboxNext]_boxVars => [\A b \in Boxes : OnlyOnwards(b)]_boxVars
  BY StreamInductive
<1> QED
  BY <1>1, <1>2, StreamInductive, PTL DEF SandboxSpec, ProcessesOnlyAge
-----------------------------------------------------------------------------
(* One takeover across the process border: what TakeoverSettles rests on,    *)
(* but for the fairness.                                                     *)

\* The session's action has been put into its channel, and has been taken out.
ActionSent(s) ==
    \/ cont[s] \in {"offered", "relaying", "leaving", "ended"}
    \/ flow[s] = "expired" /\ handler[s] \in {"finishing", "ended"}
ActionTaken(s) == waiter[s] \in {"done", "answeredHandled", "answeredContinue"}

TakeoverTyped ==
    /\ caller \in [Takeovers -> {"idle", "opened", "waiting", "acting", "completing", "returned", "abandoned"}]
    /\ handler \in [Takeovers -> {"none", "running", "continuing", "handled", "finishing", "ended"}]
    /\ flow \in [Takeovers -> {"available", "running", "runningAfterReturn", "used", "expired"}]
    /\ cont \in [Takeovers -> {"none", "entered", "offered", "relaying", "leaving", "ended"}]
    /\ action \in [Takeovers -> {"empty", "handled", "continue"}]
    /\ complete \in [Takeovers -> {"empty", "full"}] /\ done \in [Takeovers -> {"empty", "full"}]
    /\ waiter \in [Takeovers -> {"none", "action", "done", "answeredHandled", "answeredContinue"}]
    /\ completer \in [Takeovers -> {"none", "sent", "done", "answered"}]
    /\ inHost \subseteq Takeovers

\* The flow says where the handler and the continuation are.
FlowShape(s) ==
    CASE flow[s] = "available" -> handler[s] \in {"none", "running"} /\ cont[s] = "none"
      [] flow[s] = "running" ->
             handler[s] \in {"running", "continuing"} /\ cont[s] \in {"entered", "offered", "relaying", "leaving"}
      [] flow[s] = "runningAfterReturn" ->
             handler[s] \in {"finishing", "ended"} /\ cont[s] \in {"entered", "offered", "relaying", "leaving"}
      [] flow[s] = "used" -> handler[s] \in {"running", "finishing", "ended"} /\ cont[s] = "ended"
      [] flow[s] = "expired" -> handler[s] \in {"handled", "finishing", "ended"} /\ cont[s] = "none"

\* The channel of the action has one sender and one receiver, once each, and a
\* continuation on offer is not answered as handled.
ActionShape(s) ==
    /\ action[s] # "empty" <=> ActionSent(s) /\ ~ActionTaken(s)
    /\ ActionTaken(s) => ActionSent(s)
    /\ cont[s] = "offered" => action[s] = "continue" \/ waiter[s] = "answeredContinue"
    /\ action[s] = "continue" => cont[s] = "offered"

\* The completion follows a continuation that was taken, and ends it.
CompletionShape(s) ==
    /\ completer[s] # "none" => waiter[s] = "answeredContinue"
    /\ waiter[s] = "answeredContinue" /\ completer[s] \in {"none", "sent"} => cont[s] = "offered"
    /\ waiter[s] = "answeredContinue" => cont[s] \in {"offered", "relaying", "leaving", "ended"}
    /\ cont[s] = "relaying" => completer[s] \in {"done", "answered"}
    /\ complete[s] = "full" <=> completer[s] \in {"done", "answered"} /\ cont[s] = "offered"

\* The gateway's side of the requests.
CallerShape(s) ==
    CASE caller[s] = "idle" -> waiter[s] = "none" /\ completer[s] = "none" /\ handler[s] = "none"
      [] caller[s] = "opened" -> waiter[s] = "none" /\ completer[s] = "none" /\ handler[s] # "none"
      [] caller[s] = "waiting" -> waiter[s] # "none" /\ completer[s] = "none" /\ handler[s] # "none"
      [] caller[s] = "acting" -> waiter[s] = "answeredContinue" /\ completer[s] = "none" /\ handler[s] # "none"
      [] caller[s] = "completing" -> completer[s] # "none" /\ handler[s] # "none"
      [] caller[s] = "returned" -> handler[s] # "none" => waiter[s] = "answeredHandled" \/ completer[s] # "none"
      [] caller[s] = "abandoned" -> completer[s] = "none" /\ handler[s] # "none"

\* The session is in the map from its opening until the request that took the
\* end of the handler.
MapShape(s) ==
    /\ done[s] = "full" <=> handler[s] = "ended" /\ s \in inHost
    /\ handler[s] = "none" => s \notin inHost /\ waiter[s] = "none"
    /\ handler[s] \notin {"none", "ended"} => s \in inHost
    /\ handler[s] # "none" =>
          (s \notin inHost <=> waiter[s] = "answeredHandled" \/ completer[s] = "answered")

SessionShape(s) ==
    FlowShape(s) /\ ActionShape(s) /\ CompletionShape(s) /\ CallerShape(s) /\ MapShape(s)

TakeoverInv == TakeoverTyped /\ \A s \in Takeovers : SessionShape(s)

\* Somebody has a step to take: the guards of the goroutines that TakeoverFairSpec
\* lets go on.
SomebodyMoves(s) ==
    \/ caller[s] \in {"opened", "acting", "completing"}
    \/ caller[s] = "waiting" /\ waiter[s] \in {"answeredHandled", "answeredContinue"}
    \/ handler[s] = "running"
    \/ handler[s] = "handled" /\ action[s] = "empty"
    \/ handler[s] = "finishing" /\ done[s] = "empty"
    \/ cont[s] = "entered" /\ action[s] = "empty"
    \/ cont[s] = "offered" /\ complete[s] = "full"
    \/ cont[s] = "relaying" /\ caller[s] = "returned"
    \/ cont[s] = "leaving"
    \/ waiter[s] = "action" /\ action[s] # "empty"
    \/ waiter[s] = "done" /\ done[s] = "full"
    \/ completer[s] = "sent" /\ s \in inHost /\ complete[s] = "empty"
    \/ completer[s] = "done" /\ done[s] = "full"

\* A takeover that is under way, and that the gateway has not given up, never
\* hangs between its two processes.
TakeoverNotStuck ==
    \A s \in Takeovers :
        handler[s] # "none" /\ caller[s] # "abandoned" /\ ~Settled(s) => SomebodyMoves(s)

\* How much of a session is left, over its five parties.
CallerLeft(s) ==
    CASE caller[s] = "opened" -> 4 [] caller[s] = "waiting" -> 3 [] caller[s] = "acting" -> 2
      [] caller[s] = "completing" -> 1 [] OTHER -> 0
HandlerLeft(s) ==
    CASE handler[s] \in {"running", "continuing"} -> 3 [] handler[s] = "handled" -> 2
      [] handler[s] = "finishing" -> 1 [] OTHER -> 0
ContinuationLeft(s) ==
    CASE cont[s] = "none" -> 5 [] cont[s] = "entered" -> 4 [] cont[s] = "offered" -> 3
      [] cont[s] = "relaying" -> 2 [] cont[s] = "leaving" -> 1 [] OTHER -> 0
WaiterLeft(s) ==
    CASE waiter[s] = "none" -> 3 [] waiter[s] = "action" -> 2 [] waiter[s] = "done" -> 1 [] OTHER -> 0
CompleterLeft(s) ==
    CASE completer[s] = "none" -> 3 [] completer[s] = "sent" -> 2 [] completer[s] = "done" -> 1 [] OTHER -> 0

SessionLeft(s) ==
    CallerLeft(s) + HandlerLeft(s) + ContinuationLeft(s) + WaiterLeft(s) + CompleterLeft(s)

\* Every step of an open session uses up some of it, and no step of another
\* session or of the control server gives any back.
SessionsRunOut ==
    [][\A s \in Takeovers : caller[s] # "idle" =>
          /\ SessionLeft(s)' <= SessionLeft(s)
          /\ TakeoverStep(s) => SessionLeft(s)' < SessionLeft(s)]_takeoverVars

USE DEF channels, hostRequests

\* A step of one session is nobody else's, and keeps the types.
OnlySession(s) ==
    /\ caller' = [caller EXCEPT ![s] = caller'[s]] /\ handler' = [handler EXCEPT ![s] = handler'[s]]
    /\ flow' = [flow EXCEPT ![s] = flow'[s]] /\ cont' = [cont EXCEPT ![s] = cont'[s]]
    /\ action' = [action EXCEPT ![s] = action'[s]] /\ complete' = [complete EXCEPT ![s] = complete'[s]]
    /\ done' = [done EXCEPT ![s] = done'[s]]
    /\ waiter' = [waiter EXCEPT ![s] = waiter'[s]] /\ completer' = [completer EXCEPT ![s] = completer'[s]]
    /\ inHost' \in {inHost, inHost \cup {s}, inHost \ {s}}

LEMMA OneSessionMoves ==
    ASSUME TakeoverTyped, NEW s \in Takeovers, TakeoverStep(s)
    PROVE  OnlySession(s) /\ TakeoverTyped'
<1>1. ASSUME Open(s) PROVE OnlySession(s) /\ TakeoverTyped'
  BY <1>1 DEF Open, OnlySession, TakeoverTyped
<1>2. ASSUME OpenRefused(s) PROVE OnlySession(s) /\ TakeoverTyped'
  BY <1>2 DEF OpenRefused, OnlySession, TakeoverTyped
<1>3. ASSUME Abandon(s) PROVE OnlySession(s) /\ TakeoverTyped'
  BY <1>3 DEF Abandon, OnlySession, TakeoverTyped
<1>4. ASSUME SendWait(s) PROVE OnlySession(s) /\ TakeoverTyped'
  BY <1>4 DEF SendWait, OnlySession, TakeoverTyped
<1>5. ASSUME NEW own \in BOOLEAN, Continue(s, own) PROVE OnlySession(s) /\ TakeoverTyped'
  <2>1. CASE own
    BY <1>5, <2>1 DEF Continue, OnlySession, TakeoverTyped
  <2>2. CASE ~own
    BY <1>5, <2>2 DEF Continue, OnlySession, TakeoverTyped
  <2> QED
    BY <2>1, <2>2
<1>6. ASSUME OfferFails(s) PROVE OnlySession(s) /\ TakeoverTyped'
  BY <1>6 DEF OfferFails, OnlySession, TakeoverTyped
<1>7. ASSUME Offer(s) PROVE OnlySession(s) /\ TakeoverTyped'
  BY <1>7 DEF Offer, OnlySession, TakeoverTyped
<1>8. ASSUME Completed(s) PROVE OnlySession(s) /\ TakeoverTyped'
  BY <1>8 DEF Completed, OnlySession, TakeoverTyped
<1>9. ASSUME LeaveContinue(s) PROVE OnlySession(s) /\ TakeoverTyped'
  <2> DEFINE h == IF handler[s] = "continuing" THEN "running" ELSE handler[s]
  <2>1. handler' = [handler EXCEPT ![s] = h] /\ h \in {"none", "running", "handled", "finishing", "ended"}
    BY <1>9 DEF LeaveContinue, TakeoverTyped
  <2> HIDE DEF h
  <2>2. OnlySession(s)
    <3>1. handler'[s] = h
      BY <2>1 DEF TakeoverTyped
    <3>2. handler' = [handler EXCEPT ![s] = handler'[s]]
      BY <2>1, <3>1
    <3> QED
      BY <1>9, <3>2 DEF LeaveContinue, OnlySession, TakeoverTyped
  <2>3. TakeoverTyped'
    BY <1>9, <2>1 DEF LeaveContinue, TakeoverTyped
  <2> QED
    BY <2>2, <2>3
<1>10. ASSUME HandlerReturns(s) PROVE OnlySession(s) /\ TakeoverTyped'
  BY <1>10 DEF HandlerReturns, OnlySession, TakeoverTyped, FlowAfterReturn
<1>11. ASSUME SayHandled(s) PROVE OnlySession(s) /\ TakeoverTyped'
  BY <1>11 DEF SayHandled, OnlySession, TakeoverTyped
<1>12. ASSUME FinishHandler(s) PROVE OnlySession(s) /\ TakeoverTyped'
  BY <1>12 DEF FinishHandler, OnlySession, TakeoverTyped
<1>13. ASSUME WaitAction(s) PROVE OnlySession(s) /\ TakeoverTyped'
  BY <1>13 DEF WaitAction, OnlySession, TakeoverTyped
<1>14. ASSUME WaitDone(s) PROVE OnlySession(s) /\ TakeoverTyped'
  BY <1>14 DEF WaitDone, OnlySession, TakeoverTyped
<1>15. ASSUME CompleteArrives(s) PROVE OnlySession(s) /\ TakeoverTyped'
  BY <1>15 DEF CompleteArrives, OnlySession, TakeoverTyped
<1>16. ASSUME CompleteDone(s) PROVE OnlySession(s) /\ TakeoverTyped'
  BY <1>16 DEF CompleteDone, OnlySession, TakeoverTyped
<1>17. ASSUME AnswerHandled(s) PROVE OnlySession(s) /\ TakeoverTyped'
  BY <1>17 DEF AnswerHandled, OnlySession, TakeoverTyped
<1>18. ASSUME AnswerContinue(s) PROVE OnlySession(s) /\ TakeoverTyped'
  BY <1>18 DEF AnswerContinue, OnlySession, TakeoverTyped
<1>19. ASSUME SendComplete(s) PROVE OnlySession(s) /\ TakeoverTyped'
  BY <1>19 DEF SendComplete, OnlySession, TakeoverTyped
<1>20. ASSUME TakeoverReturns(s) PROVE OnlySession(s) /\ TakeoverTyped'
  BY <1>20 DEF TakeoverReturns, OnlySession, TakeoverTyped
<1>21. ASSUME RelayDone(s) PROVE OnlySession(s) /\ TakeoverTyped'
  BY <1>21 DEF RelayDone, OnlySession, TakeoverTyped
<1> QED
  BY <1>1, <1>2, <1>3, <1>4, <1>5, <1>6, <1>7, <1>8, <1>9, <1>10, <1>11, <1>12, <1>13, <1>14, <1>15,
     <1>16, <1>17, <1>18, <1>19, <1>20, <1>21 DEF TakeoverStep

\* A session whose parts are as they were keeps its shape.
LEMMA SessionElsewhere ==
    ASSUME TakeoverTyped, NEW s \in Takeovers, OnlySession(s), NEW t \in Takeovers, t # s, SessionShape(t)
    PROVE  SessionShape(t)'
<1>1. /\ caller'[t] = caller[t] /\ handler'[t] = handler[t] /\ flow'[t] = flow[t] /\ cont'[t] = cont[t]
      /\ action'[t] = action[t] /\ complete'[t] = complete[t] /\ done'[t] = done[t]
      /\ waiter'[t] = waiter[t] /\ completer'[t] = completer[t] /\ (t \in inHost' <=> t \in inHost)
  BY DEF OnlySession, TakeoverTyped
<1> QED
  BY <1>1 DEF SessionShape, FlowShape, ActionShape, ActionSent, ActionTaken, CompletionShape,
     CallerShape, MapShape

\* What each step makes of its own session: the parties stay in step.
LEMMA SessionStepKeeps ==
    ASSUME TakeoverTyped, NEW s \in Takeovers, SessionShape(s), TakeoverStep(s)
    PROVE  SessionShape(s)'
<1> USE DEF SessionShape, FlowShape, ActionShape, ActionSent, ActionTaken, CompletionShape, CallerShape, MapShape
<1>1. ASSUME Open(s) PROVE SessionShape(s)'
  <2>1. /\ caller[s] = "idle" /\ caller'[s] = "opened" /\ handler'[s] = "running" /\ s \in inHost'
        /\ UNCHANGED <<flow, cont, action, complete, done, waiter, completer>>
    BY <1>1 DEF Open, TakeoverTyped
  <2> QED
    BY <2>1 DEF TakeoverTyped
<1>2. ASSUME OpenRefused(s) PROVE SessionShape(s)'
  BY <1>2 DEF OpenRefused, TakeoverTyped
<1>3. ASSUME Abandon(s) PROVE SessionShape(s)'
  BY <1>3 DEF Abandon, TakeoverTyped
<1>4. ASSUME SendWait(s) PROVE SessionShape(s)'
  BY <1>4 DEF SendWait, TakeoverTyped
<1>5. ASSUME NEW own \in BOOLEAN, Continue(s, own) PROVE SessionShape(s)'
  <2>1. /\ handler[s] = "running" /\ handler'[s] \in {"running", "continuing"}
        /\ flow[s] = "available" /\ flow'[s] = "running" /\ cont'[s] = "entered"
        /\ UNCHANGED <<caller, inHost, action, complete, done, waiter, completer>>
    BY <1>5 DEF Continue, TakeoverTyped
  <2> QED
    BY <2>1 DEF TakeoverTyped
<1>6. ASSUME OfferFails(s) PROVE SessionShape(s)'
  BY <1>6 DEF OfferFails, TakeoverTyped
<1>7. ASSUME Offer(s) PROVE SessionShape(s)'
  BY <1>7 DEF Offer, TakeoverTyped
<1>8. ASSUME Completed(s) PROVE SessionShape(s)'
  BY <1>8 DEF Completed, TakeoverTyped
<1>9. ASSUME LeaveContinue(s) PROVE SessionShape(s)'
  BY <1>9 DEF LeaveContinue, TakeoverTyped
<1>10. ASSUME HandlerReturns(s) PROVE SessionShape(s)'
  BY <1>10 DEF HandlerReturns, TakeoverTyped, FlowAfterReturn, FlowWasUsed
<1>11. ASSUME SayHandled(s) PROVE SessionShape(s)'
  BY <1>11 DEF SayHandled, TakeoverTyped
<1>12. ASSUME FinishHandler(s) PROVE SessionShape(s)'
  BY <1>12 DEF FinishHandler, TakeoverTyped
<1>13. ASSUME WaitAction(s) PROVE SessionShape(s)'
  BY <1>13 DEF WaitAction, TakeoverTyped
<1>14. ASSUME WaitDone(s) PROVE SessionShape(s)'
  BY <1>14 DEF WaitDone, TakeoverTyped
<1>15. ASSUME CompleteArrives(s) PROVE SessionShape(s)'
  BY <1>15 DEF CompleteArrives, TakeoverTyped
<1>16. ASSUME CompleteDone(s) PROVE SessionShape(s)'
  BY <1>16 DEF CompleteDone, TakeoverTyped
<1>17. ASSUME AnswerHandled(s) PROVE SessionShape(s)'
  BY <1>17 DEF AnswerHandled, TakeoverTyped
<1>18. ASSUME AnswerContinue(s) PROVE SessionShape(s)'
  BY <1>18 DEF AnswerContinue, TakeoverTyped
<1>19. ASSUME SendComplete(s) PROVE SessionShape(s)'
  BY <1>19 DEF SendComplete, TakeoverTyped
<1>20. ASSUME TakeoverReturns(s) PROVE SessionShape(s)'
  BY <1>20 DEF TakeoverReturns, TakeoverTyped
<1>21. ASSUME RelayDone(s) PROVE SessionShape(s)'
  BY <1>21 DEF RelayDone, TakeoverTyped
<1> QED
  BY <1>1, <1>2, <1>3, <1>4, <1>5, <1>6, <1>7, <1>8, <1>9, <1>10, <1>11, <1>12, <1>13, <1>14, <1>15,
     <1>16, <1>17, <1>18, <1>19, <1>20, <1>21 DEF TakeoverStep

LEMMA LeftIsNumber ==
    ASSUME NEW s \in Takeovers
    PROVE  /\ CallerLeft(s) \in Nat /\ HandlerLeft(s) \in Nat /\ ContinuationLeft(s) \in Nat
           /\ WaiterLeft(s) \in Nat /\ CompleterLeft(s) \in Nat
           /\ CallerLeft(s)' \in Nat /\ HandlerLeft(s)' \in Nat /\ ContinuationLeft(s)' \in Nat
           /\ WaiterLeft(s)' \in Nat /\ CompleterLeft(s)' \in Nat
BY DEF CallerLeft, HandlerLeft, ContinuationLeft, WaiterLeft, CompleterLeft

\* Every step of an open session lowers what one of the parties has left and
\* raises nobody's.
LEMMA SessionStepDescends ==
    ASSUME TakeoverTyped, NEW s \in Takeovers, SessionShape(s), TakeoverStep(s), caller[s] # "idle"
    PROVE  SessionLeft(s)' < SessionLeft(s)
<1>0. ASSUME CallerLeft(s)' <= CallerLeft(s), HandlerLeft(s)' <= HandlerLeft(s),
             ContinuationLeft(s)' <= ContinuationLeft(s), WaiterLeft(s)' <= WaiterLeft(s),
             CompleterLeft(s)' <= CompleterLeft(s),
             \/ CallerLeft(s)' < CallerLeft(s) \/ HandlerLeft(s)' < HandlerLeft(s)
             \/ ContinuationLeft(s)' < ContinuationLeft(s) \/ WaiterLeft(s)' < WaiterLeft(s)
             \/ CompleterLeft(s)' < CompleterLeft(s)
      PROVE  SessionLeft(s)' < SessionLeft(s)
  <2>1. /\ CallerLeft(s) \in Nat /\ HandlerLeft(s) \in Nat /\ ContinuationLeft(s) \in Nat
        /\ WaiterLeft(s) \in Nat /\ CompleterLeft(s) \in Nat
        /\ CallerLeft(s)' \in Nat /\ HandlerLeft(s)' \in Nat /\ ContinuationLeft(s)' \in Nat
        /\ WaiterLeft(s)' \in Nat /\ CompleterLeft(s)' \in Nat
    BY LeftIsNumber
  <2> QED
    BY <1>0, <2>1 DEF SessionLeft
<1> USE DEF CallerLeft, HandlerLeft, ContinuationLeft, WaiterLeft, CompleterLeft, TakeoverTyped
<1>1. ASSUME Open(s) PROVE SessionLeft(s)' < SessionLeft(s)
  BY <1>0, <1>1 DEF Open
<1>2. ASSUME OpenRefused(s) PROVE SessionLeft(s)' < SessionLeft(s)
  BY <1>0, <1>2 DEF OpenRefused
<1>3. ASSUME Abandon(s) PROVE SessionLeft(s)' < SessionLeft(s)
  BY <1>0, <1>3 DEF Abandon, SessionShape, CallerShape, FlowShape
<1>4. ASSUME SendWait(s) PROVE SessionLeft(s)' < SessionLeft(s)
  BY <1>0, <1>4 DEF SendWait, SessionShape, CallerShape, FlowShape
<1>5. ASSUME NEW own \in BOOLEAN, Continue(s, own) PROVE SessionLeft(s)' < SessionLeft(s)
  BY <1>0, <1>5 DEF Continue, SessionShape, CallerShape, FlowShape
<1>6. ASSUME OfferFails(s) PROVE SessionLeft(s)' < SessionLeft(s)
  BY <1>0, <1>6 DEF OfferFails
<1>7. ASSUME Offer(s) PROVE SessionLeft(s)' < SessionLeft(s)
  BY <1>0, <1>7 DEF Offer
<1>8. ASSUME Completed(s) PROVE SessionLeft(s)' < SessionLeft(s)
  BY <1>0, <1>8 DEF Completed
<1>9. ASSUME LeaveContinue(s) PROVE SessionLeft(s)' < SessionLeft(s)
  BY <1>0, <1>9 DEF LeaveContinue
<1>10. ASSUME HandlerReturns(s) PROVE SessionLeft(s)' < SessionLeft(s)
  BY <1>0, <1>10 DEF HandlerReturns
<1>11. ASSUME SayHandled(s) PROVE SessionLeft(s)' < SessionLeft(s)
  BY <1>0, <1>11 DEF SayHandled
<1>12. ASSUME FinishHandler(s) PROVE SessionLeft(s)' < SessionLeft(s)
  BY <1>0, <1>12 DEF FinishHandler
<1>13. ASSUME WaitAction(s) PROVE SessionLeft(s)' < SessionLeft(s)
  BY <1>0, <1>13 DEF WaitAction
<1>14. ASSUME WaitDone(s) PROVE SessionLeft(s)' < SessionLeft(s)
  BY <1>0, <1>14 DEF WaitDone
<1>15. ASSUME CompleteArrives(s) PROVE SessionLeft(s)' < SessionLeft(s)
  BY <1>0, <1>15 DEF CompleteArrives
<1>16. ASSUME CompleteDone(s) PROVE SessionLeft(s)' < SessionLeft(s)
  BY <1>0, <1>16 DEF CompleteDone
<1>17. ASSUME AnswerHandled(s) PROVE SessionLeft(s)' < SessionLeft(s)
  BY <1>0, <1>17 DEF AnswerHandled
<1>18. ASSUME AnswerContinue(s) PROVE SessionLeft(s)' < SessionLeft(s)
  BY <1>0, <1>18 DEF AnswerContinue
<1>19. ASSUME SendComplete(s) PROVE SessionLeft(s)' < SessionLeft(s)
  BY <1>0, <1>19 DEF SendComplete, SessionShape, CallerShape, FlowShape
<1>20. ASSUME TakeoverReturns(s) PROVE SessionLeft(s)' < SessionLeft(s)
  BY <1>0, <1>20 DEF TakeoverReturns
<1>21. ASSUME RelayDone(s) PROVE SessionLeft(s)' < SessionLeft(s)
  BY <1>0, <1>21 DEF RelayDone
<1> QED
  BY <1>1, <1>2, <1>3, <1>4, <1>5, <1>6, <1>7, <1>8, <1>9, <1>10, <1>11, <1>12, <1>13, <1>14, <1>15,
     <1>16, <1>17, <1>18, <1>19, <1>20, <1>21 DEF TakeoverStep

\* The invariant, over all sessions.
LEMMA TakeoverInductive ==
    /\ TakeoverInit => TakeoverInv
    /\ TakeoverInv /\ [TakeoverNext]_takeoverVars => TakeoverInv'
<1> USE DEF TakeoverInv
<1>1. ASSUME TakeoverInit PROVE TakeoverInv
  <2>1. TakeoverTyped
    BY <1>1 DEF TakeoverInit, Init0, TakeoverTyped
  <2>2. ASSUME NEW s \in Takeovers PROVE SessionShape(s)
    BY <1>1 DEF TakeoverInit, Init0, SessionShape, FlowShape, ActionShape, ActionSent, ActionTaken,
                CompletionShape, CallerShape, MapShape
  <2> QED
    BY <2>1, <2>2
<1>2. ASSUME TakeoverInv, NEW s \in Takeovers, TakeoverStep(s) PROVE TakeoverInv'
  <2>1. OnlySession(s) /\ TakeoverTyped'
    BY <1>2, OneSessionMoves
  <2>2. ASSUME NEW t \in Takeovers, t # s PROVE SessionShape(t)'
    BY <1>2, <2>1, <2>2, SessionElsewhere
  <2>3. SessionShape(s)'
    BY <1>2, SessionStepKeeps
  <2> QED
    BY <2>1, <2>2, <2>3
<1>3. ASSUME TakeoverInv, InitPlugin \/ HostDrain \/ DestroyPlugin \/ UNCHANGED takeoverVars PROVE TakeoverInv'
  <2>1. UNCHANGED <<caller, inHost, handler, flow, cont, action, complete, done, waiter, completer>>
    BY <1>3 DEF InitPlugin, HostDrain, DestroyPlugin, takeoverVars
  <2>2. TakeoverTyped'
    BY <1>3, <2>1 DEF TakeoverTyped
  <2>3. ASSUME NEW s \in Takeovers PROVE SessionShape(s)'
    <3>1. SessionShape(s)
      BY <1>3
    <3> QED
      BY <2>1, <3>1 DEF SessionShape, FlowShape, ActionShape, ActionSent, ActionTaken,
                        CompletionShape, CallerShape, MapShape
  <2> QED
    BY <2>2, <2>3
<1> QED
  BY <1>1, <1>2, <1>3 DEF TakeoverNext

\* No takeover hangs between gateway and host, for any number of overlapping sessions,
\* unless the gateway gave it up: as long as its handler, its continuation or its entry in
\* the host's map are left, one of the goroutines that serve it has a step to take
\* (pluginHostTakeoverFlow, the session's channels, takeover_wait, takeover_complete).
THEOREM TakeoversNotStuck == TakeoverSpec => []TakeoverNotStuck
<1>1. ASSUME TakeoverInv PROVE TakeoverNotStuck
  <2> SUFFICES ASSUME NEW s \in Takeovers, handler[s] # "none", caller[s] # "abandoned", ~Settled(s),
                      ~SomebodyMoves(s)
               PROVE  FALSE
    BY DEF TakeoverNotStuck
  <2>0. SessionShape(s)
    BY <1>1 DEF TakeoverInv
  <2> USE DEF SessionShape, TakeoverTyped, TakeoverInv
  <2>1. caller[s] \in {"waiting", "returned"} /\ (caller[s] = "waiting" => waiter[s] \in {"action", "done"})
    BY <1>1, <2>0 DEF CallerShape, SomebodyMoves
  <2>2. cont[s] \in {"none", "offered", "ended"}
    <3>1. cont[s] # "relaying"
      BY <1>1, <2>0, <2>1 DEF CompletionShape, CallerShape, SomebodyMoves
    <3> QED
      BY <1>1, <2>0, <3>1 DEF FlowShape, ActionShape, ActionSent, ActionTaken, CompletionShape, SomebodyMoves
  <2>3. cont[s] # "offered"
    <3> SUFFICES ASSUME cont[s] = "offered" PROVE FALSE
      OBVIOUS
    <3>1. waiter[s] = "answeredContinue"
      BY <2>0, <2>1 DEF ActionShape, ActionTaken, CompletionShape, CallerShape, SomebodyMoves
    <3>2. completer[s] = "sent"
      BY <1>1, <2>0, <2>1, <3>1 DEF CompletionShape, CallerShape, SomebodyMoves
    <3> QED
      BY <1>1, <2>0, <3>1, <3>2 DEF CompletionShape, MapShape, SomebodyMoves
  <2>4. handler[s] = "ended"
    BY <1>1, <2>0, <2>2, <2>3 DEF FlowShape, ActionShape, ActionSent, ActionTaken, MapShape,
       SomebodyMoves
  <2>5. s \in inHost /\ done[s] = "full"
    BY <2>0, <2>2, <2>3, <2>4 DEF Settled, MapShape
  <2>6. ActionSent(s)
    BY <1>1, <2>0, <2>2, <2>3, <2>4 DEF FlowShape, ActionSent
  <2> QED
    BY <1>1, <2>0, <2>1, <2>3, <2>4, <2>5, <2>6
       DEF ActionShape, ActionTaken, CompletionShape, CallerShape, MapShape, SomebodyMoves
<1> QED
  BY <1>1, TakeoverInductive, PTL DEF TakeoverSpec

\* Every step of a takeover uses it up, whatever the other sessions and the control server
\* do: no exchange between gateway and host can go in circles (one action, one completion,
\* one end for each session).
THEOREM TakeoversRunOut == TakeoverSpec => SessionsRunOut
<1>1. ASSUME TakeoverInv, [TakeoverNext]_takeoverVars, NEW s \in Takeovers, caller[s] # "idle"
      PROVE  /\ SessionLeft(s)' <= SessionLeft(s)
             /\ TakeoverStep(s) => SessionLeft(s)' < SessionLeft(s)
  <2>0. TakeoverTyped /\ SessionShape(s) /\ SessionLeft(s) \in Nat /\ SessionLeft(s)' \in Nat
    BY <1>1, LeftIsNumber DEF TakeoverInv, SessionLeft
  <2>1. CASE TakeoverStep(s)
    <3>1. SessionLeft(s)' < SessionLeft(s)
      BY <1>1, <2>0, <2>1, SessionStepDescends
    <3> QED
      BY <2>0, <3>1
  <2>2. CASE ~TakeoverStep(s)
    <3>1. /\ caller'[s] = caller[s] /\ handler'[s] = handler[s] /\ cont'[s] = cont[s]
          /\ waiter'[s] = waiter[s] /\ completer'[s] = completer[s]
      <4>1. ASSUME NEW t \in Takeovers, TakeoverStep(t)
            PROVE  /\ caller'[s] = caller[s] /\ handler'[s] = handler[s] /\ cont'[s] = cont[s]
                   /\ waiter'[s] = waiter[s] /\ completer'[s] = completer[s]
        <5>1. t # s /\ OnlySession(t)
          BY <2>0, <2>2, <4>1, OneSessionMoves
        <5> QED
          BY <2>0, <5>1 DEF OnlySession, TakeoverTyped
      <4>2. ASSUME InitPlugin \/ HostDrain \/ DestroyPlugin \/ UNCHANGED takeoverVars
            PROVE  UNCHANGED <<caller, handler, cont, waiter, completer>>
        BY <4>2 DEF InitPlugin, HostDrain, DestroyPlugin, takeoverVars
      <4> QED
        BY <1>1, <4>1, <4>2 DEF TakeoverNext
    <3>2. SessionLeft(s)' = SessionLeft(s)
      BY <3>1 DEF SessionLeft, CallerLeft, HandlerLeft, ContinuationLeft, WaiterLeft, CompleterLeft
    <3> QED
      BY <2>0, <2>2, <3>2
  <2> QED
    BY <2>1, <2>2
<1>2. TakeoverInv /\ [TakeoverNext]_takeoverVars =>
        [\A s \in Takeovers : caller[s] # "idle" =>
            /\ SessionLeft(s)' <= SessionLeft(s)
            /\ TakeoverStep(s) => SessionLeft(s)' < SessionLeft(s)]_takeoverVars
  BY <1>1
<1> QED
  BY <1>2, TakeoverInductive, PTL DEF TakeoverSpec, SessionsRunOut
=============================================================================
