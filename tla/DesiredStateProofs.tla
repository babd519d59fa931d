-------------------------- MODULE DesiredStateProofs --------------------------
(***************************************************************************)
(* Proofs about DesiredState, for any set of artifacts, configurations,     *)
(* nodes and concurrent requests: the row and its snapshots implement the   *)
(* register, "enabled" names the artifact its generation asked for, and     *)
(* what is published is never lost from memory.                             *)
(***************************************************************************)
EXTENDS DesiredState, SequenceTheorems, TLAPS

\* What a request keeps of a row, and a request that is not idle.
Reads == [art : Artifacts, gen : Nat, applied : Nat]
Ops == {"set", "rollback", "secret", "enable", "reconcile", "load", "disable", "delete",
        "advisory", "crash"}
Points == {"upsert", "readback", "record", "reload", "reloaded", "reread", "gate", "load", "mark",
           "settle", "publish", "sweep", "remove", "list", "quarantine", "isolate", "isolated"}
Nexts == {"done", "reload", "mark", "settle", "publish", "sweep"}
Frames == [op : Ops, node : Nodes, pc : Points, next : Nexts,
           rec : Reads \cup {NoRuntime}, want : Wishes \cup {NoRuntime},
           old : Runtimes \cup {NoRuntime}]

\* The table: a generation for every snapshot and one for the row.
TableOK ==
    /\ row \in Rows
    /\ snapshots \in Seq(Wishes)
    /\ row.gen = Len(snapshots) + 1

\* The artifact that each generation so far asked for.
AskedArt == [g \in 1..row.gen |-> Asked(g).art]

\* Names the artifact that its generation asked for.
Genuine(x) == x.gen \in DOMAIN AskedArt /\ x.art = AskedArt[x.gen]

\* Memory holds runtimes that were started from a generation the row had.
MemoryOK ==
    /\ loaded \in [Nodes -> Runtimes \cup {NoRuntime}]
    /\ published \in [Nodes -> Runtimes \cup {NoRuntime}]
    /\ displaced \in [Nodes -> SUBSET Runtimes]
    /\ orphan \in [Nodes -> BOOLEAN]
    /\ mu \in [Nodes -> Requests \cup {NoRequest}]
    /\ \A n \in Nodes : loaded[n] # NoRuntime => Genuine(loaded[n])
    /\ \A n \in Nodes : \A rt \in displaced[n] : Genuine(rt)

\* The request is at a point of S, or goes there when it has reported.
Leads(q, S) == q.pc \in S \/ (q.pc = "record" /\ q.next \in S)

\* Its load has replaced a runtime, or started one that Enable may take back.
Took(q) == q.old # NoRuntime \/ q.next = "mark"

\* What a request that is not idle knows where it stands.
Knows(q) ==
    /\ q.pc = "upsert" \/ (q.op = "delete" /\ q.pc = "remove") => q.want \in Wishes
    /\ q.pc \notin {"upsert", "readback"} => q.rec \in Reads
    /\ q.pc \in {"upsert", "readback", "remove"} => q.next \in {"done", "reload"}
    /\ q.op \in {"advisory", "crash"} => Leads(q, {"list", "quarantine", "isolate", "isolated", "done"})
    /\ q.op \notin {"advisory", "crash"} /\ q.pc \notin {"upsert", "readback"} => Genuine(q.rec)
    /\ q.old # NoRuntime => Genuine(q.old)
    /\ q.pc = "mark" /\ q.old # NoRuntime => q.next = "mark"
    /\ Took(q) => Leads(q, {"mark", "settle", "publish", "sweep"})

\* When it has m.mu, and a runtime to mark.
Locks(r, q) ==
    /\ \/ Leads(q, {"mark", "settle", "publish", "sweep"})
       \/ q.pc \in {"reloaded", "remove"} \/ q.op \in {"reconcile", "disable", "delete"}
       => Holds(r, q.node)
    /\ Leads(q, {"mark"}) \/ q.pc = "reloaded" => loaded[q.node] # NoRuntime

RequestOK(r) ==
    req[r] # Idle => req[r] \in Frames /\ Knows(req[r]) /\ Locks(r, req[r])

RequestsOK ==
    /\ req \in [Requests -> Frames \cup {Idle}]
    /\ \A r \in Requests : RequestOK(r)

\* The request under m.mu of node n whose load took something's place.
Replacing(r, n) == mu[n] = r /\ req[r] # Idle /\ req[r].node = n /\ Took(req[r])

\* What is published is displaced, or still being replaced, or loaded, unless
\* loadLocked forgot it.
HeldOK(n) ==
    published[n] # NoRuntime /\ ~orphan[n] =>
        /\ \A rt \in displaced[n] : IsPublished(n, rt)
        /\ displaced[n] = {} =>
            /\ \A r \in Requests : Replacing(r, n) => IsPublished(n, req[r].old)
            /\ (\A r \in Requests : ~Replacing(r, n)) => IsPublished(n, loaded[n])

LifecycleInv ==
    /\ TableOK /\ MemoryOK /\ RequestsOK
    /\ EnabledNamesItsArtifact
    /\ \A n \in Nodes : HeldOK(n)

-----------------------------------------------------------------------------
(* What a step leaves alone.                                                *)

\* Only request r moves.
OnlyOf(r) == req' = [req EXCEPT ![r] = req'[r]]

\* No other request gains or loses m.mu, or sees a loaded runtime change
\* under it.
Others(r) ==
    \A q \in Requests \ {r}, n \in Nodes :
        /\ mu'[n] = q <=> mu[n] = q
        /\ mu[n] = q => loaded'[n] = loaded[n]

\* No generation changes what it asked for.
TableKept ==
    \A g \in DOMAIN AskedArt : g \in DOMAIN AskedArt' /\ AskedArt'[g] = AskedArt[g]

RegisterStep == [Register!RegisterNext]_(Register!registerVars)

\* What every statement on the tables is shown to do.
TableStep == TableOK' /\ TableKept /\ EnabledNamesItsArtifact' /\ RegisterStep

-----------------------------------------------------------------------------
(* The tables.                                                              *)

\* A request that is not idle is not taken for an idle one.
LEMMA FrameNotIdle == \A q \in Frames : q # Idle
BY DEF Frames, Idle, Ops

\* A row and its snapshots in terms of AskedArt.
LEMMA AskedArtValue ==
  ASSUME TableOK
  PROVE  /\ DOMAIN AskedArt = 1..row.gen /\ row.gen \in 1..row.gen
         /\ AskedArt[row.gen] = row.art
         /\ \A g \in 1..Len(snapshots) : AskedArt[g] = snapshots[g].art
<1>1. /\ row.gen \in Nat /\ Len(snapshots) \in Nat /\ DOMAIN snapshots = 1..Len(snapshots)
      /\ row.gen = Len(snapshots) + 1
  BY DEF TableOK, Rows
<1> QED
  BY <1>1 DEF AskedArt, Asked, Wish

\* A step that writes neither the row nor a snapshot.
LEMMA TableSame ==
  ASSUME TableOK, EnabledNamesItsArtifact, UNCHANGED <<row, snapshots>>
  PROVE  TableStep
<1>1. TableOK' /\ AskedArt' = AskedArt /\ EnabledNamesItsArtifact'
  BY DEF TableOK, AskedArt, Asked, Wish, EnabledNamesItsArtifact
<1>2. RegisterStep
  BY DEF RegisterStep, Register!registerVars, Wish
<1> QED
  BY <1>1, <1>2 DEF TableStep, TableKept

\* MarkRuntime and its guarded form, with any other word than "enabled":
\* the claim is withdrawn.
LEMMA TableMarked ==
  ASSUME TableOK, EnabledNamesItsArtifact, NEW state \in RuntimeStates \ {"enabled"},
         NEW active \in Artifacts \cup {NoArtifact}, NEW applied \in Nat,
         row' = Marked(state, active, applied) \/ row' = row, UNCHANGED snapshots
  PROVE  TableStep
<1>1. CASE row' = row
  BY <1>1, TableSame
<1>2. CASE row' = Marked(state, active, applied)
  <2>1. /\ row' \in Rows /\ row'.gen = row.gen /\ row'.art = row.art
        /\ row'.state = row.state /\ row'.cfg = row.cfg /\ row'.runtime = state
    BY <1>2 DEF TableOK, Rows, Marked
  <2>2. TableOK' /\ EnabledNamesItsArtifact'
    BY <2>1 DEF TableOK, EnabledNamesItsArtifact
  <2>3. AskedArt' = AskedArt
    BY <2>1 DEF AskedArt, Asked, Wish
  <2>4. Register!Withdraw
    BY <2>1 DEF Register!Withdraw, Register!NoClaim, Wish
  <2> QED
    BY <2>2, <2>3, <2>4 DEF TableStep, TableKept, RegisterStep, Register!RegisterNext
<1> QED
  BY <1>1, <1>2

\* The guarded "enabled": the claim is about the generation that is current.
LEMMA TableEnabled ==
  ASSUME TableOK, EnabledNamesItsArtifact, NEW rt \in Runtimes, Genuine(rt),
         MarkRuntimeIfDesiredGeneration(rt.gen, "enabled", rt.art, rt.gen), UNCHANGED snapshots
  PROVE  TableStep
<1>1. CASE row.gen # rt.gen
  BY <1>1, TableSame DEF MarkRuntimeIfDesiredGeneration, SameGeneration
<1>2. CASE row.gen = rt.gen
  <2>0. rt.art = row.art /\ row.gen \in 1..row.gen
    BY <1>2, AskedArtValue DEF Genuine
  <2>1. /\ row' \in Rows /\ row'.gen = row.gen /\ row'.art = row.art
        /\ row'.state = row.state /\ row'.cfg = row.cfg /\ row'.runtime = "enabled"
        /\ row'.applied = row.gen /\ row'.active = row.art
    BY <1>2, <2>0
    DEF TableOK, Rows, Marked, RuntimeStates, Runtimes, MarkRuntimeIfDesiredGeneration, SameGeneration
  <2>2. TableOK'
    BY <2>1 DEF TableOK
  <2>3. AskedArt' = AskedArt
    BY <2>1 DEF AskedArt, Asked, Wish
  <2>4. row.gen \notin DOMAIN snapshots /\ row.gen = Len(snapshots) + 1
    BY DEF TableOK, Rows
  <2>5. EnabledNamesItsArtifact'
    BY <2>0, <2>1, <2>4 DEF EnabledNamesItsArtifact, Asked, Wish
  <2>6. Register!Claim
    BY <2>1, <2>4 DEF Register!Claim, Wish
  <2> QED
    BY <2>2, <2>3, <2>5, <2>6 DEF TableStep, TableKept, RegisterStep, Register!RegisterNext
<1> QED
  BY <1>1, <1>2

\* UpsertDesired: the next generation; the old one keeps what it asked for in
\* its snapshot.
LEMMA TableUpsert ==
  ASSUME TableOK, EnabledNamesItsArtifact, NEW want \in Wishes, UpsertDesired(want)
  PROVE  TableStep
<1> DEFINE g0 == row.gen
<1>1. /\ row' \in Rows /\ row'.gen = g0 + 1 /\ Wish(row') = want
      /\ row'.runtime = row.runtime /\ row'.applied = row.applied /\ row'.active = row.active
  <2>0. row' = [art |-> want.art, state |-> want.state, cfg |-> want.cfg, gen |-> g0 + 1,
                runtime |-> row.runtime, active |-> row.active, applied |-> row.applied]
    BY DEF TableOK, Rows, UpsertDesired
  <2>1. /\ row' \in Rows /\ row'.gen = g0 + 1
        /\ row'.runtime = row.runtime /\ row'.applied = row.applied /\ row'.active = row.active
        /\ row'.art = want.art /\ row'.state = want.state /\ row'.cfg = want.cfg
    BY <2>0 DEF TableOK, Rows, Wishes
  <2>2. want = [art |-> want.art, state |-> want.state, cfg |-> want.cfg]
    BY DEF Wishes
  <2> QED
    BY <2>1, <2>2 DEF Wish
<1>2. Wish(row) \in Wishes
  BY DEF TableOK, Rows, Wishes, Wish
<1>3. /\ snapshots' \in Seq(Wishes) /\ Len(snapshots') = Len(snapshots) + 1
      /\ \A g \in 1..Len(snapshots) : snapshots'[g] = snapshots[g]
      /\ snapshots'[g0] = Wish(row) /\ DOMAIN snapshots' = 1..g0
      /\ DOMAIN snapshots = 1..Len(snapshots) /\ g0 = Len(snapshots) + 1 /\ g0 \in Nat
  BY <1>2 DEF TableOK, UpsertDesired, Rows
<1>4. TableOK'
  BY <1>1, <1>3 DEF TableOK
<1>5. \A g \in 1..g0 : g \in 1..row'.gen /\ Asked(g)' = Asked(g)
  BY <1>1, <1>3 DEF Asked
<1>6. TableKept
  BY <1>1, <1>3, <1>5 DEF TableKept, AskedArt
<1>7. EnabledNamesItsArtifact'
  BY <1>1, <1>3, <1>5 DEF EnabledNamesItsArtifact
<1>8. Register!Update
  BY <1>1, <1>3 DEF Register!Update, Register!Wishes, Wishes, States, UpsertDesired
<1> QED
  BY <1>4, <1>6, <1>7, <1>8 DEF TableStep, RegisterStep, Register!RegisterNext

-----------------------------------------------------------------------------
(* Memory and requests.                                                     *)

\* What named an artifact that was asked for does so for ever.
LEMMA GenuineKept ==
  ASSUME TableKept
  PROVE  \A x : Genuine(x) => Genuine(x)'
BY DEF TableKept, Genuine

\* The runtimes in memory stay genuine when memory is left alone.
LEMMA MemorySame ==
  ASSUME MemoryOK, TableKept, UNCHANGED memoryVars, mu' \in [Nodes -> Requests \cup {NoRequest}]
  PROVE  MemoryOK'
BY GenuineKept DEF MemoryOK, memoryVars

\* Requests that do not move keep what they know and what they lock.
LEMMA RequestsKept ==
  ASSUME RequestsOK, TableKept, NEW r \in Requests, OnlyOf(r), Others(r),
         req'[r] \in Frames \cup {Idle}, RequestOK(r)'
  PROVE  RequestsOK'
<1>1. req' \in [Requests -> Frames \cup {Idle}]
  BY DEF OnlyOf, RequestsOK
<1>2. ASSUME NEW q \in Requests, q # r
      PROVE  RequestOK(q)'
  <2> SUFFICES ASSUME req[q] # Idle
               PROVE  req[q] \in Frames /\ Knows(req[q])' /\ Locks(q, req[q])'
    BY <1>2, Zenon DEF OnlyOf, RequestOK, RequestsOK
  <2>1. req'[q] = req[q]
    BY <1>2 DEF OnlyOf, RequestsOK
  <2>2. req[q] \in Frames /\ Knows(req[q]) /\ Locks(q, req[q])
    BY <1>2 DEF RequestsOK, RequestOK
  <2>3. Knows(req[q])'
    BY <2>1, <2>2, GenuineKept DEF Knows, Leads, Took
  <2>4. req[q].node \in Nodes
    BY <2>2 DEF Frames
  <2>5. Locks(q, req[q])'
    BY <1>2, <2>1, <2>2, <2>4 DEF Locks, Leads, Others, Holds
  <2> QED
    BY <2>2, <2>3, <2>5
<1> QED
  BY <1>1, <1>2 DEF RequestsOK

\* A request that replaces nothing moves, and what it does to memory leaves
\* every loaded runtime with its handlers.
Quiet(q) == q # Idle => ~Took(q)
SameHandlers ==
    \A n \in Nodes :
        /\ loaded'[n] = NoRuntime <=> loaded[n] = NoRuntime
        /\ loaded'[n].born = loaded[n].born

LEMMA HeldQuiet ==
  ASSUME RequestsOK, \A n \in Nodes : HeldOK(n), NEW r \in Requests, OnlyOf(r), Others(r),
         Quiet(req[r]), Quiet(req'[r]), UNCHANGED <<published, displaced, orphan>>, SameHandlers
  PROVE  \A n \in Nodes : HeldOK(n)'
<1> SUFFICES ASSUME NEW n \in Nodes PROVE HeldOK(n)'
  OBVIOUS
<1>1. /\ \A q \in Requests : Replacing(q, n)' <=> Replacing(q, n)
      /\ \A q \in Requests : Replacing(q, n) => req'[q] = req[q]
  BY DEF OnlyOf, Others, Quiet, Replacing, Took, RequestsOK
<1>2. \A rt : IsPublished(n, rt)' <=> IsPublished(n, rt)
  BY DEF IsPublished
<1>3. IsPublished(n, loaded[n])' <=> IsPublished(n, loaded[n])
  BY DEF IsPublished, SameHandlers
<1> QED
  BY <1>1, <1>2, <1>3 DEF HeldOK

\* A request moves at node n, memory elsewhere is left alone.
LEMMA HeldElsewhere ==
  ASSUME RequestsOK, \A m \in Nodes : HeldOK(m), NEW r \in Requests, OnlyOf(r), Others(r),
         NEW n \in Nodes,
         req[r] # Idle => req[r].node = n, req'[r] # Idle => req'[r].node = n,
         \A m \in Nodes \ {n} :
            /\ published'[m] = published[m] /\ displaced'[m] = displaced[m]
            /\ loaded'[m] = loaded[m] /\ orphan'[m] = orphan[m],
         HeldOK(n)'
  PROVE  \A m \in Nodes : HeldOK(m)'
<1> SUFFICES ASSUME NEW m \in Nodes, m # n PROVE HeldOK(m)'
  OBVIOUS
<1>1. /\ \A q \in Requests : Replacing(q, m)' <=> Replacing(q, m)
      /\ \A q \in Requests : Replacing(q, m) => req'[q] = req[q]
  BY DEF OnlyOf, Others, Replacing, Took, RequestsOK
<1>2. \A rt : IsPublished(m, rt)' <=> IsPublished(m, rt)
  BY DEF IsPublished
<1>3. IsPublished(m, loaded[m])' <=> IsPublished(m, loaded[m])
  BY DEF IsPublished
<1> QED
  BY <1>1, <1>2, <1>3 DEF HeldOK

\* What every action is shown to do.
InvStep == LifecycleInv' /\ RegisterStep

\* A step of request r at node n takes or leaves m.mu of that node only, and
\* changes what is loaded there only when nobody else holds it.
LEMMA MuStep ==
  ASSUME MemoryOK, NEW r \in Requests, NEW n \in Nodes,
         \/ mu' = mu \/ mu' = Leave(r, n)
         \/ Enters(r, n) /\ mu' = [mu EXCEPT ![n] = r],
         \/ loaded' = loaded
         \/ Enters(r, n) /\ \A m \in Nodes \ {n} : loaded'[m] = loaded[m]
  PROVE  Others(r) /\ mu' \in [Nodes -> Requests \cup {NoRequest}]
BY LifecycleAssumption DEF MemoryOK, Leave, Enters, Free, Holds, Others

\* The parts of the invariant put together.
LEMMA Assemble ==
  ASSUME LifecycleInv, NEW r \in Requests, TableStep, MemoryOK', OnlyOf(r), Others(r),
         req'[r] \in Frames \cup {Idle}, RequestOK(r)', \A n \in Nodes : HeldOK(n)'
  PROVE  InvStep
<1>1. RequestsOK'
  BY RequestsKept DEF LifecycleInv, TableStep
<1> QED
  BY <1>1 DEF InvStep, LifecycleInv, TableStep

\* A request that replaces nothing moves and leaves memory alone.
LEMMA QuietStep ==
  ASSUME LifecycleInv, NEW r \in Requests, NEW n \in Nodes, TableStep, UNCHANGED memoryVars,
         \/ mu' = mu \/ mu' = Leave(r, n)
         \/ Enters(r, n) /\ mu' = [mu EXCEPT ![n] = r],
         OnlyOf(r), req'[r] \in Frames \cup {Idle}, RequestOK(r)',
         Quiet(req[r]), Quiet(req'[r])
  PROVE  InvStep
<1>1. Others(r) /\ MemoryOK'
  BY MuStep, MemorySame DEF LifecycleInv, TableStep, memoryVars
<1>2. SameHandlers
  BY DEF SameHandlers, memoryVars
<1>3. \A m \in Nodes : HeldOK(m)'
  BY <1>1, <1>2, HeldQuiet DEF LifecycleInv, memoryVars
<1> QED
  BY <1>1, <1>3, Assemble

-----------------------------------------------------------------------------
(* Requests that begin.                                                     *)

\* What a request reads of the row names the artifact asked for.
LEMMA ReadGenuine ==
  ASSUME TableOK
  PROVE  Read \in Reads /\ Genuine(Read) /\ Wish(row) \in Wishes
BY AskedArtValue DEF TableOK, Rows, Read, Reads, Genuine, Wish, Wishes

\* An idle goroutine takes up a request, with or without m.mu.
LEMMA BeginStep ==
  ASSUME LifecycleInv, NEW r \in Requests, NEW n \in Nodes, req[r] = Idle,
         NEW op \in Ops, NEW rec \in Reads \cup {NoRuntime}, NEW want \in Wishes \cup {NoRuntime},
         NEW p \in {"upsert", "reload", "gate", "load", "remove", "sweep", "list", "isolate"},
         req' = [req EXCEPT ![r] = New(op, n, p, rec, want)],
         p = "upsert" \/ op = "delete" => want \in Wishes,
         p # "upsert" => rec \in Reads,
         IF op \in {"advisory", "crash"} THEN p \in {"list", "isolate"}
         ELSE p # "upsert" => Genuine(rec),
         UNCHANGED <<row, snapshots, memoryVars>>,
         \/ /\ mu' = mu
            /\ op \notin {"reconcile", "disable", "delete"} /\ p \notin {"remove", "sweep"}
         \/ Free(n) /\ mu' = [mu EXCEPT ![n] = r]
  PROVE  InvStep
<1> DEFINE q == New(op, n, p, rec, want)
<1>0. /\ q \in Frames /\ q.op = op /\ q.pc = p /\ q.rec = rec /\ q.want = want
      /\ q.old = NoRuntime /\ q.node = n /\ q.next = "done"
  BY DEF New, Frames, Points, Nexts
<1>a. Knows(q) /\ ~Took(q)
  BY <1>0 DEF Knows, Leads, Took, Took
<1> HIDE DEF q
<1>b. req' = [req EXCEPT ![r] = q]
  BY DEF q
<1>1. TableStep
  BY TableSame DEF LifecycleInv
<1>2. req'[r] = q /\ OnlyOf(r)
  BY <1>b DEF OnlyOf, LifecycleInv, RequestsOK
<1>3. Knows(q)'
  BY <1>0, <1>a, <1>1, GenuineKept DEF TableStep, Knows, Leads, Took, q
<1>4. Locks(r, q)'
  BY <1>0 DEF Locks, Leads, Holds, LifecycleInv, MemoryOK
<1>5. RequestOK(r)'
  BY <1>0, <1>2, <1>3, <1>4 DEF RequestOK
<1>6. Quiet(req[r]) /\ Quiet(req'[r])
  BY <1>a, <1>2 DEF Quiet
<1> QED
  BY <1>0, <1>1, <1>2, <1>5, <1>6, QuietStep DEF Enters

\* Every request that an administrator, a node or a fault begins.
LEMMA BeginInv ==
  ASSUME LifecycleInv, NEW r \in Requests, NEW n \in Nodes, Begin(r, n)
  PROVE  InvStep
<1>0. TableOK /\ Read \in Reads /\ Genuine(Read) /\ Wish(row) \in Wishes
  BY ReadGenuine DEF LifecycleInv
<1> USE DEF Ready, Ops, tableVars
<1>1. ASSUME NEW want \in Wishes, SetDesired(r, n, want) PROVE InvStep
  BY <1>1, BeginStep DEF SetDesired
<1>2. ASSUME NEW a \in Artifacts, RollbackArtifact(r, n, a) PROVE InvStep
  <2>1. [Wish(row) EXCEPT !.art = a] \in Wishes
    BY <1>0 DEF Wishes
  <2> QED
    BY <1>2, <2>1, BeginStep DEF RollbackArtifact
<1>3. ASSUME NEW a \in Artifacts, UpsertAdvisory(r, n, a) PROVE InvStep
  <2>1. [Read EXCEPT !.art = a] \in Reads
    BY <1>0 DEF Reads
  <2> QED
    BY <1>3, <2>1, BeginStep, ZenonT(30) DEF UpsertAdvisory
<1>4. ASSUME NEW g \in DOMAIN snapshots, NEW full \in BOOLEAN, RollbackConfigSnapshot(r, n, g, full)
      PROVE  InvStep
  <2> DEFINE want == IF full THEN snapshots[g] ELSE [Wish(row) EXCEPT !.cfg = snapshots[g].cfg]
  <2>1. snapshots[g] \in Wishes
    BY <1>0 DEF TableOK
  <2>2. want \in Wishes
    BY <1>0, <2>1 DEF Wishes
  <2>3. /\ req[r] = Idle /\ req' = [req EXCEPT ![r] = New("rollback", n, "upsert", NoRuntime, want)]
        /\ UNCHANGED <<row, snapshots, memoryVars, mu>>
    BY <1>4 DEF RollbackConfigSnapshot
  <2> HIDE DEF want
  <2> QED
    BY <2>2, <2>3, BeginStep
<1>5. CASE Enable(r, n)
  <2>1. [Wish(row) EXCEPT !.state = "enabled"] \in Wishes
    BY <1>0 DEF Wishes, States
  <2>a. req[r] = Idle /\ UNCHANGED <<row, snapshots, memoryVars, mu>>
    BY <1>5 DEF Enable
  <2>2. CASE row.state = "enabled"
    <3>1. req' = [req EXCEPT ![r] = New("enable", n, "gate", Read, NoRuntime)]
      BY <1>5, <2>2 DEF Enable
    <3> QED
      BY <1>0, <2>a, <3>1, BeginStep
  <2>3. CASE row.state # "enabled"
    <3>1. req' = [req EXCEPT ![r] =
                    New("enable", n, "upsert", Read, [Wish(row) EXCEPT !.state = "enabled"])]
      BY <1>5, <2>3 DEF Enable
    <3> QED
      BY <1>0, <2>a, <2>1, <3>1, BeginStep, ZenonT(30)
  <2> QED
    BY <2>2, <2>3
<1>6. CASE Load(r, n)
  BY <1>0, <1>6, BeginStep DEF Load
<1>7. CASE DisableOrDelete(r, n, "disable")
  <2>1. [Wish(row) EXCEPT !.state = "disabled"] \in Wishes
    BY <1>0 DEF Wishes, States
  <2>2. /\ req[r] = Idle /\ Free(n) /\ UNCHANGED <<row, snapshots, memoryVars>>
        /\ mu' = [mu EXCEPT ![n] = r]
        /\ req' = [req EXCEPT ![r] =
                    New("disable", n, "upsert", Read, [Wish(row) EXCEPT !.state = "disabled"])]
    BY <1>7 DEF DisableOrDelete
  <2> QED
    BY <1>0, <2>1, <2>2, BeginStep
<1>7a. CASE DisableOrDelete(r, n, "delete")
  <2>1. [Wish(row) EXCEPT !.state = "deleted"] \in Wishes
    BY <1>0 DEF Wishes, States
  <2>2. /\ req[r] = Idle /\ Free(n) /\ UNCHANGED <<row, snapshots, memoryVars>>
        /\ mu' = [mu EXCEPT ![n] = r]
        /\ req' = [req EXCEPT ![r] =
                    New("delete", n, "remove", Read, [Wish(row) EXCEPT !.state = "deleted"])]
    BY <1>7a DEF DisableOrDelete
  <2> QED
    BY <1>0, <2>1, <2>2, BeginStep
<1>8. CASE UpsertSecret(r, n)
  BY <1>0, <1>8, BeginStep DEF UpsertSecret
<1>9. CASE HostCrashes(r, n)
  <2>1. [Read EXCEPT !.art = loaded[n].art] \in Reads
    BY <1>0, <1>9 DEF Reads, HostCrashes, LifecycleInv, MemoryOK, Runtimes
  <2> QED
    BY <1>9, <2>1, BeginStep, ZenonT(30) DEF HostCrashes
<1>10. CASE Reconcile(r, n)
  BY <1>0, <1>10, BeginStep, ZenonT(30) DEF Reconcile
<1> QED
  BY <1>1, <1>2, <1>3, <1>4, <1>5, <1>6, <1>7, <1>7a, <1>8, <1>9, <1>10, Zenon DEF Begin

-----------------------------------------------------------------------------
(* Steps that leave memory alone.                                           *)

\* What the invariant says of a request that moves.
LEMMA StepFacts ==
  ASSUME LifecycleInv, NEW r \in Requests, req[r] # Idle
  PROVE  /\ req[r] \in Frames /\ Knows(req[r]) /\ Locks(r, req[r]) /\ req[r].node \in Nodes
         /\ req \in [Requests -> Frames \cup {Idle}]
         /\ TableOK /\ MemoryOK /\ EnabledNamesItsArtifact
BY DEF LifecycleInv, RequestsOK, RequestOK, Frames

\* The end of a request that replaces nothing.
LEMMA QuietEnd ==
  ASSUME LifecycleInv, NEW r \in Requests, req[r] # Idle, TableStep, UNCHANGED memoryVars,
         req' = [req EXCEPT ![r] = Idle], mu' = mu \/ mu' = Leave(r, req[r].node),
         Quiet(req[r])
  PROVE  InvStep
<1>1. req'[r] = Idle /\ OnlyOf(r) /\ req[r].node \in Nodes
  BY StepFacts DEF OnlyOf
<1>2. RequestOK(r)' /\ Quiet(req'[r])
  BY <1>1 DEF RequestOK, Quiet, Took
<1> QED
  BY <1>1, <1>2, QuietStep

\* A request that replaces nothing goes to another point.
LEMMA QuietMove ==
  ASSUME LifecycleInv, NEW r \in Requests, req[r] # Idle, TableStep, UNCHANGED memoryVars,
         \/ mu' = mu
         \/ Enters(r, req[r].node) /\ mu' = [mu EXCEPT ![req[r].node] = r],
         OnlyOf(r), req'[r] \in Frames, ~Took(req[r]), ~Took(req'[r]),
         Knows(req'[r]), Locks(r, req[r])'
  PROVE  InvStep
<1>1. req[r].node \in Nodes
  BY StepFacts
<1>2. Knows(req[r])'
  BY GenuineKept DEF TableStep, Knows, Leads, Took
<1>3. RequestOK(r)' /\ Quiet(req[r]) /\ Quiet(req'[r])
  BY <1>2 DEF RequestOK, Quiet, Took
<1> QED
  BY <1>1, <1>3, QuietStep

\* What Goto leaves alone.
LEMMA GotoFields ==
  ASSUME LifecycleInv, NEW r \in Requests, req[r] # Idle, NEW p \in Points, Goto(r, p)
  PROVE  /\ OnlyOf(r) /\ req'[r] \in Frames /\ req'[r].pc = p
         /\ req'[r].op = req[r].op /\ req'[r].node = req[r].node /\ req'[r].next = req[r].next
         /\ req'[r].rec = req[r].rec /\ req'[r].want = req[r].want /\ req'[r].old = req[r].old
<1>1. req[r] \in Frames /\ req \in [Requests -> Frames \cup {Idle}]
  BY StepFacts
<1>2. req'[r] = [req[r] EXCEPT !.pc = p] /\ OnlyOf(r)
  BY <1>1 DEF Goto, OnlyOf
<1> QED
  BY <1>1, <1>2 DEF Frames

\* What a request that will report keeps.
LEMMA RecordFields ==
  ASSUME LifecycleInv, NEW r \in Requests, req[r] # Idle, NEW next \in Nexts,
         req' = [req EXCEPT ![r].pc = "record", ![r].next = next]
  PROVE  /\ OnlyOf(r) /\ req'[r] \in Frames /\ req'[r].pc = "record" /\ req'[r].next = next
         /\ req'[r].op = req[r].op /\ req'[r].node = req[r].node
         /\ req'[r].rec = req[r].rec /\ req'[r].want = req[r].want /\ req'[r].old = req[r].old
<1>1. req[r] \in Frames /\ req \in [Requests -> Frames \cup {Idle}]
  BY StepFacts
<1>2. req'[r] = [req[r] EXCEPT !.pc = "record", !.next = next] /\ OnlyOf(r)
  BY <1>1 DEF OnlyOf
<1> QED
  BY <1>1, <1>2 DEF Frames, Points

\* The update of the desired state.
LEMMA UpsertInv ==
  ASSUME LifecycleInv, NEW r \in Requests, Upsert(r)
  PROVE  InvStep
<1>1. /\ req[r] # Idle /\ req[r].pc = "upsert" /\ UNCHANGED memoryVars
      /\ UpsertDesired(req[r].want)
  BY DEF Upsert
<1>2. /\ req[r] \in Frames /\ Knows(req[r]) /\ Locks(r, req[r])
      /\ req \in [Requests -> Frames \cup {Idle}]
  BY <1>1, StepFacts
<1>3. req[r].want \in Wishes /\ req[r].old = NoRuntime /\ req[r].next # "mark" /\ req[r].next \in {"done", "reload"}
  BY <1>1, <1>2 DEF Knows, Leads, Took
<1>4. TableStep
  BY <1>1, <1>3, TableUpsert DEF LifecycleInv
<1>5. CASE req[r].op \in {"rollback", "delete"}
  BY <1>1, <1>3, <1>4, <1>5, QuietEnd DEF Upsert, Finish, Quiet, Took
<1>6. CASE req[r].op \notin {"rollback", "delete"}
  <2>1. mu' = mu /\ req' = [req EXCEPT
            ![r].pc = "readback", ![r].want = NoRuntime,
            ![r].next = IF @ = "done" /\ req[r].want.state = "enabled" THEN "reload" ELSE @]
    BY <1>6 DEF Upsert
  <2>2. OnlyOf(r) /\ req'[r] = [req[r] EXCEPT
            !.pc = "readback", !.want = NoRuntime,
            !.next = IF @ = "done" /\ req[r].want.state = "enabled" THEN "reload" ELSE @]
    BY <1>2, <2>1 DEF OnlyOf
  <2>3. /\ req'[r] \in Frames /\ req'[r].pc = "readback" /\ req'[r].next \in {"done", "reload"}
        /\ req'[r].op = req[r].op /\ req'[r].node = req[r].node /\ req'[r].old = NoRuntime
    BY <1>2, <1>3, <2>2 DEF Frames, Points, Nexts
  <2>4. Knows(req'[r])
    BY <1>1, <1>2, <2>3 DEF Knows, Leads, Took
  <2>5. Locks(r, req[r])'
    BY <1>2, <2>1, <2>3 DEF Locks, Leads, Holds
  <2> QED
    BY <1>1, <1>3, <1>4, <2>1, <2>2, <2>3, <2>4, <2>5, QuietMove DEF Took
<1> QED
  BY <1>5, <1>6

\* The failed update.
LEMMA UpsertFailsInv ==
  ASSUME LifecycleInv, NEW r \in Requests, UpsertFails(r)
  PROVE  InvStep
<1>1. req[r] # Idle /\ req[r].pc = "upsert" /\ Finish(r) /\ UNCHANGED <<row, snapshots, memoryVars>>
  BY DEF UpsertFails, tableVars
<1>2. TableStep
  BY <1>1, TableSame DEF LifecycleInv
<1>3. Quiet(req[r])
  BY <1>1, StepFacts DEF Knows, Leads, Took, Quiet
<1> QED
  BY <1>1, <1>2, <1>3, QuietEnd DEF Finish

\* The row that UpsertDesired returns.
LEMMA ReadBackInv ==
  ASSUME LifecycleInv, NEW r \in Requests, ReadBack(r)
  PROVE  InvStep
<1>1. req[r] # Idle /\ req[r].pc = "readback" /\ UNCHANGED <<row, snapshots, memoryVars>>
  BY DEF ReadBack, tableVars
<1>2. /\ req[r] \in Frames /\ Knows(req[r]) /\ Locks(r, req[r])
      /\ req \in [Requests -> Frames \cup {Idle}]
  BY <1>1, StepFacts
<1>3. req[r].old = NoRuntime /\ req[r].next # "mark" /\ req[r].next \in {"done", "reload"} /\ Quiet(req[r])
  BY <1>1, <1>2 DEF Knows, Leads, Took, Quiet
<1>4. TableStep
  BY <1>1, TableSame DEF LifecycleInv
<1>5. CASE ~Visible
  BY <1>1, <1>3, <1>4, <1>5, QuietEnd DEF ReadBack, Finish
<1>6. CASE Visible
  <2>1. mu' = mu /\ req' = [req EXCEPT ![r].rec = Read,
                                  ![r].pc = IF req[r].op = "disable" THEN "remove" ELSE "record"]
    BY <1>6 DEF ReadBack
  <2>2. OnlyOf(r) /\ req'[r] = [req[r] EXCEPT !.rec = Read,
                                  !.pc = IF req[r].op = "disable" THEN "remove" ELSE "record"]
    BY <1>2, <2>1 DEF OnlyOf
  <2>3. Read \in Reads /\ Genuine(Read)
    BY ReadGenuine DEF LifecycleInv
  <2>4. /\ req'[r] \in Frames /\ req'[r].pc = IF req[r].op = "disable" THEN "remove" ELSE "record"
        /\ req'[r].next = req[r].next /\ req'[r].rec = Read
        /\ req'[r].op = req[r].op /\ req'[r].node = req[r].node /\ req'[r].old = NoRuntime
    BY <1>2, <1>3, <2>2, <2>3 DEF Frames, Points
  <2>5. Knows(req'[r])
    BY <1>1, <1>2, <1>3, <2>3, <2>4 DEF Knows, Leads, Took
  <2>6. Locks(r, req[r])'
    BY <1>1, <1>2, <1>3, <2>1, <2>4 DEF Locks, Leads, Holds, Knows
  <2> QED
    BY <1>1, <1>3, <1>4, <2>1, <2>2, <2>4, <2>5, <2>6, QuietMove DEF Took
<1> QED
  BY <1>5, <1>6

\* A request goes on, with or without a runtime it has replaced.
LEMMA PlainMove ==
  ASSUME LifecycleInv, NEW r \in Requests, req[r] # Idle, TableStep,
         UNCHANGED memoryVars, UNCHANGED mu,
         OnlyOf(r), req'[r] \in Frames, req'[r].old = req[r].old, req'[r].node = req[r].node,
         req'[r].next = "mark" => req[r].next = "mark", Knows(req'[r]), Locks(r, req[r])'
  PROVE  InvStep
<1>1. req[r].node \in Nodes /\ req \in [Requests -> Frames \cup {Idle}] /\ MemoryOK
  BY StepFacts
<1>2. Knows(req[r])'
  BY GenuineKept DEF TableStep, Knows, Leads, Took
<1>3. RequestOK(r)'
  BY <1>2 DEF RequestOK
<1>4. Others(r) /\ MemoryOK'
  BY <1>1, MuStep, MemorySame DEF TableStep, memoryVars
<1>5. ASSUME NEW n \in Nodes PROVE HeldOK(n)'
  <2>1. /\ \A q \in Requests : Replacing(q, n)' => Replacing(q, n) /\ req'[q].old = req[q].old
        /\ \A q \in Requests : Replacing(q, n) /\ ~Replacing(q, n)' => req[q].old = NoRuntime
    BY <1>1, FrameNotIdle DEF OnlyOf, Replacing, Took
  <2>2. \A rt : (IsPublished(n, rt)' <=> IsPublished(n, rt)) /\ ~IsPublished(n, NoRuntime)
    BY DEF IsPublished, memoryVars
  <2>3. HeldOK(n) /\ UNCHANGED <<loaded, published, displaced, orphan>>
    BY DEF LifecycleInv, memoryVars
  <2>4. SUFFICES ASSUME published[n] # NoRuntime, ~orphan[n] PROVE HeldOK(n)'
    BY <2>3 DEF HeldOK
  <2>5. CASE displaced[n] # {}
    BY <2>2, <2>3, <2>4, <2>5 DEF HeldOK
  <2>6. CASE displaced[n] = {}
    <3>1. \A q \in Requests : Replacing(q, n)' <=> Replacing(q, n)
      BY <2>1, <2>2, <2>3, <2>4, <2>6 DEF HeldOK
    <3> QED
      BY <2>1, <2>2, <2>3, <2>4, <2>6, <3>1 DEF HeldOK
  <2> QED
    BY <2>5, <2>6
<1> QED
  BY <1>3, <1>4, <1>5, Assemble

\* The node's report, and where the request goes from there.
LEMMA RecordNodeStateInv ==
  ASSUME LifecycleInv, NEW r \in Requests, RecordNodeState(r)
  PROVE  InvStep
<1>1. req[r] # Idle /\ req[r].pc = "record" /\ UNCHANGED <<row, snapshots, memoryVars>>
  BY DEF RecordNodeState, tableVars
<1>2. req[r] \in Frames /\ Knows(req[r]) /\ Locks(r, req[r])
  BY <1>1, StepFacts
<1>3. TableStep
  BY <1>1, TableSame DEF LifecycleInv
<1>4. CASE req[r].next = "done"
  <2>1. Quiet(req[r])
    BY <1>1, <1>2, <1>4 DEF Knows, Leads, Took, Quiet
  <2> QED
    BY <1>1, <1>3, <1>4, <2>1, QuietEnd DEF RecordNodeState, Finish
<1>5. CASE req[r].next # "done"
  <2>1. Goto(r, req[r].next) /\ UNCHANGED mu
    BY <1>5 DEF RecordNodeState
  <2>2. req[r].next \in Points /\ req[r].next \in {"reload", "mark", "settle", "publish", "sweep"}
    BY <1>2, <1>5 DEF Frames, Points, Nexts
  <2>3. /\ OnlyOf(r) /\ req'[r] \in Frames /\ req'[r].pc = req[r].next
        /\ req'[r].op = req[r].op /\ req'[r].node = req[r].node /\ req'[r].next = req[r].next
        /\ req'[r].rec = req[r].rec /\ req'[r].old = req[r].old
    BY <1>1, <2>1, <2>2, GotoFields
  <2>4. Knows(req'[r])
    BY <1>1, <1>2, <2>2, <2>3 DEF Knows, Leads, Took
  <2>5. Locks(r, req[r])'
    BY <1>1, <1>2, <2>1, <2>2, <2>3 DEF Locks, Leads, Holds, memoryVars
  <2> QED
    BY <1>1, <1>3, <2>1, <2>3, <2>4, <2>5, PlainMove
<1> QED
  BY <1>4, <1>5

\* Enable takes the refreshed row.
LEMMA RereadInv ==
  ASSUME LifecycleInv, NEW r \in Requests, Reread(r)
  PROVE  InvStep
<1>1. /\ req[r] # Idle /\ req[r].pc = "reread" /\ UNCHANGED <<row, snapshots, memoryVars, mu>>
      /\ req' = [req EXCEPT ![r].pc = "gate", ![r].rec = IF Visible THEN Read ELSE @]
  BY DEF Reread, tableVars
<1>2. /\ req[r] \in Frames /\ Knows(req[r]) /\ Locks(r, req[r])
      /\ req \in [Requests -> Frames \cup {Idle}]
  BY <1>1, StepFacts
<1>3. TableStep /\ Read \in Reads /\ Genuine(Read)
  BY <1>1, TableSame, ReadGenuine DEF LifecycleInv
<1>4. /\ OnlyOf(r)
      /\ req'[r] = [req[r] EXCEPT !.pc = "gate", !.rec = IF Visible THEN Read ELSE @]
  BY <1>1, <1>2 DEF OnlyOf
<1>5. /\ req'[r] \in Frames /\ req'[r].pc = "gate"
      /\ req'[r].op = req[r].op /\ req'[r].node = req[r].node /\ req'[r].next = req[r].next
      /\ req'[r].rec \in {Read, req[r].rec} /\ req'[r].old = req[r].old
  BY <1>2, <1>3, <1>4 DEF Frames, Points
<1>6. Knows(req'[r])
  BY <1>1, <1>2, <1>3, <1>5 DEF Knows, Leads, Took
<1>7. Locks(r, req[r])'
  BY <1>1, <1>2, <1>5 DEF Locks, Leads, Holds, memoryVars
<1> QED
  BY <1>1, <1>3, <1>4, <1>5, <1>6, <1>7, PlainMove

\* The mark of a failure and the way on from it, from a point where nothing
\* was replaced and, in Reconcile, under m.mu.
LEMMA FailedStep ==
  ASSUME LifecycleInv, NEW r \in Requests, req[r] # Idle, req[r].pc \in {"gate", "load"},
         Failed(r, req[r].node), UNCHANGED <<snapshots, memoryVars>>,
         \/ mu' = mu
         \/ Enters(r, req[r].node) /\ mu' = [mu EXCEPT ![req[r].node] = r]
  PROVE  InvStep
<1>1. /\ req[r] \in Frames /\ Knows(req[r]) /\ Locks(r, req[r]) /\ req[r].node \in Nodes
      /\ MemoryOK
  BY StepFacts
<1>2. req[r].old = NoRuntime /\ req[r].next # "mark" /\ req[r].rec \in Reads
  BY <1>1 DEF Knows, Leads, Took
<1>3. TableStep
  BY <1>2, TableMarked
  DEF Failed, MarkRuntimeIfDesiredGeneration, LifecycleInv, Reads, RuntimeStates
<1> DEFINE next == IF req[r].op = "reconcile" THEN "sweep" ELSE "done"
<1>4. next \in Nexts /\ req' = [req EXCEPT ![r].pc = "record", ![r].next = next]
  BY DEF Failed, Nexts
<1> HIDE DEF next
<1>5. /\ OnlyOf(r) /\ req'[r] \in Frames /\ req'[r].pc = "record" /\ req'[r].next = next
      /\ req'[r].op = req[r].op /\ req'[r].node = req[r].node
      /\ req'[r].rec = req[r].rec /\ req'[r].old = NoRuntime
  BY <1>2, <1>4, RecordFields
<1>6. Knows(req'[r])
  BY <1>1, <1>2, <1>5 DEF Knows, Leads, Took, next
<1>7. Locks(r, req[r])'
  BY <1>1, <1>5 DEF Locks, Leads, Holds, Enters, Free, MemoryOK, memoryVars, next
<1>8. ~Took(req[r]) /\ ~Took(req'[r])
  BY <1>2, <1>5 DEF Took, next
<1> QED
  BY <1>3, <1>5, <1>6, <1>7, <1>8, QuietMove

\* The release gate lets the plugin load, or fails it.
LEMMA EvaluateReleaseGateInv ==
  ASSUME LifecycleInv, NEW r \in Requests, EvaluateReleaseGate(r)
  PROVE  InvStep
<1>1. req[r] # Idle /\ req[r].pc = "gate" /\ UNCHANGED <<snapshots, memoryVars, mu>>
  BY DEF EvaluateReleaseGate
<1>2. CASE Failed(r, req[r].node)
  BY <1>1, <1>2, FailedStep
<1>3. CASE Goto(r, "load") /\ UNCHANGED row
  <2>1. req[r] \in Frames /\ Knows(req[r]) /\ Locks(r, req[r])
    BY <1>1, StepFacts
  <2>2. TableStep
    BY <1>1, <1>3, TableSame DEF LifecycleInv
  <2>3. /\ OnlyOf(r) /\ req'[r] \in Frames /\ req'[r].pc = "load"
        /\ req'[r].op = req[r].op /\ req'[r].node = req[r].node /\ req'[r].next = req[r].next
        /\ req'[r].rec = req[r].rec /\ req'[r].old = req[r].old
    BY <1>1, <1>3, GotoFields DEF Points
  <2>4. Knows(req'[r])
    BY <1>1, <2>1, <2>3 DEF Knows, Leads, Took
  <2>5. Locks(r, req[r])'
    BY <1>1, <2>1, <2>3 DEF Locks, Leads, Holds, memoryVars
  <2> QED
    BY <1>1, <2>2, <2>3, <2>4, <2>5, PlainMove
<1> QED
  BY <1>2, <1>3 DEF EvaluateReleaseGate

\* The load that finds the runtime it wants.
LEMMA LoadReusesInv ==
  ASSUME LifecycleInv, NEW r \in Requests, LoadReuses(r)
  PROVE  InvStep
<1>1. /\ req[r] # Idle /\ req[r].pc = "load" /\ Enters(r, req[r].node) /\ Reused(r)
      /\ mu' = [mu EXCEPT ![req[r].node] = r] /\ Goto(r, AfterLoad(r))
      /\ UNCHANGED <<row, snapshots, memoryVars>>
  BY DEF LoadReuses, tableVars
<1>2. /\ req[r] \in Frames /\ Knows(req[r]) /\ Locks(r, req[r]) /\ req[r].node \in Nodes
      /\ MemoryOK
  BY <1>1, StepFacts
<1>3. TableStep
  BY <1>1, TableSame DEF LifecycleInv
<1>4. AfterLoad(r) \in {"settle", "mark"} /\ AfterLoad(r) \in Points
  BY DEF AfterLoad, Points
<1>5. /\ OnlyOf(r) /\ req'[r] \in Frames /\ req'[r].pc = AfterLoad(r)
      /\ req'[r].op = req[r].op /\ req'[r].node = req[r].node /\ req'[r].next = req[r].next
      /\ req'[r].rec = req[r].rec /\ req'[r].old = req[r].old
  BY <1>1, <1>4, GotoFields
<1>6. req[r].old = NoRuntime /\ req[r].next # "mark"
  BY <1>1, <1>2 DEF Knows, Leads, Took
<1>7. Knows(req'[r])
  BY <1>1, <1>2, <1>4, <1>5, <1>6 DEF Knows, Leads, Took
<1>8. Locks(r, req[r])'
  BY <1>1, <1>2, <1>4, <1>5 DEF Locks, Leads, Holds, memoryVars, MemoryOK, Reused
<1> QED
  BY <1>1, <1>3, <1>5, <1>6, <1>7, <1>8, QuietMove DEF Took

\* The load that drops a host in a crash loop: what is published and not
\* displaced is the dropped one.
LEMMA LoadForgetsInv ==
  ASSUME LifecycleInv, NEW r \in Requests, LoadForgets(r)
  PROVE  InvStep
<1>0. PICK n \in Nodes : n = req[r].node
  BY StepFacts DEF LoadForgets
<1>1. /\ req[r] # Idle /\ req[r].pc = "load" /\ Enters(r, n)
      /\ UNCHANGED <<row, snapshots, published, displaced, req>>
      /\ mu' = [mu EXCEPT ![n] = r] /\ loaded' = [loaded EXCEPT ![n] = NoRuntime]
      /\ orphan' = [orphan EXCEPT ![n] = @ \/ IsPublished(n, loaded[n])]
  BY <1>0 DEF LoadForgets, tableVars
<1>2. /\ req[r] \in Frames /\ Knows(req[r]) /\ Locks(r, req[r])
      /\ req \in [Requests -> Frames \cup {Idle}] /\ MemoryOK
  BY <1>1, StepFacts
<1>3. TableStep
  BY <1>1, TableSame DEF LifecycleInv
<1>4. ~Took(req[r])
  BY <1>1, <1>2 DEF Knows, Leads
<1>5. /\ loaded'[n] = NoRuntime /\ mu'[n] = r
      /\ orphan'[n] = (orphan[n] \/ IsPublished(n, loaded[n]))
      /\ \A m \in Nodes \ {n} : loaded'[m] = loaded[m] /\ orphan'[m] = orphan[m]
  BY <1>1, <1>2 DEF MemoryOK
<1>6. loaded' \in [Nodes -> Runtimes \cup {NoRuntime}] /\ orphan' \in [Nodes -> BOOLEAN]
  BY <1>1, <1>2 DEF MemoryOK, IsPublished
<1>7. Others(r) /\ mu' \in [Nodes -> Requests \cup {NoRequest}]
  BY <1>1, <1>2, <1>5, MuStep
<1>8. MemoryOK'
  BY <1>1, <1>2, <1>3, <1>5, <1>6, <1>7, GenuineKept DEF MemoryOK, TableStep
<1>9. OnlyOf(r) /\ req'[r] = req[r]
  BY <1>1, <1>2 DEF OnlyOf
<1>10. Knows(req[r])'
  BY <1>2, <1>3, <1>9, GenuineKept DEF TableStep, Knows, Leads, Took
<1>11. Locks(r, req[r])'
  BY <1>0, <1>1, <1>5, <1>9 DEF Locks, Leads, Holds
<1>12. RequestOK(r)'
  BY <1>2, <1>9, <1>10, <1>11 DEF RequestOK
<1>13. HeldOK(n)'
  <2>1. SUFFICES ASSUME published[n] # NoRuntime, ~orphan[n], ~IsPublished(n, loaded[n])
                 PROVE  HeldOK(n)'
    BY <1>1, <1>5 DEF HeldOK
  <2>2. \A q \in Requests : ~Replacing(q, n)
    BY <1>1, <1>4, LifecycleAssumption DEF Enters, Free, Holds, Replacing
  <2>3. displaced[n] # {} /\ \A rt \in displaced[n] : IsPublished(n, rt)
    BY <2>1, <2>2 DEF LifecycleInv, HeldOK
  <2> QED
    BY <1>1, <2>3 DEF HeldOK, IsPublished
<1>14. \A m \in Nodes : HeldOK(m)'
  BY <1>0, <1>1, <1>5, <1>7, <1>9, <1>13, HeldElsewhere DEF LifecycleInv
<1> QED
  BY <1>2, <1>3, <1>7, <1>8, <1>9, <1>12, <1>14, Assemble

\* The load that fails.
LEMMA LoadFailsInv ==
  ASSUME LifecycleInv, NEW r \in Requests, LoadFails(r)
  PROVE  InvStep
BY FailedStep DEF LoadFails

-----------------------------------------------------------------------------
(* Steps under m.mu.                                                        *)

\* A request ends at its node.
LEMMA EndFields ==
  ASSUME LifecycleInv, NEW r \in Requests, req[r] # Idle, req' = [req EXCEPT ![r] = Idle]
  PROVE  OnlyOf(r) /\ req'[r] = Idle /\ RequestOK(r)' /\ Quiet(req'[r])
BY StepFacts DEF OnlyOf, RequestOK, Quiet

\* The reload: it is skipped, refused, or gives the loaded runtime the
\* generation of the row that was read, whose artifact is the runtime's.
LEMMA ReloadStartsInv ==
  ASSUME LifecycleInv, NEW r \in Requests, ReloadStarts(r)
  PROVE  InvStep
<1> DEFINE n == req[r].node
<1>1. /\ req[r] # Idle /\ req[r].pc = "reload" /\ Free(n)
      /\ UNCHANGED <<row, snapshots, published, displaced, orphan>>
  BY DEF ReloadStarts, tableVars
<1>2. /\ req[r] \in Frames /\ Knows(req[r]) /\ Locks(r, req[r]) /\ n \in Nodes
      /\ MemoryOK
  BY <1>1, StepFacts
<1>3. TableStep
  BY <1>1, TableSame DEF LifecycleInv
<1>4. req[r].old = NoRuntime /\ req[r].next # "mark" /\ Quiet(req[r]) /\ req[r].op \notin {"advisory", "crash"}
      /\ req[r].rec \in Reads /\ Genuine(req[r].rec)
  BY <1>1, <1>2 DEF Knows, Leads, Took, Quiet
<1>5. CASE UNCHANGED <<mu, loaded>> /\ req' = [req EXCEPT ![r] = Idle]
  BY <1>1, <1>3, <1>4, <1>5, QuietEnd DEF memoryVars
<1>6. CASE UNCHANGED <<mu, loaded>> /\ Goto(r, "reread")
  <2>1. /\ OnlyOf(r) /\ req'[r] \in Frames /\ req'[r].pc = "reread"
        /\ req'[r].op = req[r].op /\ req'[r].node = req[r].node /\ req'[r].next = req[r].next
        /\ req'[r].rec = req[r].rec /\ req'[r].old = req[r].old
    BY <1>1, <1>6, GotoFields DEF Points
  <2>2. Knows(req'[r])
    BY <1>1, <1>2, <2>1 DEF Knows, Leads, Took
  <2>3. Locks(r, req[r])'
    BY <1>1, <1>2, <1>6, <2>1 DEF Locks, Leads, Holds
  <2> QED
    BY <1>1, <1>3, <1>6, <2>1, <2>2, <2>3, PlainMove DEF memoryVars
<1>7. CASE /\ ReloadApplies(r) /\ loaded' = [loaded EXCEPT ![n].gen = req[r].rec.gen]
           /\ mu' = [mu EXCEPT ![n] = r] /\ Goto(r, "reloaded")
  <2>1. /\ OnlyOf(r) /\ req'[r] \in Frames /\ req'[r].pc = "reloaded"
        /\ req'[r].op = req[r].op /\ req'[r].node = req[r].node /\ req'[r].next = req[r].next
        /\ req'[r].rec = req[r].rec /\ req'[r].old = req[r].old
    BY <1>1, <1>7, GotoFields DEF Points
  <2>2. loaded[n] \in Runtimes /\ loaded[n].art = req[r].rec.art
    BY <1>2, <1>7 DEF ReloadApplies, MemoryOK
  <2>3. /\ loaded'[n] = [loaded[n] EXCEPT !.gen = req[r].rec.gen]
        /\ \A m \in Nodes \ {n} : loaded'[m] = loaded[m]
    BY <1>2, <1>7 DEF MemoryOK
  <2>4. /\ loaded'[n] \in Runtimes /\ loaded'[n].gen = req[r].rec.gen
        /\ loaded'[n].art = req[r].rec.art /\ loaded'[n].born = loaded[n].born
    BY <1>4, <2>2, <2>3 DEF Runtimes, Reads
  <2>5. loaded'[n] # NoRuntime /\ loaded[n] # NoRuntime
    BY <2>2, <2>4, LifecycleAssumption DEF Runtimes
  <2>6. SameHandlers
    BY <2>3, <2>4, <2>5 DEF SameHandlers
  <2>7. Others(r) /\ mu' \in [Nodes -> Requests \cup {NoRequest}]
    BY <1>1, <1>2, <1>7, <2>3, MuStep DEF Enters
  <2>8. loaded' \in [Nodes -> Runtimes \cup {NoRuntime}]
    BY <1>2, <1>7, <2>4 DEF MemoryOK
  <2>9. Genuine(loaded'[n])
    BY <1>4, <2>4 DEF Genuine
  <2>10. MemoryOK'
    BY <1>1, <1>2, <1>3, <2>3, <2>7, <2>8, <2>9, GenuineKept DEF MemoryOK, TableStep
  <2>11. Knows(req'[r])
    BY <1>1, <1>2, <2>1 DEF Knows, Leads, Took
  <2>12. Knows(req[r])'
    BY <1>3, <2>11, GenuineKept DEF TableStep, Knows, Leads, Took
  <2>13. mu'[n] = r
    BY <1>2, <1>7 DEF MemoryOK
  <2>14. Locks(r, req[r])'
    BY <2>1, <2>5, <2>13 DEF Locks, Leads, Holds
  <2>15. RequestOK(r)' /\ Quiet(req'[r])
    BY <1>4, <2>1, <2>12, <2>14 DEF RequestOK, Quiet, Took
  <2>16. \A m \in Nodes : HeldOK(m)'
    BY <1>1, <1>4, <2>1, <2>6, <2>7, <2>15, HeldQuiet DEF LifecycleInv
  <2> QED
    BY <1>3, <2>1, <2>7, <2>10, <2>15, <2>16, Assemble
<1> QED
  BY <1>5, <1>6, <1>7 DEF ReloadStarts

\* The mark after a reload.
LEMMA ReloadMarksInv ==
  ASSUME LifecycleInv, NEW r \in Requests, ReloadMarks(r)
  PROVE  InvStep
<1> DEFINE n == req[r].node
           rt == loaded[n]
<1>1. /\ req[r] # Idle /\ req[r].pc = "reloaded" /\ UNCHANGED <<snapshots, memoryVars>>
      /\ MarkRuntimeIfDesiredGeneration(rt.gen, "enabled", rt.art, rt.gen)
  BY DEF ReloadMarks
<1>2. /\ req[r] \in Frames /\ Knows(req[r]) /\ Locks(r, req[r]) /\ n \in Nodes
      /\ MemoryOK
  BY <1>1, StepFacts
<1>3. rt \in Runtimes /\ Genuine(rt)
  BY <1>1, <1>2 DEF Locks, MemoryOK
<1>4. TableStep
  BY <1>1, <1>3, TableEnabled DEF LifecycleInv
<1>5. req[r].old = NoRuntime /\ req[r].next # "mark" /\ Quiet(req[r])
  BY <1>1, <1>2 DEF Knows, Leads, Took, Quiet
<1>6. CASE req[r].op = "enable"
  <2>1. Goto(r, "reread") /\ mu' = Leave(r, n)
    BY <1>6 DEF ReloadMarks
  <2>2. /\ OnlyOf(r) /\ req'[r] \in Frames /\ req'[r].pc = "reread"
        /\ req'[r].op = req[r].op /\ req'[r].node = req[r].node /\ req'[r].next = req[r].next
        /\ req'[r].rec = req[r].rec /\ req'[r].old = req[r].old
    BY <1>1, <2>1, GotoFields DEF Points
  <2>3. Knows(req'[r])
    BY <1>1, <1>2, <1>5, <2>2 DEF Knows, Leads, Took
  <2>4. Knows(req[r])'
    BY <1>4, <2>3, GenuineKept DEF TableStep, Knows, Leads, Took
  <2>5. Locks(r, req[r])'
    BY <1>6, <2>2 DEF Locks, Leads
  <2>6. RequestOK(r)' /\ Quiet(req'[r])
    BY <1>5, <2>2, <2>4, <2>5 DEF RequestOK, Quiet, Took
  <2> QED
    BY <1>1, <1>2, <1>4, <1>5, <2>1, <2>2, <2>6, QuietStep
<1>7. CASE req[r].op # "enable"
  BY <1>1, <1>4, <1>5, <1>7, QuietEnd DEF ReloadMarks, Finish
<1> QED
  BY <1>6, <1>7

\* A runtime starts and takes the place of the loaded one, which the request
\* keeps in old; or it is stopped because the row has moved on.
LEMMA LoadStartsInv ==
  ASSUME LifecycleInv, NEW r \in Requests, LoadStarts(r)
  PROVE  InvStep
<1>0. PICK n \in Nodes : n = req[r].node
  BY StepFacts DEF LoadStarts
<1> DEFINE rec == req[r].rec
<1>1. /\ req[r] # Idle /\ req[r].pc = "load" /\ Enters(r, n)
      /\ UNCHANGED <<snapshots, published, displaced, orphan>>
  BY <1>0 DEF LoadStarts
<1>2. /\ req[r] \in Frames /\ Knows(req[r]) /\ Locks(r, req[r]) /\ n \in Nodes
      /\ req \in [Requests -> Frames \cup {Idle}] /\ MemoryOK
  BY <1>1, StepFacts
<1>3. /\ req[r].old = NoRuntime /\ req[r].next # "mark" /\ Quiet(req[r])
      /\ req[r].op \notin {"advisory", "crash"} /\ rec \in Reads /\ Genuine(rec)
  BY <1>1, <1>2 DEF Knows, Leads, Took, Quiet
<1>4. CASE SameGeneration(rec.gen)
  <2> DEFINE new == [art |-> rec.art, gen |-> rec.gen, born |-> rec.gen]
  <2>1. /\ row' = Marked("loaded", NoArtifact, rec.applied) /\ mu' = [mu EXCEPT ![n] = r]
        /\ loaded' = [loaded EXCEPT ![n] = new]
        /\ req' = [req EXCEPT ![r].old = loaded[n], ![r].pc = "record", ![r].next = AfterLoad(r)]
    BY <1>0, <1>4 DEF LoadStarts
  <2>2. TableStep
    BY <1>1, <1>3, <2>1, TableMarked DEF LifecycleInv, Reads, RuntimeStates
  <2>3. new \in Runtimes /\ new # NoRuntime /\ Genuine(new)
    BY <1>3, LifecycleAssumption DEF Runtimes, Reads, Genuine
  <2> HIDE DEF new
  <2>4. /\ loaded'[n] = new /\ \A m \in Nodes \ {n} : loaded'[m] = loaded[m]
        /\ loaded' \in [Nodes -> Runtimes \cup {NoRuntime}] /\ mu'[n] = r
        /\ loaded[n] \in Runtimes \cup {NoRuntime}
    BY <1>2, <2>1, <2>3 DEF MemoryOK
  <2>5. /\ OnlyOf(r)
        /\ req'[r] = [req[r] EXCEPT !.old = loaded[n], !.pc = "record", !.next = AfterLoad(r)]
    BY <1>2, <2>1 DEF OnlyOf
  <2>6. AfterLoad(r) \in {"settle", "mark"}
    BY DEF AfterLoad
  <2>7. /\ req'[r] \in Frames /\ req'[r].pc = "record" /\ req'[r].next = AfterLoad(r)
        /\ req'[r].op = req[r].op /\ req'[r].node = n
        /\ req'[r].rec = rec /\ req'[r].old = loaded[n]
    BY <1>0, <1>2, <2>4, <2>5, <2>6 DEF Frames, Points, Nexts
  <2>8. Others(r) /\ mu' \in [Nodes -> Requests \cup {NoRequest}]
    BY <1>1, <1>2, <2>1, <2>4, MuStep
  <2>9. MemoryOK'
    BY <1>1, <1>2, <2>2, <2>3, <2>4, <2>8, GenuineKept DEF MemoryOK, TableStep
  <2>10. Knows(req'[r])
    BY <1>2, <1>3, <2>6, <2>7 DEF Knows, Leads, Took, MemoryOK
  <2>11. Knows(req[r])'
    BY <2>2, <2>10, GenuineKept DEF TableStep, Knows, Leads, Took
  <2>12. Locks(r, req[r])'
    BY <2>3, <2>4, <2>7 DEF Locks, Leads, Holds
  <2>13. RequestOK(r)'
    BY <2>7, <2>11, <2>12 DEF RequestOK
  <2>14. HeldOK(n)'
    <3>1. SUFFICES ASSUME published[n] # NoRuntime, ~orphan[n] PROVE HeldOK(n)'
      BY <1>1 DEF HeldOK
    <3>2. \A rt : IsPublished(n, rt)' <=> IsPublished(n, rt)
      BY <1>1 DEF IsPublished
    <3>3. \A q \in Requests : ~Replacing(q, n)
      BY <1>1, <1>3, LifecycleAssumption DEF Enters, Free, Holds, Replacing, Took
    <3>4. displaced[n] = {} => IsPublished(n, loaded[n]) /\ loaded[n] # NoRuntime
      BY <1>2, <3>1, <3>3 DEF HeldOK, LifecycleInv, IsPublished
    <3>5. /\ loaded[n] # NoRuntime => Replacing(r, n)'
          /\ \A q \in Requests : Replacing(q, n)' => q = r
      BY <2>4, <2>7, FrameNotIdle DEF Replacing, Took
    <3> QED
      BY <1>1, <1>2, <2>7, <3>1, <3>2, <3>4, <3>5 DEF HeldOK, LifecycleInv
  <2>15. \A m \in Nodes : HeldOK(m)'
    BY <1>0, <1>1, <1>2, <2>4, <2>5, <2>7, <2>8, <2>14, HeldElsewhere DEF LifecycleInv
  <2> QED
    BY <2>2, <2>5, <2>7, <2>8, <2>9, <2>13, <2>15, Assemble
<1>5. CASE ~SameGeneration(rec.gen)
  <2>1. UNCHANGED <<row, loaded>>
    BY <1>5 DEF LoadStarts
  <2>2. TableStep
    BY <1>1, <2>1, TableSame DEF LifecycleInv
  <2>3. CASE req[r].op = "reconcile"
    <3>1. Goto(r, "sweep") /\ mu' = [mu EXCEPT ![n] = r]
      BY <1>0, <1>5, <2>3 DEF LoadStarts
    <3>2. /\ OnlyOf(r) /\ req'[r] \in Frames /\ req'[r].pc = "sweep"
          /\ req'[r].op = req[r].op /\ req'[r].node = req[r].node /\ req'[r].next = req[r].next
          /\ req'[r].rec = req[r].rec /\ req'[r].old = req[r].old
      BY <1>1, <3>1, GotoFields DEF Points
    <3>3. Knows(req'[r])
      BY <1>1, <1>2, <3>2 DEF Knows, Leads, Took
    <3>4. Locks(r, req[r])'
      BY <1>0, <1>2, <3>1, <3>2 DEF Locks, Leads, Holds, MemoryOK
    <3> QED
      BY <1>0, <1>1, <1>3, <2>1, <2>2, <3>1, <3>2, <3>3, <3>4, QuietMove DEF memoryVars, Took
  <2>4. CASE req[r].op # "reconcile"
    BY <1>1, <1>3, <1>5, <2>1, <2>2, <2>4, QuietEnd DEF LoadStarts, Finish, memoryVars
  <2> QED
    BY <2>3, <2>4
<1> QED
  BY <1>4, <1>5

\* Enable takes its candidate back and ends: what it restores is what is
\* published, if anything is.
LEMMA RollbackStep ==
  ASSUME LifecycleInv, NEW r \in Requests, req[r] # Idle, req[r].pc = "mark",
         TableStep, UNCHANGED <<published, orphan>>, RollbackCandidate(r, req[r].node), Finish(r)
  PROVE  InvStep
<1>0. PICK n \in Nodes : n = req[r].node
  BY StepFacts
<1>1. /\ req[r] \in Frames /\ Knows(req[r]) /\ Locks(r, req[r])
      /\ req \in [Requests -> Frames \cup {Idle}] /\ MemoryOK
  BY StepFacts
<1>2. mu[n] = r /\ loaded[n] \in Runtimes /\ req[r].old \in Runtimes \cup {NoRuntime}
  BY <1>0, <1>1 DEF Locks, Leads, Holds, MemoryOK, Frames
<1>3. OnlyOf(r) /\ req'[r] = Idle /\ RequestOK(r)'
  BY EndFields DEF Finish
<1>4. mu' = Leave(r, n) /\ mu'[n] = NoRequest
  BY <1>0, <1>1, <1>2 DEF Finish, Leave, Holds, MemoryOK
<1>5. PICK restore \in displaced[n] \cup {req[r].old, loaded[n]} :
         /\ loaded' = [loaded EXCEPT ![n] = restore]
         /\ displaced[n] # {} => restore \in displaced[n]
         /\ displaced[n] = {} =>
               restore = IF Reenabled(r) /\ published[n] # NoRuntime THEN loaded[n] ELSE req[r].old
         /\ \/ published[n] # NoRuntime /\ UNCHANGED displaced
            \/ displaced' = [displaced EXCEPT ![n] = {}]
         /\ published[n] # NoRuntime => displaced'[n] = {}
  <2>1. CASE displaced[n] = {} /\ Reenabled(r) /\ published[n] # NoRuntime
    <3>1. loaded' = [loaded EXCEPT ![n] = loaded[n]] /\ UNCHANGED displaced
      BY <1>0, <1>1, <2>1 DEF RollbackCandidate, MemoryOK
    <3> QED
      BY <1>1, <2>1, <3>1 DEF MemoryOK
  <2>2. CASE ~(displaced[n] = {} /\ Reenabled(r) /\ published[n] # NoRuntime)
    <3>1. /\ \E restore \in IF displaced[n] = {} THEN {req[r].old} ELSE displaced[n] :
                loaded' = [loaded EXCEPT ![n] = restore]
          /\ displaced' = [displaced EXCEPT ![n] = {}]
      BY <1>0, <2>2, Zenon DEF RollbackCandidate
    <3>2. displaced'[n] = {}
      BY <1>1, <3>1 DEF MemoryOK
    <3>3. PICK restore \in IF displaced[n] = {} THEN {req[r].old} ELSE displaced[n] :
                loaded' = [loaded EXCEPT ![n] = restore]
      BY <3>1, Zenon
    <3>4. /\ restore \in displaced[n] \cup {req[r].old, loaded[n]}
          /\ displaced[n] # {} => restore \in displaced[n]
          /\ displaced[n] = {} => restore = req[r].old
      BY <3>3
    <3> QED
      BY <2>2, <3>1, <3>2, <3>3, <3>4
  <2> QED
    BY <2>1, <2>2
<1>6. /\ loaded'[n] = restore /\ \A m \in Nodes \ {n} : loaded'[m] = loaded[m]
      /\ displaced' \in [Nodes -> SUBSET Runtimes]
      /\ \A m \in Nodes \ {n} : displaced'[m] = displaced[m]
      /\ \A m \in Nodes : displaced'[m] \subseteq displaced[m]
  BY <1>1, <1>5 DEF MemoryOK
<1>7. restore \in Runtimes \cup {NoRuntime} /\ (restore # NoRuntime => Genuine(restore))
  BY <1>1, <1>2, <1>5, LifecycleAssumption DEF MemoryOK, Knows, Runtimes
<1>8. Others(r) /\ mu' \in [Nodes -> Requests \cup {NoRequest}]
  BY <1>1, <1>2, <1>4, <1>6, MuStep DEF Enters, Holds
<1>9. loaded' \in [Nodes -> Runtimes \cup {NoRuntime}]
  BY <1>1, <1>5, <1>7 DEF MemoryOK
<1>10. MemoryOK'
  BY <1>1, <1>6, <1>7, <1>8, <1>9, GenuineKept DEF MemoryOK, TableStep
<1>11. HeldOK(n)'
  <2> SUFFICES ASSUME published[n] # NoRuntime, ~orphan[n]
               PROVE  displaced'[n] = {} /\ IsPublished(n, restore)
    BY <1>4, <1>6, LifecycleAssumption DEF HeldOK, Replacing, IsPublished
  <2>1. HeldOK(n)
    BY <1>1 DEF LifecycleInv
  <2>2. CASE displaced[n] # {}
    BY <1>5, <2>1, <2>2 DEF HeldOK
  <2>3. CASE displaced[n] = {} /\ Took(req[r])
    <3>1. IsPublished(n, req[r].old) /\ req[r].old # NoRuntime
      BY <1>0, <1>1, <1>2, <2>1, <2>3, FrameNotIdle DEF HeldOK, Replacing, IsPublished
    <3>2. req[r].next = "mark"
      BY <1>1, <3>1 DEF Knows
    <3> QED
      BY <1>5, <2>3, <3>1, <3>2 DEF Reenabled
  <2>4. CASE displaced[n] = {} /\ ~Took(req[r])
    <3>1. \A q \in Requests : ~Replacing(q, n)
      BY <1>2, <2>4 DEF Replacing
    <3>2. IsPublished(n, loaded[n])
      BY <2>1, <2>4, <3>1 DEF HeldOK
    <3>3. restore = loaded[n]
      BY <1>5, <2>4 DEF Reenabled, Took
    <3> QED
      BY <1>5, <3>2, <3>3
  <2> QED
    BY <2>2, <2>3, <2>4
<1>12. \A m \in Nodes : HeldOK(m)'
  BY <1>0, <1>1, <1>3, <1>6, <1>8, <1>11, HeldElsewhere DEF LifecycleInv
<1> QED
  BY <1>3, <1>8, <1>10, <1>12, Assemble

\* Reconcile goes on to sweep what it could not enable.
LEMMA MarkToSweep ==
  ASSUME LifecycleInv, NEW r \in Requests, req[r] # Idle, req[r].pc = "mark",
         TableStep, UNCHANGED <<memoryVars, mu>>, Goto(r, "sweep")
  PROVE  InvStep
<1>1. req[r] \in Frames /\ Knows(req[r]) /\ Locks(r, req[r])
  BY StepFacts
<1>2. /\ OnlyOf(r) /\ req'[r] \in Frames /\ req'[r].pc = "sweep"
      /\ req'[r].op = req[r].op /\ req'[r].node = req[r].node /\ req'[r].next = req[r].next
      /\ req'[r].rec = req[r].rec /\ req'[r].old = req[r].old
  BY GotoFields DEF Points
<1>3. Knows(req'[r])
  BY <1>1, <1>2 DEF Knows, Leads, Took
<1>4. Locks(r, req[r])'
  BY <1>1, <1>2 DEF Locks, Leads, Holds
<1> QED
  BY <1>2, <1>3, <1>4, PlainMove

\* A plugin without an extension point.
LEMMA RegistersNothingInv ==
  ASSUME LifecycleInv, NEW r \in Requests, RegistersNothing(r)
  PROVE  InvStep
<1>1. /\ req[r] # Idle /\ req[r].pc = "mark" /\ UNCHANGED <<snapshots, published, orphan>>
      /\ MarkRuntimeIfDesiredGeneration(req[r].rec.gen, "failed", NoArtifact, req[r].rec.applied)
  BY DEF RegistersNothing
<1>2. req[r].rec \in Reads
  BY <1>1, StepFacts DEF Knows
<1>3. TableStep
  BY <1>1, <1>2, TableMarked
  DEF MarkRuntimeIfDesiredGeneration, LifecycleInv, Reads, RuntimeStates
<1>4. CASE req[r].op = "enable"
  BY <1>1, <1>3, <1>4, RollbackStep DEF RegistersNothing
<1>5. CASE req[r].op # "enable"
  BY <1>1, <1>3, <1>5, MarkToSweep DEF RegistersNothing, memoryVars
<1> QED
  BY <1>4, <1>5

\* The claim that the loaded runtime is enabled.
LEMMA MarkEnabledInv ==
  ASSUME LifecycleInv, NEW r \in Requests, MarkEnabled(r)
  PROVE  InvStep
<1> DEFINE n == req[r].node
           rt == loaded[n]
<1>1. /\ req[r] # Idle /\ req[r].pc = "mark" /\ UNCHANGED <<snapshots, published, orphan>>
      /\ MarkRuntimeIfDesiredGeneration(rt.gen, "enabled", rt.art, rt.gen)
  BY DEF MarkEnabled
<1>2. /\ req[r] \in Frames /\ Knows(req[r]) /\ Locks(r, req[r]) /\ n \in Nodes
      /\ MemoryOK
  BY <1>1, StepFacts
<1>3. rt \in Runtimes /\ Genuine(rt)
  BY <1>1, <1>2 DEF Locks, Leads, MemoryOK
<1>4. TableStep
  BY <1>1, <1>3, TableEnabled DEF LifecycleInv
<1>5. CASE SameGeneration(rt.gen)
  <2>1. /\ req' = [req EXCEPT ![r].pc = "record", ![r].next = "publish"]
        /\ UNCHANGED <<memoryVars, mu>>
    BY <1>1, <1>5 DEF MarkEnabled, memoryVars
  <2>2. /\ OnlyOf(r) /\ req'[r] \in Frames /\ req'[r].pc = "record" /\ req'[r].next = "publish"
        /\ req'[r].op = req[r].op /\ req'[r].node = req[r].node
        /\ req'[r].rec = req[r].rec /\ req'[r].old = req[r].old
    BY <1>1, <2>1, RecordFields DEF Nexts
  <2>3. Knows(req'[r])
    BY <1>1, <1>2, <2>2 DEF Knows, Leads, Took
  <2>4. Locks(r, req[r])'
    BY <1>1, <1>2, <2>1, <2>2 DEF Locks, Leads, Holds
  <2> QED
    BY <1>1, <1>4, <2>1, <2>2, <2>3, <2>4, PlainMove
<1>6. CASE ~SameGeneration(rt.gen) /\ req[r].op = "enable"
  BY <1>1, <1>4, <1>6, RollbackStep DEF MarkEnabled
<1>7. CASE ~SameGeneration(rt.gen) /\ req[r].op # "enable"
  BY <1>1, <1>4, <1>7, MarkToSweep DEF MarkEnabled, memoryVars
<1> QED
  BY <1>5, <1>6, <1>7

\* A request that leaves nothing published at its node, by itself under m.mu
\* or while nobody holds it.
LEMMA ClearedStep ==
  ASSUME LifecycleInv, NEW r \in Requests, req[r] # Idle, NEW n \in Nodes, n = req[r].node,
         TableStep, Enters(r, n), mu' = mu \/ mu' = Leave(r, n),
         published' = [published EXCEPT ![n] = NoRuntime], orphan' = [orphan EXCEPT ![n] = FALSE],
         loaded' = loaded \/ loaded' = [loaded EXCEPT ![n] = NoRuntime],
         displaced' = displaced \/ displaced' = [displaced EXCEPT ![n] = {}],
         OnlyOf(r), req'[r] \in Frames \cup {Idle}, req'[r] # Idle => req'[r].node = n,
         RequestOK(r)'
  PROVE  InvStep
<1>1. MemoryOK
  BY DEF LifecycleInv
<1>2. /\ published'[n] = NoRuntime
      /\ orphan' \in [Nodes -> BOOLEAN]
      /\ \A m \in Nodes \ {n} :
            /\ published'[m] = published[m] /\ displaced'[m] = displaced[m]
            /\ loaded'[m] = loaded[m] /\ orphan'[m] = orphan[m]
  BY <1>1 DEF MemoryOK
<1>3. Others(r) /\ mu' \in [Nodes -> Requests \cup {NoRequest}]
  BY <1>1, <1>2, MuStep
<1>4. MemoryOK'
  BY <1>1, <1>2, <1>3, GenuineKept DEF MemoryOK, TableStep
<1>5. HeldOK(n)'
  BY <1>2 DEF HeldOK
<1>6. \A m \in Nodes : HeldOK(m)'
  BY <1>2, <1>3, <1>5, HeldElsewhere DEF LifecycleInv
<1> QED
  BY <1>3, <1>4, <1>6, Assemble

\* Reconcile drops a plugin it did not retain.
LEMMA SweepInv ==
  ASSUME LifecycleInv, NEW r \in Requests, Sweep(r)
  PROVE  InvStep
<1>0. PICK n \in Nodes : n = req[r].node
  BY StepFacts DEF Sweep
<1>1. /\ req[r] # Idle /\ req[r].pc = "sweep" /\ Finish(r) /\ UNCHANGED <<row, snapshots>>
      /\ published' = [published EXCEPT ![n] = NoRuntime] /\ orphan' = [orphan EXCEPT ![n] = FALSE]
      /\ loaded' = [loaded EXCEPT ![n] = NoRuntime]
      /\ displaced' = [displaced EXCEPT ![n] = {}]
  BY <1>0 DEF Sweep, tableVars
<1>2. Enters(r, n)
  BY <1>0, <1>1, StepFacts DEF Locks, Leads, Enters
<1>3. TableStep
  BY <1>1, TableSame DEF LifecycleInv
<1>4. /\ OnlyOf(r) /\ req'[r] = Idle /\ RequestOK(r)' /\ mu' = Leave(r, n)
  BY <1>0, <1>1, EndFields DEF Finish
<1> QED
  BY <1>0, <1>1, <1>2, <1>3, <1>4, ClearedStep

\* Disable and Delete drop the plugin's runtimes.
LEMMA RemoveInv ==
  ASSUME LifecycleInv, NEW r \in Requests, Remove(r)
  PROVE  InvStep
<1>0. PICK n \in Nodes : n = req[r].node
  BY StepFacts DEF Remove
<1>1. /\ req[r] # Idle /\ req[r].pc = "remove" /\ UNCHANGED <<snapshots, mu>>
      /\ published' = [published EXCEPT ![n] = NoRuntime] /\ orphan' = [orphan EXCEPT ![n] = FALSE]
      /\ loaded' = [loaded EXCEPT ![n] = NoRuntime]
      /\ displaced' = [displaced EXCEPT ![n] = {}]
  BY <1>0 DEF Remove
<1>2. /\ req[r] \in Frames /\ Knows(req[r]) /\ Locks(r, req[r])
  BY <1>1, StepFacts
<1>3. /\ req[r].rec \in Reads /\ req[r].old = NoRuntime /\ Enters(r, n) /\ mu[n] = r
      /\ req[r].op \notin {"advisory", "crash"} /\ Genuine(req[r].rec)
      /\ req[r].next \in {"done", "reload"}
  BY <1>0, <1>1, <1>2 DEF Knows, Leads, Took, Locks, Enters, Holds
<1>4. CASE req[r].op = "delete"
  <2>1. Goto(r, "upsert") /\ UNCHANGED row
    BY <1>4 DEF Remove
  <2>2. /\ OnlyOf(r) /\ req'[r] \in Frames /\ req'[r].pc = "upsert"
        /\ req'[r].op = req[r].op /\ req'[r].node = req[r].node /\ req'[r].next = req[r].next
        /\ req'[r].rec = req[r].rec /\ req'[r].want = req[r].want /\ req'[r].old = req[r].old
    BY <1>1, <2>1, GotoFields DEF Points
  <2>3. TableStep
    BY <1>1, <2>1, TableSame DEF LifecycleInv
  <2>4. Knows(req[r])'
    BY <1>1, <1>2, <1>3, <1>4, <2>2 DEF Knows, Leads, Took
  <2>5. Locks(r, req[r])'
    BY <1>0, <1>1, <1>3, <2>2 DEF Locks, Leads, Holds
  <2>6. RequestOK(r)'
    BY <2>2, <2>4, <2>5 DEF RequestOK
  <2> QED
    BY <1>0, <1>1, <1>3, <2>2, <2>3, <2>6, ClearedStep
<1>5. CASE req[r].op # "delete"
  <2>1. PICK runtime \in {"disabled", "draining"} :
              MarkRuntimeIfDesiredGeneration(req[r].rec.gen, runtime, NoArtifact, req[r].rec.gen)
    BY <1>5, Zenon DEF Remove
  <2>2. TableStep
    BY <1>1, <1>3, <2>1, TableMarked
    DEF MarkRuntimeIfDesiredGeneration, LifecycleInv, Reads, RuntimeStates
  <2>3. req' = [req EXCEPT ![r].pc = "record", ![r].next = "done"]
    BY <1>5 DEF Remove
  <2>4. /\ OnlyOf(r) /\ req'[r] \in Frames /\ req'[r].pc = "record" /\ req'[r].next = "done"
        /\ req'[r].op = req[r].op /\ req'[r].node = req[r].node
        /\ req'[r].rec = req[r].rec /\ req'[r].old = req[r].old
    BY <1>1, <2>3, RecordFields DEF Nexts
  <2>5. Knows(req'[r])
    BY <1>2, <1>3, <2>4 DEF Knows, Leads, Took
  <2>6. Knows(req[r])'
    BY <2>2, <2>5, GenuineKept DEF TableStep, Knows, Leads, Took
  <2>7. Locks(r, req[r])'
    BY <1>0, <1>1, <1>3, <2>4 DEF Locks, Leads, Holds
  <2>8. RequestOK(r)'
    BY <2>4, <2>6, <2>7 DEF RequestOK
  <2> QED
    BY <1>0, <1>1, <1>3, <2>2, <2>4, <2>8, ClearedStep
<1> QED
  BY <1>4, <1>5

\* The loaded runtime is published; nothing else is held.
LEMMA PublishInv ==
  ASSUME LifecycleInv, NEW r \in Requests, Publish(r)
  PROVE  InvStep
<1>0. PICK n \in Nodes : n = req[r].node
  BY StepFacts DEF Publish
<1>1. /\ req[r] # Idle /\ req[r].pc = "publish" /\ Finish(r) /\ UNCHANGED <<row, snapshots, loaded>>
      /\ published' = [published EXCEPT ![n] = loaded[n]] /\ orphan' = [orphan EXCEPT ![n] = FALSE]
      /\ displaced' = [displaced EXCEPT ![n] = {}]
  BY <1>0 DEF Publish, tableVars
<1>2. Locks(r, req[r]) /\ MemoryOK
  BY <1>1, StepFacts
<1>3. TableStep
  BY <1>1, TableSame DEF LifecycleInv
<1>4. /\ OnlyOf(r) /\ req'[r] = Idle /\ RequestOK(r)' /\ mu' = Leave(r, n)
  BY <1>0, <1>1, EndFields DEF Finish
<1>5. mu'[n] = NoRequest
  BY <1>0, <1>1, <1>2, <1>4 DEF Locks, Leads, Holds, Leave, MemoryOK
<1>6. Others(r) /\ mu' \in [Nodes -> Requests \cup {NoRequest}]
  BY <1>1, <1>2, <1>4, MuStep
<1>7. /\ published'[n] = loaded[n] /\ displaced'[n] = {}
      /\ orphan' \in [Nodes -> BOOLEAN]
      /\ \A m \in Nodes \ {n} :
            published'[m] = published[m] /\ displaced'[m] = displaced[m] /\ orphan'[m] = orphan[m]
  BY <1>1, <1>2 DEF MemoryOK
<1>8. MemoryOK'
  BY <1>1, <1>2, <1>3, <1>6, <1>7, GenuineKept DEF MemoryOK, TableStep
<1>9. HeldOK(n)'
  BY <1>1, <1>5, <1>7, LifecycleAssumption DEF HeldOK, Replacing, IsPublished
<1>10. \A m \in Nodes : HeldOK(m)'
  BY <1>0, <1>1, <1>4, <1>6, <1>7, <1>9, HeldElsewhere DEF LifecycleInv
<1> QED
  BY <1>3, <1>4, <1>6, <1>8, <1>10, Assemble

\* Load ends: what it replaced waits in displaced while it is published.
LEMMA SettleInv ==
  ASSUME LifecycleInv, NEW r \in Requests, Settle(r)
  PROVE  InvStep
<1>0. PICK n \in Nodes : n = req[r].node
  BY StepFacts DEF Settle
<1> DEFINE waits == req[r].old # NoRuntime /\ published[n] # NoRuntime /\ displaced[n] = {}
<1>1. /\ req[r] # Idle /\ req[r].pc = "settle" /\ Finish(r)
      /\ UNCHANGED <<row, snapshots, loaded, published, orphan>>
      /\ displaced' = IF waits THEN [displaced EXCEPT ![n] = {req[r].old}] ELSE displaced
  BY <1>0 DEF Settle, tableVars
<1>2. /\ req[r] \in Frames /\ Knows(req[r]) /\ Locks(r, req[r]) /\ MemoryOK
  BY <1>1, StepFacts
<1>3. TableStep
  BY <1>1, TableSame DEF LifecycleInv
<1>4. /\ OnlyOf(r) /\ req'[r] = Idle /\ RequestOK(r)' /\ mu' = Leave(r, n)
  BY <1>0, <1>1, EndFields DEF Finish
<1>5. mu[n] = r /\ mu'[n] = NoRequest
  BY <1>0, <1>1, <1>2, <1>4 DEF Locks, Leads, Holds, Leave, MemoryOK
<1>6. Others(r) /\ mu' \in [Nodes -> Requests \cup {NoRequest}]
  BY <1>1, <1>2, <1>4, MuStep
<1>7. req[r].old \in Runtimes \cup {NoRuntime} /\ (req[r].old # NoRuntime => Genuine(req[r].old))
  BY <1>2 DEF Knows, Frames
<1>8. /\ displaced'[n] = IF waits THEN {req[r].old} ELSE displaced[n]
      /\ \A m \in Nodes \ {n} : displaced'[m] = displaced[m]
      /\ displaced' \in [Nodes -> SUBSET Runtimes]
  BY <1>1, <1>2, <1>7 DEF MemoryOK
<1>9. \A m \in Nodes : \A rt \in displaced'[m] : Genuine(rt)
  BY <1>2, <1>7, <1>8 DEF MemoryOK
<1>10. MemoryOK'
  BY <1>1, <1>2, <1>3, <1>6, <1>8, <1>9, GenuineKept DEF MemoryOK, TableStep
<1>11. HeldOK(n)'
  <2> SUFFICES ASSUME published[n] # NoRuntime, ~orphan[n] PROVE HeldOK(n)'
    BY <1>1 DEF HeldOK
  <2>1. HeldOK(n)
    BY DEF LifecycleInv
  <2>2. \A rt : IsPublished(n, rt)' <=> IsPublished(n, rt)
    BY <1>1 DEF IsPublished
  <2>3. IsPublished(n, loaded[n])' <=> IsPublished(n, loaded[n])
    BY <1>1 DEF IsPublished
  <2>4. \A q \in Requests : ~Replacing(q, n)'
    BY <1>5, LifecycleAssumption DEF Replacing
  <2>5. CASE waits
    <3>1. IsPublished(n, req[r].old)
      BY <1>0, <1>1, <1>5, <2>1, <2>5 DEF HeldOK, Replacing, Took
    <3> QED
      BY <1>1, <1>8, <2>2, <2>5, <3>1 DEF HeldOK
  <2>6. CASE ~waits /\ displaced[n] # {}
    BY <1>1, <1>8, <2>1, <2>2, <2>6 DEF HeldOK
  <2>7. CASE ~waits /\ displaced[n] = {}
    <3>1. ~IsPublished(n, NoRuntime)
      BY DEF IsPublished
    <3>2. \A q \in Requests : ~Replacing(q, n)
      BY <1>5, <2>1, <2>7, <3>1 DEF Replacing, HeldOK
    <3> QED
      BY <1>1, <1>8, <2>1, <2>3, <2>4, <2>7, <3>2 DEF HeldOK
  <2> QED
    BY <2>5, <2>6, <2>7
<1>12. \A m \in Nodes : HeldOK(m)'
  BY <1>0, <1>1, <1>4, <1>6, <1>8, <1>11, HeldElsewhere DEF LifecycleInv
<1> QED
  BY <1>3, <1>4, <1>6, <1>10, <1>12, Assemble

-----------------------------------------------------------------------------
(* Advisories, crashed hosts, restarts.                                     *)

\* The list that an advisory works from.
LEMMA ListPluginsInv ==
  ASSUME LifecycleInv, NEW r \in Requests, ListPlugins(r)
  PROVE  InvStep
<1> DEFINE hit == Visible /\ row.runtime = "enabled" /\ row.active = req[r].rec.art
<1>1. /\ req[r] # Idle /\ req[r].pc = "list" /\ UNCHANGED <<row, snapshots, memoryVars, mu>>
      /\ req' = [req EXCEPT ![r] =
            IF hit THEN [@ EXCEPT !.pc = "quarantine", !.rec.applied = row.applied] ELSE Idle]
  BY DEF ListPlugins, tableVars
<1>2. /\ req[r] \in Frames /\ Knows(req[r]) /\ Locks(r, req[r])
      /\ req \in [Requests -> Frames \cup {Idle}] /\ TableOK
  BY <1>1, StepFacts
<1>3. TableStep
  BY <1>1, TableSame DEF LifecycleInv
<1>4. req[r].old = NoRuntime /\ req[r].next # "mark" /\ Quiet(req[r]) /\ req[r].rec \in Reads
  BY <1>1, <1>2 DEF Knows, Leads, Took, Quiet
<1>5. CASE ~hit
  BY <1>1, <1>3, <1>4, <1>5, QuietEnd
<1>6. CASE hit
  <2>1. /\ OnlyOf(r)
        /\ req'[r] = [req[r] EXCEPT !.pc = "quarantine", !.rec.applied = row.applied]
    BY <1>1, <1>2, <1>6 DEF OnlyOf
  <2>2. /\ req'[r].pc = "quarantine" /\ req'[r].rec = [req[r].rec EXCEPT !.applied = row.applied]
        /\ req'[r].op = req[r].op /\ req'[r].node = req[r].node /\ req'[r].next = req[r].next
        /\ req'[r].want = req[r].want /\ req'[r].old = req[r].old
    BY <1>2, <2>1 DEF Frames
  <2>3. /\ req'[r].rec \in Reads
        /\ req'[r].rec.gen = req[r].rec.gen /\ req'[r].rec.art = req[r].rec.art
    BY <1>2, <1>4, <2>2 DEF Reads, TableOK, Rows
  <2>4. req'[r] \in Frames
    BY <1>2, <2>1, <2>3 DEF Frames, Points
  <2>5. Knows(req'[r])
    BY <1>1, <1>2, <2>2, <2>3 DEF Knows, Leads, Took, Genuine
  <2>6. Locks(r, req[r])'
    BY <1>1, <1>2, <2>2 DEF Locks, Leads, Holds
  <2> QED
    BY <1>1, <1>3, <2>1, <2>2, <2>4, <2>5, <2>6, PlainMove
<1> QED
  BY <1>5, <1>6

\* The quarantine of what the list named.
LEMMA QuarantineInv ==
  ASSUME LifecycleInv, NEW r \in Requests, Quarantine(r)
  PROVE  InvStep
<1>0. PICK n \in Nodes : n = req[r].node
  BY StepFacts DEF Quarantine
<1>1. /\ req[r] # Idle /\ req[r].pc = "quarantine" /\ Free(n)
      /\ UNCHANGED <<snapshots, loaded, displaced, mu>>
      /\ published' = [published EXCEPT ![n] = NoRuntime] /\ orphan' = [orphan EXCEPT ![n] = FALSE]
      /\ row' = Marked("draining", req[r].rec.art, req[r].rec.applied)
      /\ req' = [req EXCEPT ![r] = Idle]
  BY <1>0 DEF Quarantine
<1>2. req[r].rec \in Reads
  BY <1>1, StepFacts DEF Knows
<1>3. TableStep
  BY <1>1, <1>2, TableMarked DEF LifecycleInv, Reads, RuntimeStates
<1>4. OnlyOf(r) /\ req'[r] = Idle /\ RequestOK(r)'
  BY <1>1, EndFields
<1> QED
  BY <1>0, <1>1, <1>3, <1>4, ClearedStep DEF Enters

\* The isolation of a crashed host, in memory.
LEMMA IsolateInv ==
  ASSUME LifecycleInv, NEW r \in Requests, Isolate(r)
  PROVE  InvStep
<1>0. PICK n \in Nodes : n = req[r].node
  BY StepFacts DEF Isolate
<1> DEFINE gen == IF loaded[n] = NoRuntime THEN 0 ELSE loaded[n].gen
<1>1. /\ req[r] # Idle /\ req[r].pc = "isolate" /\ Free(n)
      /\ UNCHANGED <<row, snapshots, displaced, mu>>
      /\ published' = [published EXCEPT ![n] = NoRuntime] /\ orphan' = [orphan EXCEPT ![n] = FALSE]
      /\ loaded' = [loaded EXCEPT ![n] = NoRuntime]
      /\ req' = [req EXCEPT ![r].pc = "isolated", ![r].rec.applied = gen]
  BY <1>0 DEF Isolate, tableVars
<1>2. /\ req[r] \in Frames /\ Knows(req[r]) /\ Locks(r, req[r])
      /\ req \in [Requests -> Frames \cup {Idle}] /\ MemoryOK
  BY <1>1, StepFacts
<1>3. TableStep
  BY <1>1, TableSame DEF LifecycleInv
<1>4. req[r].rec \in Reads /\ gen \in Nat
  BY <1>1, <1>2 DEF Knows, MemoryOK, Runtimes
<1> HIDE DEF gen
<1>5. OnlyOf(r) /\ req'[r] = [req[r] EXCEPT !.pc = "isolated", !.rec.applied = gen]
  BY <1>1, <1>2 DEF OnlyOf
<1>6. /\ req'[r].pc = "isolated" /\ req'[r].rec = [req[r].rec EXCEPT !.applied = gen]
      /\ req'[r].op = req[r].op /\ req'[r].node = n /\ req'[r].next = req[r].next
      /\ req'[r].want = req[r].want /\ req'[r].old = req[r].old
  BY <1>0, <1>2, <1>5 DEF Frames
<1>7. /\ req'[r].rec \in Reads
      /\ req'[r].rec.gen = req[r].rec.gen /\ req'[r].rec.art = req[r].rec.art
  BY <1>4, <1>6 DEF Reads
<1>8. req'[r] \in Frames
  BY <1>2, <1>5, <1>7 DEF Frames, Points
<1>9. Knows(req'[r])
  BY <1>1, <1>2, <1>6, <1>7 DEF Knows, Leads, Took, Genuine
<1>10. Knows(req[r])'
  BY <1>3, <1>9, GenuineKept DEF TableStep, Knows, Leads, Took
<1>11. Locks(r, req[r])'
  BY <1>0, <1>1, <1>2, <1>6 DEF Locks, Leads, Holds
<1>12. RequestOK(r)'
  BY <1>8, <1>10, <1>11 DEF RequestOK
<1> QED
  BY <1>0, <1>1, <1>3, <1>5, <1>6, <1>8, <1>12, ClearedStep DEF Enters

\* The isolation in the table: the claim is withdrawn.
LEMMA IsolateMarksInv ==
  ASSUME LifecycleInv, NEW r \in Requests, IsolateMarks(r)
  PROVE  InvStep
<1> DEFINE gen == IF req[r].rec.applied = 0 THEN row.applied ELSE req[r].rec.applied
<1>1. /\ req[r] # Idle /\ req[r].pc = "isolated" /\ UNCHANGED <<snapshots, memoryVars, mu>>
      /\ row' = Marked("failed", req[r].rec.art, gen)
      /\ req' = [req EXCEPT ![r].pc = "record", ![r].next = "done"]
  BY DEF IsolateMarks
<1>2. /\ req[r] \in Frames /\ Knows(req[r]) /\ Locks(r, req[r]) /\ TableOK
  BY <1>1, StepFacts
<1>3. req[r].rec \in Reads /\ gen \in Nat
  BY <1>1, <1>2 DEF Knows, TableOK, Rows, Reads
<1> HIDE DEF gen
<1>4. TableStep
  BY <1>1, <1>3, TableMarked DEF LifecycleInv, Reads, RuntimeStates
<1>5. /\ OnlyOf(r) /\ req'[r] \in Frames /\ req'[r].pc = "record" /\ req'[r].next = "done"
      /\ req'[r].op = req[r].op /\ req'[r].node = req[r].node
      /\ req'[r].rec = req[r].rec /\ req'[r].old = req[r].old
  BY <1>1, RecordFields DEF Nexts
<1>6. Knows(req'[r])
  BY <1>1, <1>2, <1>5 DEF Knows, Leads, Took
<1>7. Locks(r, req[r])'
  BY <1>1, <1>2, <1>5 DEF Locks, Leads, Holds
<1> QED
  BY <1>1, <1>4, <1>5, <1>6, <1>7, PlainMove

\* A trapping WASM runtime leaves the snapshot.
LEMMA TrapQuarantineInv ==
  ASSUME LifecycleInv, NEW n \in Nodes, TrapQuarantine(n)
  PROVE  InvStep
<1>1. /\ loaded[n] # NoRuntime /\ UNCHANGED <<snapshots, loaded, displaced, mu, req>>
      /\ published' = [published EXCEPT ![n] = NoRuntime] /\ orphan' = [orphan EXCEPT ![n] = FALSE]
      /\ row' = IF Visible THEN Marked("draining", loaded[n].art, row.applied) ELSE row
  BY DEF TrapQuarantine
<1>2. TableOK /\ MemoryOK /\ RequestsOK /\ EnabledNamesItsArtifact
  BY DEF LifecycleInv
<1>3. TableStep
  BY <1>1, <1>2, TableMarked DEF MemoryOK, TableOK, Rows, Runtimes, RuntimeStates
<1>4. MemoryOK'
  BY <1>1, <1>2, <1>3, GenuineKept DEF MemoryOK, TableStep
<1>5. RequestsOK'
  <2> SUFFICES ASSUME NEW q \in Requests, req[q] # Idle
               PROVE  Knows(req[q])' /\ Locks(q, req[q])'
    BY <1>1, <1>2 DEF RequestsOK, RequestOK
  <2>1. Knows(req[q]) /\ Locks(q, req[q])
    BY <1>2 DEF RequestsOK, RequestOK
  <2> QED
    BY <1>1, <1>3, <2>1, GenuineKept DEF TableStep, Knows, Leads, Took, Locks, Holds
<1>6. ASSUME NEW m \in Nodes PROVE HeldOK(m)'
  <2>1. published'[m] = NoRuntime \/ (published'[m] = published[m] /\ orphan'[m] = orphan[m])
    BY <1>1, <1>2 DEF MemoryOK
  <2>2. CASE published'[m] = NoRuntime
    BY <2>2 DEF HeldOK
  <2>3. CASE published'[m] = published[m] /\ orphan'[m] = orphan[m]
    <3>1. \A q \in Requests : Replacing(q, m)' <=> Replacing(q, m)
      BY <1>1 DEF Replacing, Took
    <3>2. \A rt : IsPublished(m, rt)' <=> IsPublished(m, rt)
      BY <2>3 DEF IsPublished
    <3>3. IsPublished(m, loaded[m])' <=> IsPublished(m, loaded[m])
      BY <1>1, <2>3 DEF IsPublished
    <3> QED
      BY <1>1, <2>3, <3>1, <3>2, <3>3 DEF HeldOK, LifecycleInv
  <2> QED
    BY <2>1, <2>2, <2>3
<1> QED
  BY <1>3, <1>4, <1>5, <1>6 DEF InvStep, LifecycleInv, TableStep

\* A node starts again with empty memory and no request.
LEMMA RestartInv ==
  ASSUME LifecycleInv, NEW n \in Nodes, Restart(n)
  PROVE  InvStep
<1>1. /\ UNCHANGED <<row, snapshots>>
      /\ loaded' = [loaded EXCEPT ![n] = NoRuntime]
      /\ published' = [published EXCEPT ![n] = NoRuntime] /\ orphan' = [orphan EXCEPT ![n] = FALSE]
      /\ displaced' = [displaced EXCEPT ![n] = {}]
      /\ mu' = [mu EXCEPT ![n] = NoRequest]
      /\ req' = [r \in Requests |-> IF req[r] # Idle /\ req[r].node = n THEN Idle ELSE req[r]]
  BY DEF Restart, tableVars
<1>2. TableOK /\ MemoryOK /\ RequestsOK /\ EnabledNamesItsArtifact
  BY DEF LifecycleInv
<1>3. TableStep
  BY <1>1, <1>2, TableSame
<1>4. MemoryOK'
  BY <1>1, <1>2, <1>3, GenuineKept DEF MemoryOK, TableStep
<1>5. /\ published'[n] = NoRuntime
      /\ \A m \in Nodes \ {n} :
            /\ published'[m] = published[m] /\ displaced'[m] = displaced[m]
            /\ loaded'[m] = loaded[m] /\ orphan'[m] = orphan[m] /\ mu'[m] = mu[m]
  BY <1>1, <1>2 DEF MemoryOK
<1>6. RequestsOK'
  <2>1. req' \in [Requests -> Frames \cup {Idle}]
    BY <1>1, <1>2 DEF RequestsOK
  <2> SUFFICES ASSUME NEW q \in Requests, req[q] # Idle, req[q].node # n, req'[q] = req[q]
               PROVE  req[q] \in Frames /\ Knows(req[q])' /\ Locks(q, req[q])'
    BY <1>1, <2>1 DEF RequestsOK, RequestOK
  <2>2. req[q] \in Frames /\ Knows(req[q]) /\ Locks(q, req[q]) /\ req[q].node \in Nodes
    BY StepFacts
  <2>3. Knows(req[q])'
    BY <1>3, <2>2, GenuineKept DEF TableStep, Knows, Leads, Took
  <2>4. Locks(q, req[q])'
    BY <1>5, <2>2 DEF Locks, Leads, Holds
  <2> QED
    BY <2>2, <2>3, <2>4
<1>7. ASSUME NEW m \in Nodes PROVE HeldOK(m)'
  <2>1. CASE m = n
    BY <1>5, <2>1 DEF HeldOK
  <2>2. CASE m # n
    <3>1. /\ \A q \in Requests : Replacing(q, m)' <=> Replacing(q, m)
          /\ \A q \in Requests : Replacing(q, m) => req'[q] = req[q]
      BY <1>1, <1>5, <2>2 DEF Replacing
    <3>2. \A rt : IsPublished(m, rt)' <=> IsPublished(m, rt)
      BY <1>5, <2>2 DEF IsPublished
    <3>3. IsPublished(m, loaded[m])' <=> IsPublished(m, loaded[m])
      BY <1>5, <2>2 DEF IsPublished
    <3> QED
      BY <1>5, <2>2, <3>1, <3>2, <3>3 DEF HeldOK, LifecycleInv
  <2> QED
    BY <2>1, <2>2
<1> QED
  BY <1>3, <1>4, <1>6, <1>7 DEF InvStep, LifecycleInv, TableStep

-----------------------------------------------------------------------------
(* The theorems.                                                            *)

\* A plugin that was just installed.
LEMMA LifecycleInitInv == LifecycleInit => LifecycleInv /\ Register!RegisterInit
<1> SUFFICES ASSUME LifecycleInit PROVE LifecycleInv /\ Register!RegisterInit
  OBVIOUS
<1>1. /\ row \in Rows /\ row.gen = 1 /\ row.runtime = "disabled" /\ row.state = "disabled"
      /\ row.art \in Artifacts /\ row.cfg \in Configs
  BY DEF LifecycleInit, Rows, States, RuntimeStates
<1>2. snapshots = <<>> /\ snapshots \in Seq(Wishes) /\ Len(snapshots) = 0
  BY DEF LifecycleInit
<1>3. TableOK /\ EnabledNamesItsArtifact
  BY <1>1, <1>2 DEF TableOK, EnabledNamesItsArtifact
<1>4. MemoryOK
  BY DEF LifecycleInit, MemoryOK
<1>5. RequestsOK
  BY DEF LifecycleInit, RequestsOK, RequestOK
<1>6. \A n \in Nodes : HeldOK(n)
  BY DEF LifecycleInit, HeldOK
<1>7. Register!RegisterInit
  BY <1>1, <1>2 DEF Register!RegisterInit, Register!Wishes, Register!NoClaim, Wish
<1> QED
  BY <1>3, <1>4, <1>5, <1>6, <1>7 DEF LifecycleInv

\* Every step of the lifecycle keeps the invariant and is a step of the
\* register or none.
LEMMA LifecycleNextInv ==
  ASSUME LifecycleInv, [LifecycleNext]_lifecycleVars
  PROVE  InvStep
<1>1. CASE UNCHANGED lifecycleVars
  <2>1. TableStep
    BY <1>1, TableSame DEF LifecycleInv, lifecycleVars
  <2>2. LifecycleInv'
    BY <1>1
    DEF LifecycleInv, lifecycleVars, TableOK, MemoryOK, Genuine, AskedArt, Asked, RequestsOK, RequestOK, Knows,
        Leads, Locks, Holds, HeldOK, IsPublished, Replacing, Took, EnabledNamesItsArtifact
  <2> QED
    BY <2>1, <2>2 DEF InvStep, TableStep
<1>2. ASSUME NEW r \in Requests, NEW n \in Nodes, Begin(r, n) PROVE InvStep
  BY <1>2, BeginInv
<1>3. ASSUME NEW r \in Requests, Step(r) PROVE InvStep
  BY <1>3, UpsertInv, UpsertFailsInv, ReadBackInv, RecordNodeStateInv, ReloadStartsInv,
     ReloadMarksInv, RereadInv, EvaluateReleaseGateInv, LoadReusesInv, LoadForgetsInv, LoadFailsInv, LoadStartsInv,
     RegistersNothingInv, MarkEnabledInv, PublishInv, SweepInv, SettleInv, RemoveInv,
     ListPluginsInv, QuarantineInv, IsolateInv, IsolateMarksInv, Zenon
  DEF Step
<1>4. ASSUME NEW n \in Nodes, Restart(n) \/ TrapQuarantine(n) PROVE InvStep
  BY <1>4, RestartInv, TrapQuarantineInv
<1> QED
  BY <1>1, <1>2, <1>3, <1>4, Zenon DEF LifecycleNext

\* The invariant of the lifecycle of one plugin: what the tables, the memory
\* of every node and every request in flight say of each other.
THEOREM LifecycleInvariant == LifecycleSpec => []LifecycleInv
<1>1. LifecycleInit => LifecycleInv
  BY LifecycleInitInv
<1>2. LifecycleInv /\ [LifecycleNext]_lifecycleVars => LifecycleInv'
  BY LifecycleNextInv DEF InvStep
<1> QED
  BY <1>1, <1>2, PTL DEF LifecycleSpec

\* The row and the snapshots of one plugin, written by UpsertDesired and the
\* marks of any number of nodes and requests, implement the register: no
\* generation is lost or reused, none loses its snapshot, and "enabled" is
\* only ever written of the current generation and its artifact.
THEOREM RowImplementsRegister == LifecycleSpec => RegisterRefined
<1>1. LifecycleInit => Register!RegisterInit
  BY LifecycleInitInv
<1>2. LifecycleInv /\ [LifecycleNext]_lifecycleVars => [Register!RegisterNext]_(Register!registerVars)
  BY LifecycleNextInv DEF InvStep, RegisterStep
<1> QED
  BY <1>1, <1>2, LifecycleInvariant, PTL DEF LifecycleSpec, RegisterRefined, Register!RegisterSpec

\* A row that says "enabled" names the artifact that the generation it says
\* was applied asked for (MarkRuntimeIfDesiredGeneration after loads that
\* began with a row read long before).
THEOREM EnabledNamesItsArtifactHolds == LifecycleSpec => []EnabledNamesItsArtifact
BY LifecycleInvariant, PTL DEF LifecycleInv

\* What is published on a node is loaded or displaced there whenever m.mu is
\* free, unless loadLocked forgot it for a crash loop (loadLocked, rollbackLoadedCandidateLocked, Load, quarantines).
THEOREM PublishedIsHeldAlways == LifecycleSpec => []PublishedIsHeld
<1>1. LifecycleInv => PublishedIsHeld
  <2> SUFFICES ASSUME LifecycleInv, NEW n \in Nodes, Free(n), published[n] # NoRuntime, ~orphan[n]
               PROVE  \E rt \in {loaded[n]} \cup displaced[n] : IsPublished(n, rt)
    BY DEF PublishedIsHeld
  <2>1. HeldOK(n) /\ \A r \in Requests : ~Replacing(r, n)
    BY LifecycleAssumption DEF LifecycleInv, Free, Replacing
  <2> QED
    BY <2>1 DEF HeldOK
<1> QED
  BY <1>1, LifecycleInvariant, PTL

=============================================================================
