------------------------ MODULE BackgroundTasksProofs ------------------------
(* A run that counts on its lease has the row behind it, for every number of *)
(* nodes, runtimes and goroutines and at every time.                         *)
EXTENDS BackgroundTasks, TLAPS

(* What a goroutine looks like at time t: before it has acquired, it has no  *)
(* lease and was not cancelled; a cancel reaches it in its body only; and it *)
(* believes in its lease for a TTL from now at most.                         *)
GoroutineShape(g, t) ==
    /\ g.pc \in {"off", "wait", "run", "acquire"} => ~g.leased
    /\ g.pc \in {"off", "wait", "run", "acquire", "setup"} => ~g.canceled
    /\ g.exp <= t + TTL

LeaseInvariant ==
    /\ TaskTypeOK
    /\ \A p \in Runtimes, s \in Slots : GoroutineShape(slot[p][s], now)
    /\ \A p \in Runtimes : cancel[p] # None => slot[p][cancel[p]].pc \in {"body", "finish"}
    /\ LeaseBacksRun

(* A goroutine that counts on its lease at the present time.                 *)
Counts(g) == g.pc \in {"setup", "body"} /\ g.leased /\ ~g.canceled /\ g.exp > now

(* The goroutines at rest are well formed.                                   *)
LEMMA AtRest ==
    ASSUME now \in Nat
    PROVE  /\ Off \in Goroutine /\ GoroutineShape(Off, now)
           /\ \A pc \in {"wait", "run"}, loop \in BOOLEAN :
                 LET g == [Off EXCEPT !.pc = pc, !.loop = loop]
                 IN  g \in Goroutine /\ g.pc = pc /\ GoroutineShape(g, now)
           /\ \A g \in Goroutine :
                 Return(g) \in Goroutine /\ Return(g).pc \in {"off", "wait"} /\ GoroutineShape(Return(g), now)
<1>0. 0 <= now + TTL
  BY BackgroundTasksAssumption
<1>1. Off \in Goroutine /\ GoroutineShape(Off, now)
  BY <1>0 DEF Off, Goroutine, Pc, GoroutineShape
<1>2. ASSUME NEW pc \in {"wait", "run"}, NEW loop \in BOOLEAN
      PROVE  LET g == [Off EXCEPT !.pc = pc, !.loop = loop]
             IN  g \in Goroutine /\ g.pc = pc /\ GoroutineShape(g, now)
  BY <1>0 DEF Off, Goroutine, Pc, GoroutineShape
<1>3. ASSUME NEW g \in Goroutine
      PROVE  Return(g) \in Goroutine /\ Return(g).pc \in {"off", "wait"} /\ GoroutineShape(Return(g), now)
  <2>1. CASE g.loop
    BY <1>2, <2>1 DEF Return
  <2>2. CASE ~g.loop
    BY <1>1, <2>2 DEF Return, Off
  <2>. QED  BY <2>1, <2>2
<1>. QED  BY <1>1, <1>2, <1>3

(* One goroutine moves, and neither gains a lease nor loses one it counts    *)
(* on; the row stays.                                                        *)
LEMMA OneGoroutineMoves ==
    ASSUME LeaseInvariant, NEW p \in Runtimes, NEW s \in Slots, NEW g \in Goroutine,
           slot' = [slot EXCEPT ![p][s] = g], GoroutineShape(g, now),
           g.exp = slot[p][s].exp \/ ~Counts(g),
           Counts(g) => Counts(slot[p][s]),
           UNCHANGED <<now, lease, stopped, on, active, closed, mgr, gcSeen, undercut, stops, crashes>>,
           running' \in [Runtimes -> BOOLEAN], runs' \in Nat,
           cancel' \in [Runtimes -> Slots \cup {None}],
           \A q \in Runtimes : cancel'[q] # None => slot'[q][cancel'[q]].pc \in {"body", "finish"}
    PROVE  LeaseInvariant'
<1>. USE DEF LeaseInvariant
<1>1. slot' \in [Runtimes -> [Slots -> Goroutine]]
  BY DEF TaskTypeOK
<1>2. \A q \in Runtimes, t \in Slots :
          slot'[q][t] = IF q = p /\ t = s THEN g ELSE slot[q][t]
  BY DEF TaskTypeOK
<1>3. TaskTypeOK'
  BY <1>1 DEF TaskTypeOK
<1>4. \A q \in Runtimes, t \in Slots : GoroutineShape(slot'[q][t], now')
  BY <1>2
<1>5. LeaseBacksRun'
  <2>. SUFFICES ASSUME ~undercut, NEW q \in Runtimes, NEW t \in Slots, Counts(slot'[q][t])
                PROVE  lease # NoLease /\ lease.owner = NodeOf[q] /\ lease.exp >= slot'[q][t].exp
    BY DEF LeaseBacksRun, Holds, Counts
  <2>1. Holds(q, t) /\ slot'[q][t].exp = slot[q][t].exp
    BY <1>2 DEF Holds, Counts
  <2>. QED  BY <2>1 DEF LeaseBacksRun
<1>. QED  BY <1>3, <1>4, <1>5

(* The invariant holds at the start.                                         *)
LEMMA TaskInitially == TaskInit => LeaseInvariant
<1>. SUFFICES ASSUME TaskInit PROVE LeaseInvariant
  OBVIOUS
<1>1. now \in Nat /\ \A p \in Runtimes, s \in Slots : slot[p][s] = Off
  BY DEF TaskInit
<1>2. Off \in Goroutine /\ GoroutineShape(Off, now)
  BY <1>1, AtRest
<1>3. TaskTypeOK
  BY <1>2 DEF TaskInit, TaskTypeOK, Lease
<1>4. LeaseBacksRun
  BY <1>1 DEF LeaseBacksRun, Holds, Off
<1>. QED  BY <1>1, <1>2, <1>3, <1>4 DEF LeaseInvariant, TaskInit

(* A goroutine that takes no lease and writes no row keeps the invariant.    *)
LEMMA LocalStep ==
    ASSUME LeaseInvariant, NEW p \in Runtimes, NEW s \in Slots,
           \/ TimerFires(p, s) \/ runTask(p, s) \/ setupRun(p, s) \/ attemptReturns(p, s)
    PROVE  LeaseInvariant'
<1>. USE BackgroundTasksAssumption
<1>0. /\ now \in Nat /\ slot[p][s] \in Goroutine /\ GoroutineShape(slot[p][s], now)
      /\ slot \in [Runtimes -> [Slots -> Goroutine]]
      /\ running \in [Runtimes -> BOOLEAN] /\ runs \in Nat
      /\ cancel \in [Runtimes -> Slots \cup {None}]
      /\ \A q \in Runtimes : cancel[q] # None => slot[q][cancel[q]].pc \in {"body", "finish"}
  BY DEF LeaseInvariant, TaskTypeOK
<1>1. ASSUME NEW g \in Goroutine, slot' = [slot EXCEPT ![p][s] = g],
             slot[p][s].pc \notin {"body", "finish"} \/ g.pc \in {"body", "finish"},
             cancel' = cancel
      PROVE  \A q \in Runtimes : cancel'[q] # None => slot'[q][cancel'[q]].pc \in {"body", "finish"}
  BY <1>0, <1>1
<1>2. CASE TimerFires(p, s)
  <2>. DEFINE g == IF ctxDone(p) \/ ~on[p] THEN Off ELSE [slot[p][s] EXCEPT !.pc = "run"]
  <2>1. g \in Goroutine /\ GoroutineShape(g, now) /\ ~Counts(g)
    <3>1. Off.pc = "off"
      BY DEF Off
    <3>. QED  BY <1>0, <1>2, <3>1, AtRest DEF TimerFires, Goroutine, Pc, GoroutineShape, Counts
  <2>2. slot' = [slot EXCEPT ![p][s] = g] /\ runs' \in Nat
    BY <1>0, <1>2 DEF TimerFires
  <2>3. slot[p][s].pc = "wait"
    BY <1>2 DEF TimerFires
  <2>. HIDE DEF g
  <2>. QED  BY <1>0, <1>1, <1>2, <2>1, <2>2, <2>3, OneGoroutineMoves DEF TimerFires
<1>3. CASE runTask(p, s)
  <2>. DEFINE g == IF MayNotRun(p) THEN Return(slot[p][s])
                   ELSE [slot[p][s] EXCEPT !.pc =
                           IF taskLeaseRequired(SpecOf[p].policy) THEN "acquire" ELSE "setup"]
  <2>1. g \in Goroutine /\ GoroutineShape(g, now) /\ ~Counts(g)
    BY <1>0, <1>3, AtRest DEF runTask, Goroutine, Pc, GoroutineShape, Counts
  <2>2. slot' = [slot EXCEPT ![p][s] = g] /\ running' \in [Runtimes -> BOOLEAN]
    BY <1>0, <1>3 DEF runTask
  <2>3. slot[p][s].pc = "run"
    BY <1>3 DEF runTask
  <2>. HIDE DEF g
  <2>. QED  BY <1>0, <1>1, <1>3, <2>1, <2>2, <2>3, OneGoroutineMoves DEF runTask
<1>4. CASE setupRun(p, s)
  <2>. DEFINE g == [slot[p][s] EXCEPT !.pc = "body", !.canceled = runCtx(p), !.attempt = 1]
  <2>0. runCtx(p) \in BOOLEAN
    BY DEF runCtx, ctxDone
  <2>1. g \in Goroutine /\ GoroutineShape(g, now) /\ g.exp = slot[p][s].exp /\ g.pc = "body"
    BY <1>0, <2>0 DEF Goroutine, Pc, GoroutineShape
  <2>2. Counts(g) => Counts(slot[p][s])
    BY <1>0, <1>4 DEF setupRun, Goroutine, GoroutineShape, Counts
  <2>3. slot' = [slot EXCEPT ![p][s] = g] /\ cancel' = [cancel EXCEPT ![p] = s]
    BY <1>4 DEF setupRun
  <2>. HIDE DEF g
  <2>4. /\ cancel' \in [Runtimes -> Slots \cup {None}]
        /\ \A q \in Runtimes : cancel'[q] # None => slot'[q][cancel'[q]].pc \in {"body", "finish"}
    BY <1>0, <2>1, <2>3
  <2>. QED  BY <1>0, <1>4, <2>1, <2>2, <2>3, <2>4, OneGoroutineMoves DEF setupRun
<1>5. CASE attemptReturns(p, s)
  <2>1. PICK g \in {[slot[p][s] EXCEPT !.pc = "finish"], [slot[p][s] EXCEPT !.attempt = @ + 1]} :
            slot' = [slot EXCEPT ![p][s] = g]
    BY <1>0, <1>5 DEF attemptReturns
  <2>2. slot[p][s].pc = "body"
    BY <1>5 DEF attemptReturns, InBody
  <2>3. g \in Goroutine /\ GoroutineShape(g, now) /\ g.exp = slot[p][s].exp /\ g.pc \in {"body", "finish"}
    <3>1. slot[p][s].attempt + 1 \in Nat
      BY <1>0 DEF Goroutine
    <3>2. g \in Goroutine
      BY <1>0, <2>1, <3>1 DEF Goroutine, Pc
    <3>3. g.exp = slot[p][s].exp /\ g.pc \in {"body", "finish"}
      BY <1>0, <2>1, <2>2 DEF Goroutine
    <3>. QED  BY <1>0, <3>2, <3>3 DEF GoroutineShape
  <2>4. Counts(g) => Counts(slot[p][s])
    BY <1>0, <2>1, <2>2 DEF Goroutine, Counts
  <2>. QED  BY <1>0, <1>1, <1>5, <2>1, <2>3, <2>4, OneGoroutineMoves DEF attemptReturns
<1>. QED  BY <1>2, <1>3, <1>4, <1>5

(* Acquiring: the row was nobody's, this node's own or expired, so no run of *)
(* another node counts on it, and it now lasts as long as any run may hope.  *)
LEMMA AcquireStep ==
    ASSUME LeaseInvariant, NEW p \in Runtimes, NEW s \in Slots, acquireLease(p, s)
    PROVE  LeaseInvariant'
<1>. USE BackgroundTasksAssumption
<1>0. /\ now \in Nat /\ slot[p][s] \in Goroutine /\ GoroutineShape(slot[p][s], now)
      /\ slot \in [Runtimes -> [Slots -> Goroutine]] /\ slot[p][s].pc = "acquire"
      /\ running \in [Runtimes -> BOOLEAN] /\ runs \in Nat
      /\ cancel \in [Runtimes -> Slots \cup {None}]
      /\ \A q \in Runtimes : cancel[q] # None => slot[q][cancel[q]].pc \in {"body", "finish"}
      /\ lease \in Lease \cup {NoLease} /\ NodeOf[p] \in Nodes
  BY DEF LeaseInvariant, TaskTypeOK, acquireLease
<1>1. CASE lease' # lease \/ slot' # [slot EXCEPT ![p][s] = Return(slot[p][s])]
  <2>. DEFINE g == [slot[p][s] EXCEPT !.pc = "setup", !.leased = TRUE, !.exp = expiresAt]
  <2>1. /\ AcquireTaskLease(NodeOf[p])
        /\ lease' = [owner |-> NodeOf[p], exp |-> expiresAt]
        /\ slot' = [slot EXCEPT ![p][s] = g] /\ running' = running
    BY <1>1 DEF acquireLease
  <2>2. UNCHANGED <<now, stopped, on, cancel, active, closed, mgr, gcSeen, undercut, stops, crashes, runs>>
    BY DEF acquireLease
  <2>3. expiresAt \in Nat /\ expiresAt = now + TTL
    BY <1>0 DEF expiresAt
  <2>4. g \in Goroutine /\ GoroutineShape(g, now) /\ g.exp = expiresAt
    <3>1. g \in Goroutine
      BY <1>0, <2>3 DEF Goroutine, Pc
    <3>2. g.exp = expiresAt /\ g.pc = "setup" /\ g.canceled = slot[p][s].canceled
      BY <1>0 DEF Goroutine
    <3>. QED  BY <1>0, <2>3, <3>1, <3>2 DEF GoroutineShape
  <2>5. lease' \in Lease /\ lease' # NoLease
    BY <1>0, <2>1, <2>3 DEF Lease
  <2>. HIDE DEF g
  <2>6. \A q \in Runtimes, t \in Slots : slot'[q][t] = IF q = p /\ t = s THEN g ELSE slot[q][t]
    BY <1>0, <2>1
  <2>7. TaskTypeOK'
    <3>1. slot' \in [Runtimes -> [Slots -> Goroutine]]
      BY <1>0, <2>1, <2>4
    <3>. QED  BY <2>1, <2>2, <2>5, <3>1 DEF LeaseInvariant, TaskTypeOK
  <2>8. \A q \in Runtimes, t \in Slots : GoroutineShape(slot'[q][t], now')
    BY <2>2, <2>4, <2>6 DEF LeaseInvariant
  <2>9. \A q \in Runtimes : cancel'[q] # None => slot'[q][cancel'[q]].pc \in {"body", "finish"}
    BY <1>0, <2>2, <2>6
  <2>10. LeaseBacksRun'
    <3>. SUFFICES ASSUME ~undercut, NEW q \in Runtimes, NEW t \in Slots, Holds(q, t)'
                  PROVE  lease'.owner = NodeOf[q] /\ lease'.exp >= slot'[q][t].exp
      BY <2>2, <2>5 DEF LeaseBacksRun
    <3>1. slot'[q][t] \in Goroutine /\ slot'[q][t].exp <= now + TTL
      BY <2>2, <2>7, <2>8 DEF TaskTypeOK, GoroutineShape
    <3>2. CASE q = p /\ t = s
      BY <2>1, <2>3, <2>4, <2>6, <3>2
    <3>3. CASE ~(q = p /\ t = s)
      <4>1. slot'[q][t] = slot[q][t]
        BY <2>6, <3>3
      <4>2. Holds(q, t)
        BY <2>2, <4>1 DEF Holds
      <4>3. lease # NoLease /\ lease.owner = NodeOf[q] /\ lease.exp >= slot[q][t].exp /\ slot[q][t].exp > now
        BY <4>2 DEF LeaseInvariant, LeaseBacksRun, Holds
      <4>4. lease.exp \in Nat /\ slot[q][t].exp \in Nat
        BY <1>0, <3>1, <4>1, <4>3 DEF Lease, Goroutine
      <4>5. ~(lease.exp <= now)
        BY <1>0, <4>3, <4>4
      <4>6. lease.owner = NodeOf[p]
        BY <2>1, <4>3, <4>5 DEF AcquireTaskLease
      <4>. QED  BY <2>1, <2>3, <3>1, <4>3, <4>6
    <3>. QED  BY <3>2, <3>3
  <2>. QED  BY <2>7, <2>8, <2>9, <2>10 DEF LeaseInvariant
<1>2. CASE lease' = lease /\ slot' = [slot EXCEPT ![p][s] = Return(slot[p][s])]
  <2>. DEFINE g == Return(slot[p][s])
  <2>1. g \in Goroutine /\ GoroutineShape(g, now) /\ ~Counts(g)
    BY <1>0, AtRest DEF Counts
  <2>2. running' \in [Runtimes -> BOOLEAN] /\ cancel' = cancel
    BY <1>0 DEF acquireLease
  <2>. HIDE DEF g
  <2>3. \A q \in Runtimes : cancel'[q] # None => slot'[q][cancel'[q]].pc \in {"body", "finish"}
    BY <1>0, <1>2, <2>2
  <2>. QED  BY <1>0, <1>2, <2>1, <2>2, <2>3, OneGoroutineMoves DEF acquireLease, g
<1>. QED  BY <1>1, <1>2

(* Renewing extends the row, or cancels the run.                             *)
LEMMA RenewStep ==
    ASSUME LeaseInvariant, NEW p \in Runtimes, NEW s \in Slots, renewTaskLease(p, s)
    PROVE  LeaseInvariant'
<1>. USE BackgroundTasksAssumption
<1>0. /\ now \in Nat /\ slot[p][s] \in Goroutine /\ GoroutineShape(slot[p][s], now)
      /\ slot \in [Runtimes -> [Slots -> Goroutine]] /\ slot[p][s].pc = "body"
      /\ cancel \in [Runtimes -> Slots \cup {None}]
      /\ \A q \in Runtimes : cancel[q] # None => slot[q][cancel[q]].pc \in {"body", "finish"}
      /\ lease \in Lease \cup {NoLease}
  BY DEF LeaseInvariant, TaskTypeOK, renewTaskLease, InBody
<1>1. CASE RenewTaskLease(NodeOf[p]) /\ lease' = [lease EXCEPT !.exp = expiresAt]
           /\ slot' = [slot EXCEPT ![p][s].exp = expiresAt]
  <2>. DEFINE g == [slot[p][s] EXCEPT !.exp = expiresAt]
  <2>1. slot' = [slot EXCEPT ![p][s] = g]
    BY <1>0, <1>1
  <2>2. UNCHANGED <<now, stopped, on, running, cancel, active, closed, mgr, gcSeen, undercut,
                    stops, crashes, runs>>
    BY DEF renewTaskLease
  <2>3. expiresAt \in Nat /\ expiresAt = now + TTL
    BY <1>0 DEF expiresAt
  <2>4. g \in Goroutine /\ GoroutineShape(g, now) /\ g.exp = expiresAt /\ g.pc = "body"
    <3>1. g \in Goroutine /\ g.exp = expiresAt /\ g.pc = "body"
      BY <1>0, <2>3 DEF Goroutine
    <3>. QED  BY <2>3, <3>1 DEF GoroutineShape
  <2>5. /\ lease # NoLease /\ lease \in Lease /\ lease.owner = NodeOf[p]
        /\ lease' \in Lease /\ lease' # NoLease
        /\ lease'.owner = NodeOf[p] /\ lease'.exp = expiresAt
    BY <1>0, <1>1, <2>3 DEF RenewTaskLease, Lease
  <2>. HIDE DEF g
  <2>6. \A q \in Runtimes, t \in Slots : slot'[q][t] = IF q = p /\ t = s THEN g ELSE slot[q][t]
    BY <1>0, <2>1
  <2>7. TaskTypeOK'
    <3>1. slot' \in [Runtimes -> [Slots -> Goroutine]]
      BY <1>0, <2>1, <2>4
    <3>. QED  BY <2>2, <2>5, <3>1 DEF LeaseInvariant, TaskTypeOK
  <2>8. \A q \in Runtimes, t \in Slots : GoroutineShape(slot'[q][t], now')
    BY <2>2, <2>4, <2>6 DEF LeaseInvariant
  <2>9. \A q \in Runtimes : cancel'[q] # None => slot'[q][cancel'[q]].pc \in {"body", "finish"}
    BY <1>0, <2>2, <2>4, <2>6
  <2>10. LeaseBacksRun'
    <3>. SUFFICES ASSUME ~undercut, NEW q \in Runtimes, NEW t \in Slots, Holds(q, t)'
                  PROVE  NodeOf[p] = NodeOf[q] /\ expiresAt >= slot'[q][t].exp
      BY <2>2, <2>5 DEF LeaseBacksRun
    <3>1. slot'[q][t] \in Goroutine /\ slot'[q][t].exp <= now + TTL
      BY <2>2, <2>7, <2>8 DEF TaskTypeOK, GoroutineShape
    <3>2. expiresAt >= slot'[q][t].exp
      BY <2>3, <3>1 DEF Goroutine
    <3>3. CASE ~(q = p /\ t = s)
      <4>1. Holds(q, t)
        BY <2>2, <2>6, <3>3 DEF Holds
      <4>. QED  BY <2>5, <3>2, <4>1 DEF LeaseInvariant, LeaseBacksRun
    <3>. QED  BY <3>2, <3>3
  <2>. QED  BY <2>7, <2>8, <2>9, <2>10 DEF LeaseInvariant
<1>2. CASE slot' = [slot EXCEPT ![p][s] = LeaseLost(@)] /\ UNCHANGED lease
  <2>. DEFINE g == LeaseLost(slot[p][s])
  <2>1. g \in Goroutine /\ GoroutineShape(g, now) /\ ~Counts(g) /\ g.pc = "body"
    BY <1>0 DEF LeaseLost, Goroutine, GoroutineShape, Counts
  <2>2. slot' = [slot EXCEPT ![p][s] = g] /\ cancel' = cancel /\ running' = running /\ runs' = runs
    BY <1>2 DEF renewTaskLease
  <2>. HIDE DEF g
  <2>3. \A q \in Runtimes : cancel'[q] # None => slot'[q][cancel'[q]].pc \in {"body", "finish"}
    BY <1>0, <2>1, <2>2
  <2>4. running \in [Runtimes -> BOOLEAN] /\ runs \in Nat
    BY DEF LeaseInvariant, TaskTypeOK
  <2>. QED  BY <1>0, <1>2, <2>1, <2>2, <2>3, <2>4, OneGoroutineMoves, ZenonT(30) DEF renewTaskLease
<1>. QED  BY <1>1, <1>2 DEF renewTaskLease

(* Finishing releases the row of the own node, under nobody else, or the     *)
(* ghost records it.                                                         *)
LEMMA FinishStep ==
    ASSUME LeaseInvariant, NEW p \in Runtimes, NEW s \in Slots, finishTaskRun(p, s)
    PROVE  LeaseInvariant'
<1>. USE BackgroundTasksAssumption
<1>0. /\ now \in Nat /\ slot[p][s] \in Goroutine
      /\ slot \in [Runtimes -> [Slots -> Goroutine]] /\ slot[p][s].pc = "finish"
      /\ running \in [Runtimes -> BOOLEAN]
      /\ cancel \in [Runtimes -> Slots \cup {None}]
      /\ \A q \in Runtimes : cancel[q] # None => slot[q][cancel[q]].pc \in {"body", "finish"}
      /\ lease \in Lease \cup {NoLease} /\ undercut \in BOOLEAN
  BY DEF LeaseInvariant, TaskTypeOK, finishTaskRun
<1>. DEFINE g == Return(slot[p][s])
<1>1. /\ slot' = [slot EXCEPT ![p][s] = g] /\ cancel' = [cancel EXCEPT ![p] = None]
      /\ running' = [running EXCEPT ![p] = FALSE]
      /\ UNCHANGED <<now, stopped, on, active, closed, mgr, gcSeen, stops, crashes, runs>>
  BY DEF finishTaskRun
<1>2. g \in Goroutine /\ GoroutineShape(g, now) /\ g.pc \in {"off", "wait"}
  BY <1>0, AtRest
<1>. HIDE DEF g
<1>3. \A q \in Runtimes, t \in Slots : slot'[q][t] = IF q = p /\ t = s THEN g ELSE slot[q][t]
  BY <1>0, <1>1
<1>4. lease' = lease \/ (lease' = NoLease /\ lease # NoLease /\ lease.owner = NodeOf[p])
  BY DEF finishTaskRun, ReleaseTaskLease
<1>5. undercut' \in BOOLEAN /\ (undercut => undercut')
  BY <1>0 DEF finishTaskRun
<1>6. TaskTypeOK'
  <2>1. slot' \in [Runtimes -> [Slots -> Goroutine]] /\ running' \in [Runtimes -> BOOLEAN]
        /\ cancel' \in [Runtimes -> Slots \cup {None}]
    BY <1>0, <1>1, <1>2
  <2>. QED  BY <1>0, <1>1, <1>4, <1>5, <2>1 DEF LeaseInvariant, TaskTypeOK
<1>7. \A q \in Runtimes, t \in Slots : GoroutineShape(slot'[q][t], now')
  BY <1>1, <1>2, <1>3 DEF LeaseInvariant
<1>8. \A q \in Runtimes : cancel'[q] # None => slot'[q][cancel'[q]].pc \in {"body", "finish"}
  BY <1>0, <1>1, <1>3
<1>9. LeaseBacksRun'
  <2>. SUFFICES ASSUME ~undercut', NEW q \in Runtimes, NEW t \in Slots, Holds(q, t)'
                PROVE  lease' # NoLease /\ lease'.owner = NodeOf[q] /\ lease'.exp >= slot'[q][t].exp
    BY DEF LeaseBacksRun
  <2>1. ~(q = p /\ t = s) /\ slot'[q][t] = slot[q][t]
    BY <1>2, <1>3 DEF Holds
  <2>2. Holds(q, t)
    BY <1>1, <2>1 DEF Holds
  <2>3. lease # NoLease /\ lease.owner = NodeOf[q] /\ lease.exp >= slot[q][t].exp
    BY <1>5, <2>2 DEF LeaseInvariant, LeaseBacksRun
  <2>4. lease' = lease
    <3>1. SUFFICES ASSUME lease' # lease PROVE FALSE
      OBVIOUS
    <3>2. NodeOf[q] = NodeOf[p]
      BY <1>4, <2>3, <3>1
    <3>. QED  BY <2>2, <3>1, <3>2 DEF finishTaskRun
  <2>. QED  BY <2>1, <2>3, <2>4
<1>. QED  BY <1>6, <1>7, <1>8, <1>9 DEF LeaseInvariant

(* Any goroutines are changed, none of them into one that counts on a lease; *)
(* the row and the clock stay.                                               *)
LEMMA GoroutinesChange ==
    ASSUME LeaseInvariant, TaskTypeOK',
           UNCHANGED <<now, lease, undercut>>,
           \A p \in Runtimes, s \in Slots :
              \/ slot'[p][s] = slot[p][s]
              \/ GoroutineShape(slot'[p][s], now) /\ ~Counts(slot'[p][s]),
           \A p \in Runtimes : cancel'[p] # None => slot'[p][cancel'[p]].pc \in {"body", "finish"}
    PROVE  LeaseInvariant'
<1>1. \A p \in Runtimes, s \in Slots : GoroutineShape(slot'[p][s], now')
  BY DEF LeaseInvariant
<1>2. LeaseBacksRun'
  <2>. SUFFICES ASSUME ~undercut, NEW p \in Runtimes, NEW s \in Slots, Holds(p, s)'
                PROVE  lease # NoLease /\ lease.owner = NodeOf[p] /\ lease.exp >= slot'[p][s].exp
    BY DEF LeaseBacksRun
  <2>1. slot'[p][s] = slot[p][s]
    BY DEF Holds, Counts
  <2>2. Holds(p, s)
    BY <2>1 DEF Holds
  <2>. QED  BY <2>1, <2>2 DEF LeaseInvariant, LeaseBacksRun
<1>. QED  BY <1>1, <1>2 DEF LeaseInvariant

(* Cancelling a goroutine in its body, or one that is about to finish.       *)
LEMMA CancelledShape ==
    ASSUME now \in Nat, NEW g \in Goroutine, GoroutineShape(g, now), g.pc \in {"body", "finish"}
    PROVE  LET h == [g EXCEPT !.canceled = TRUE]
           IN  h \in Goroutine /\ h.pc = g.pc /\ GoroutineShape(h, now) /\ ~Counts(h)
BY DEF Goroutine, GoroutineShape, Counts

(* The steps of a manager and of an administrator keep the invariant.        *)
LEMMA ManagerStep ==
    ASSUME LeaseInvariant,
           \/ \E p \in Runtimes : ActivateRuntime(p) \/ stopTasks(p)
           \/ \E n \in Nodes : \/ stopMarks(n) \/ stopReturns(n) \/ CloseOperations(n)
                              \/ TriggerTask(n) \/ CancelTask(n) \/ CrashNode(n)
    PROVE  LeaseInvariant'
<1>. USE BackgroundTasksAssumption
<1>0. /\ TaskTypeOK /\ now \in Nat /\ slot \in [Runtimes -> [Slots -> Goroutine]]
      /\ cancel \in [Runtimes -> Slots \cup {None}]
      /\ \A p \in Runtimes, s \in Slots : GoroutineShape(slot[p][s], now)
      /\ \A p \in Runtimes : cancel[p] # None => slot[p][cancel[p]].pc \in {"body", "finish"}
  BY DEF LeaseInvariant, TaskTypeOK
<1>r. /\ Off \in Goroutine /\ GoroutineShape(Off, now) /\ ~Counts(Off) /\ Off.pc = "off"
      /\ \A pc \in {"wait", "run"}, loop \in BOOLEAN :
            LET g == [Off EXCEPT !.pc = pc, !.loop = loop]
            IN  g \in Goroutine /\ g.pc = pc /\ GoroutineShape(g, now) /\ ~Counts(g)
  <2>1. Off.pc = "off"
    BY DEF Off
  <2>. QED  BY <1>0, <2>1, AtRest DEF Counts
<1>s. LET g == [Off EXCEPT !.pc = "run"]
      IN  g \in Goroutine /\ GoroutineShape(g, now) /\ ~Counts(g)
  <2>1. 0 <= now + TTL
    BY <1>0
  <2>. QED  BY <2>1 DEF Off, Goroutine, Pc, GoroutineShape, Counts
<1>1. ASSUME NEW p \in Runtimes, ActivateRuntime(p) PROVE LeaseInvariant'
  <2>1. /\ active' = [active EXCEPT ![NodeOf[p]] = p] /\ stopped' = [stopped EXCEPT ![p] = FALSE]
        /\ UNCHANGED <<now, lease, running, cancel, closed, mgr, gcSeen, undercut, stops, crashes, runs>>
    BY <1>1 DEF ActivateRuntime
  <2>2. CASE ~startTask(p)
    <3>1. on' = on /\ slot' = slot
      BY <1>1, <2>2 DEF ActivateRuntime
    <3>2. TaskTypeOK'
      BY <1>0, <2>1, <3>1 DEF TaskTypeOK
    <3>. QED  BY <1>0, <2>1, <3>1, <3>2, GoroutinesChange
  <2>3. CASE startTask(p)
    <3>1. on' = [on EXCEPT ![p] = TRUE]
      BY <1>1, <2>3 DEF ActivateRuntime
    <3>2. PICK once \in Slots, loop \in Slots :
            /\ SpecOf[p].runOnStart => slot[p][once].pc = "off"
            /\ SpecOf[p].periodic => slot[p][loop].pc = "off"
            /\ slot' = [slot EXCEPT ![p] = [s \in Slots |->
                    IF s = once /\ SpecOf[p].runOnStart THEN [Off EXCEPT !.pc = "run"]
                    ELSE IF s = loop /\ SpecOf[p].periodic
                    THEN [Off EXCEPT !.pc = "wait", !.loop = TRUE]
                    ELSE slot[p][s]]]
      BY <1>1, <2>3 DEF ActivateRuntime
    <3>. DEFINE a == [Off EXCEPT !.pc = "run"]
    <3>. DEFINE b == [Off EXCEPT !.pc = "wait", !.loop = TRUE]
    <3>3. /\ a \in Goroutine /\ GoroutineShape(a, now) /\ ~Counts(a)
          /\ b \in Goroutine /\ GoroutineShape(b, now) /\ ~Counts(b)
      BY <1>r, <1>s
    <3>. HIDE DEF a, b
    <3>4. slot' = [slot EXCEPT ![p] = [s \in Slots |->
                    IF s = once /\ SpecOf[p].runOnStart THEN a
                    ELSE IF s = loop /\ SpecOf[p].periodic THEN b ELSE slot[p][s]]]
      BY <3>2 DEF a, b
    <3>5. slot' \in [Runtimes -> [Slots -> Goroutine]]
      BY <1>0, <3>3, <3>4
    <3>6. TaskTypeOK'
      BY <1>0, <2>1, <3>1, <3>5 DEF TaskTypeOK
    <3>7. \A q \in Runtimes, s \in Slots :
             slot'[q][s] = slot[q][s] \/ (slot[q][s].pc = "off" /\ slot'[q][s] \in {a, b})
      BY <1>0, <3>2, <3>4
    <3>8. \A q \in Runtimes : cancel'[q] # None => slot'[q][cancel'[q]].pc \in {"body", "finish"}
      <4>. SUFFICES ASSUME NEW q \in Runtimes, cancel[q] # None
                    PROVE  slot'[q][cancel[q]].pc \in {"body", "finish"}
        BY <1>0, <2>1, <3>7
      <4>1. cancel[q] \in Slots /\ slot[q][cancel[q]].pc \in {"body", "finish"}
        BY <1>0
      <4>2. slot'[q][cancel[q]] = slot[q][cancel[q]]
        BY <1>0, <2>1, <3>7, <4>1
      <4>. QED  BY <4>1, <4>2
    <3>. QED  BY <2>1, <3>3, <3>6, <3>7, <3>8, GoroutinesChange
  <2>. QED  BY <2>2, <2>3
<1>c. ASSUME NEW p \in Runtimes, NEW s \in Slots
      PROVE  LET g == Cancelled(p, slot[p])[s]
             IN  /\ g \in Goroutine /\ g.pc = slot[p][s].pc
                 /\ g = slot[p][s] \/ (GoroutineShape(g, now) /\ ~Counts(g))
  <2>1. CASE slot[p][s].pc = "body"
    BY <1>0, <2>1, CancelledShape DEF Cancelled
  <2>2. CASE slot[p][s].pc # "body"
    BY <1>0, <2>2 DEF Cancelled
  <2>. QED  BY <2>1, <2>2
<1>d. \A p \in Runtimes : Cancelled(p, slot[p]) \in [Slots -> Goroutine]
  <2>. SUFFICES ASSUME NEW p \in Runtimes PROVE Cancelled(p, slot[p]) \in [Slots -> Goroutine]
    OBVIOUS
  <2>1. Cancelled(p, slot[p]) = [s \in Slots |-> Cancelled(p, slot[p])[s]]
    BY DEF Cancelled
  <2>. QED  BY <1>c, <2>1
<1>2. ASSUME NEW p \in Runtimes, stopTasks(p) PROVE LeaseInvariant'
  <2>1. /\ slot' = [slot EXCEPT ![p] = Cancelled(p, slot[p])]
        /\ UNCHANGED <<now, lease, undercut, cancel>>
    BY <1>2 DEF stopTasks
  <2>2. slot' \in [Runtimes -> [Slots -> Goroutine]]
    BY <1>0, <1>d, <2>1
  <2>3. TaskTypeOK'
    BY <1>0, <1>2, <2>2 DEF stopTasks, TaskTypeOK
  <2>4. \A q \in Runtimes, s \in Slots :
           slot'[q][s].pc = slot[q][s].pc /\
             (slot'[q][s] = slot[q][s] \/ (GoroutineShape(slot'[q][s], now) /\ ~Counts(slot'[q][s])))
    BY <1>0, <1>c, <2>1
  <2>5. \A q \in Runtimes : cancel'[q] # None => slot'[q][cancel'[q]].pc \in {"body", "finish"}
    BY <1>0, <2>1, <2>4
  <2>. QED  BY <2>1, <2>3, <2>4, <2>5, GoroutinesChange
<1>3. ASSUME NEW n \in Nodes, stopReturns(n) PROVE LeaseInvariant'
  <2>1. TaskTypeOK' /\ UNCHANGED <<now, lease, undercut, slot, cancel>>
    BY <1>0, <1>3 DEF stopReturns, TaskTypeOK
  <2>. QED  BY <1>0, <2>1, GoroutinesChange
<1>4. ASSUME NEW n \in Nodes, CloseOperations(n) PROVE LeaseInvariant'
  <2>1. /\ slot' = [p \in Runtimes |-> IF NodeOf[p] = n THEN Cancelled(p, slot[p]) ELSE slot[p]]
        /\ UNCHANGED <<now, lease, undercut, cancel>>
    BY <1>4 DEF CloseOperations
  <2>2. slot' \in [Runtimes -> [Slots -> Goroutine]]
    BY <1>0, <1>d, <2>1
  <2>3. TaskTypeOK'
    BY <1>0, <1>4, <2>2 DEF CloseOperations, TaskTypeOK
  <2>4. \A q \in Runtimes, s \in Slots :
           slot'[q][s].pc = slot[q][s].pc /\
             (slot'[q][s] = slot[q][s] \/ (GoroutineShape(slot'[q][s], now) /\ ~Counts(slot'[q][s])))
    BY <1>0, <1>c, <2>1
  <2>5. \A q \in Runtimes : cancel'[q] # None => slot'[q][cancel'[q]].pc \in {"body", "finish"}
    BY <1>0, <2>1, <2>4
  <2>. QED  BY <2>1, <2>3, <2>4, <2>5, GoroutinesChange
<1>5. ASSUME NEW n \in Nodes, TriggerTask(n) PROVE LeaseInvariant'
  <2>. DEFINE p == active[n]
  <2>. DEFINE a == [Off EXCEPT !.pc = "run"]
  <2>1. p \in Runtimes /\ a \in Goroutine /\ GoroutineShape(a, now) /\ ~Counts(a)
    BY <1>0, <1>5, <1>r, <1>s DEF TriggerTask, TaskTypeOK
  <2>2. PICK s \in Slots : slot[p][s].pc = "off" /\ slot' = [slot EXCEPT ![p][s] = a]
    BY <1>5 DEF TriggerTask, launchTask
  <2>3. UNCHANGED <<now, lease, stopped, on, running, cancel, active, closed, mgr, gcSeen, undercut, stops, crashes>>
        /\ runs' = runs + 1
    BY <1>5 DEF TriggerTask
  <2>. HIDE DEF p, a
  <2>4. slot' \in [Runtimes -> [Slots -> Goroutine]]
    BY <1>0, <2>1, <2>2
  <2>5. TaskTypeOK'
    BY <1>0, <2>3, <2>4 DEF TaskTypeOK
  <2>6. \A q \in Runtimes, t \in Slots :
           slot'[q][t] = slot[q][t] \/ (slot[q][t].pc = "off" /\ slot'[q][t] = a)
    BY <1>0, <2>1, <2>2
  <2>7. \A q \in Runtimes : cancel'[q] # None => slot'[q][cancel'[q]].pc \in {"body", "finish"}
    <3>. SUFFICES ASSUME NEW q \in Runtimes, cancel[q] # None
                  PROVE  slot'[q][cancel[q]].pc \in {"body", "finish"}
      BY <1>0, <2>3, <2>6
    <3>1. cancel[q] \in Slots /\ slot[q][cancel[q]].pc \in {"body", "finish"}
      BY <1>0
    <3>2. slot'[q][cancel[q]] = slot[q][cancel[q]]
      BY <1>0, <2>3, <2>6, <3>1
    <3>. QED  BY <3>1, <3>2
  <2>. QED  BY <2>1, <2>3, <2>5, <2>6, <2>7, GoroutinesChange
<1>6. ASSUME NEW p \in Runtimes, cancel[p] # None, slot' = [slot EXCEPT ![p][cancel[p]].canceled = TRUE],
             NEW q \in Runtimes, NEW s \in Slots
      PROVE  /\ slot' \in [Runtimes -> [Slots -> Goroutine]]
             /\ slot'[q][s].pc = slot[q][s].pc
             /\ slot'[q][s] = slot[q][s] \/ (GoroutineShape(slot'[q][s], now) /\ ~Counts(slot'[q][s]))
  <2>. DEFINE c == cancel[p]
  <2>. DEFINE h == [slot[p][c] EXCEPT !.canceled = TRUE]
  <2>1. c \in Slots /\ slot[p][c].pc \in {"body", "finish"}
    BY <1>0, <1>6
  <2>2. h \in Goroutine /\ h.pc = slot[p][c].pc /\ GoroutineShape(h, now) /\ ~Counts(h)
    BY <1>0, <2>1, CancelledShape
  <2>3. slot' = [slot EXCEPT ![p][c] = h]
    BY <1>0, <1>6, <2>1
  <2>. HIDE DEF c, h
  <2>. QED  BY <1>0, <2>1, <2>2, <2>3
<1>7. ASSUME NEW n \in Nodes, CancelTask(n) PROVE LeaseInvariant'
  <2>. DEFINE p == active[n]
  <2>1. p \in Runtimes /\ cancel[p] # None /\ slot' = [slot EXCEPT ![p][cancel[p]].canceled = TRUE]
    BY <1>0, <1>7 DEF CancelTask, TaskTypeOK
  <2>2. cancel[p] \in Slots
    BY <1>0, <2>1
  <2>3. \A q \in Runtimes, s \in Slots :
             /\ slot' \in [Runtimes -> [Slots -> Goroutine]]
             /\ slot'[q][s].pc = slot[q][s].pc
             /\ slot'[q][s] = slot[q][s] \/ (GoroutineShape(slot'[q][s], now) /\ ~Counts(slot'[q][s]))
    BY <1>6, <2>1
  <2>4. UNCHANGED <<now, lease, stopped, on, running, cancel, active, closed, mgr, gcSeen, undercut, stops,
                    crashes, runs>>
    BY <1>7 DEF CancelTask
  <2>. HIDE DEF p
  <2>5. slot' \in [Runtimes -> [Slots -> Goroutine]]
    BY <2>1, <2>2, <2>3
  <2>6. TaskTypeOK'
    BY <1>0, <2>4, <2>5 DEF TaskTypeOK
  <2>7. \A q \in Runtimes : cancel'[q] # None => slot'[q][cancel'[q]].pc \in {"body", "finish"}
    BY <1>0, <2>3, <2>4
  <2>. QED  BY <2>3, <2>4, <2>6, <2>7, GoroutinesChange
<1>8. ASSUME NEW n \in Nodes, stopMarks(n) PROVE LeaseInvariant'
  <2>. DEFINE p == mgr[n].rt
  <2>1. /\ cancel' = [cancel EXCEPT ![p] = None] /\ on' = [on EXCEPT ![p] = FALSE]
        /\ mgr' = [mgr EXCEPT ![n].op = "wait"]
        /\ UNCHANGED <<now, lease, stopped, running, active, closed, gcSeen, undercut, stops, crashes, runs>>
    BY <1>8 DEF stopMarks
  <2>2. p \in Runtimes /\ mgr' \in [Nodes -> {NoStop} \cup [op : {"mark", "wait"}, rt : Runtimes]]
    <3>1. mgr[n].op = "mark" /\ mgr[n] \in {NoStop} \cup [op : {"mark", "wait"}, rt : Runtimes]
      BY <1>0, <1>8 DEF TaskTypeOK, stopMarks
    <3>2. mgr[n] \in [op : {"mark", "wait"}, rt : Runtimes]
      BY <3>1 DEF NoStop
    <3>3. mgr[n].rt \in Runtimes /\ [mgr[n] EXCEPT !.op = "wait"] \in [op : {"mark", "wait"}, rt : Runtimes]
      BY <3>2
    <3> QED
      BY <1>0, <2>1, <3>3 DEF TaskTypeOK
  <2>3. cancel' \in [Runtimes -> Slots \cup {None}] /\ on' \in [Runtimes -> BOOLEAN]
    BY <1>0, <2>1 DEF TaskTypeOK
  <2>4. CASE p \in Runtimes /\ cancel[p] \in Slots
    <3>1. slot' = [slot EXCEPT ![p][cancel[p]].canceled = TRUE] /\ cancel[p] # None
      BY <1>8, <2>4 DEF stopMarks
    <3>2. \A q \in Runtimes, s \in Slots :
             /\ slot' \in [Runtimes -> [Slots -> Goroutine]]
             /\ slot'[q][s].pc = slot[q][s].pc
             /\ slot'[q][s] = slot[q][s] \/ (GoroutineShape(slot'[q][s], now) /\ ~Counts(slot'[q][s]))
      BY <1>6, <2>4, <3>1
    <3>. HIDE DEF p
    <3>3. slot' \in [Runtimes -> [Slots -> Goroutine]]
      BY <2>4, <3>2
    <3>4. TaskTypeOK'
      BY <1>0, <2>1, <2>2, <2>3, <3>3 DEF TaskTypeOK
    <3>5. \A q \in Runtimes : cancel'[q] # None => slot'[q][cancel'[q]].pc \in {"body", "finish"}
      BY <1>0, <2>1, <2>4, <3>2
    <3>. QED  BY <2>1, <3>2, <3>4, <3>5, GoroutinesChange
  <2>5. CASE p \in Runtimes /\ cancel[p] \notin Slots
    <3>1. slot' = slot
      BY <1>8, <2>5 DEF stopMarks
    <3>. HIDE DEF p
    <3>2. TaskTypeOK'
      BY <1>0, <2>1, <2>2, <2>3, <3>1 DEF TaskTypeOK
    <3>3. \A q \in Runtimes : cancel'[q] # None => slot'[q][cancel'[q]].pc \in {"body", "finish"}
      BY <1>0, <2>1, <3>1
    <3>. QED  BY <2>1, <3>1, <3>2, <3>3, GoroutinesChange
  <2>. QED  BY <2>2, <2>4, <2>5
<1>9. ASSUME NEW n \in Nodes, CrashNode(n) PROVE LeaseInvariant'
  <2>. DEFINE here == {p \in Runtimes : NodeOf[p] = n}
  <2>1. /\ slot' = [p \in Runtimes |-> IF p \in here THEN [s \in Slots |-> Off] ELSE slot[p]]
        /\ cancel' = [p \in Runtimes |-> IF p \in here THEN None ELSE cancel[p]]
        /\ UNCHANGED <<now, lease, undercut>>
    BY <1>9 DEF CrashNode
  <2>2. slot' \in [Runtimes -> [Slots -> Goroutine]] /\ cancel' \in [Runtimes -> Slots \cup {None}]
    BY <1>0, <1>r, <2>1
  <2>3. TaskTypeOK'
    BY <1>0, <1>9, <2>2 DEF CrashNode, TaskTypeOK
  <2>4. \A q \in Runtimes, s \in Slots : slot'[q][s] = slot[q][s] \/ slot'[q][s] = Off
    BY <1>0, <2>1
  <2>5. \A q \in Runtimes : cancel'[q] # None => slot'[q][cancel'[q]].pc \in {"body", "finish"}
    BY <1>0, <2>1
  <2>. QED  BY <1>r, <2>1, <2>3, <2>4, <2>5, GoroutinesChange
<1>. QED  BY <1>1, <1>2, <1>3, <1>4, <1>5, <1>7, <1>8, <1>9

(* The garbage collector and the clock keep the invariant.                   *)
LEMMA CollectorStep ==
    ASSUME LeaseInvariant, ListTaskLeases \/ DeleteTaskLease \/ TaskTick
    PROVE  LeaseInvariant'
<1>. USE BackgroundTasksAssumption
<1>0. UNCHANGED memory => UNCHANGED <<stopped, on, running, cancel, slot, active, closed, mgr>>
  BY DEF memory
<1>1. CASE ListTaskLeases
  <2>1. TaskTypeOK' /\ UNCHANGED <<now, lease, undercut, slot, cancel>>
    BY <1>0, <1>1 DEF ListTaskLeases, LeaseInvariant, TaskTypeOK
  <2>. QED  BY <2>1, GoroutinesChange DEF LeaseInvariant
<1>2. CASE DeleteTaskLease
  <2>1. /\ lease' = NoLease /\ now' = now /\ slot' = slot /\ cancel' = cancel
        /\ undercut' = (undercut \/ \E p \in Runtimes, s \in Slots : Holds(p, s))
    BY <1>0, <1>2 DEF DeleteTaskLease
  <2>2. TaskTypeOK'
    BY <1>0, <1>2 DEF DeleteTaskLease, LeaseInvariant, TaskTypeOK
  <2>3. LeaseBacksRun'
    BY <2>1 DEF LeaseBacksRun, Holds
  <2>. QED  BY <2>1, <2>2, <2>3 DEF LeaseInvariant
<1>3. CASE TaskTick
  <2>1. now' = now + 1 /\ lease' = lease /\ undercut' = undercut /\ slot' = slot /\ cancel' = cancel
    BY <1>0, <1>3 DEF TaskTick
  <2>2. TaskTypeOK'
    BY <1>0, <1>3 DEF TaskTick, LeaseInvariant, TaskTypeOK
  <2>3. \A p \in Runtimes, s \in Slots : GoroutineShape(slot'[p][s], now')
    <3>. SUFFICES ASSUME NEW p \in Runtimes, NEW s \in Slots PROVE GoroutineShape(slot[p][s], now + 1)
      BY <2>1
    <3>1. slot[p][s] \in Goroutine /\ GoroutineShape(slot[p][s], now) /\ now \in Nat
      BY DEF LeaseInvariant, TaskTypeOK
    <3>2. slot[p][s].exp \in Nat
      BY <3>1 DEF Goroutine
    <3>. QED  BY <3>1, <3>2 DEF GoroutineShape
  <2>4. LeaseBacksRun'
    <3>. SUFFICES ASSUME NEW p \in Runtimes, NEW s \in Slots, Holds(p, s)' PROVE Holds(p, s)
      BY <2>1 DEF LeaseInvariant, LeaseBacksRun
    <3>1. slot[p][s] \in Goroutine /\ now \in Nat
      BY DEF LeaseInvariant, TaskTypeOK
    <3>2. slot[p][s].exp \in Nat
      BY <3>1 DEF Goroutine
    <3>. QED  BY <2>1, <3>1, <3>2 DEF Holds
  <2>. QED  BY <2>1, <2>2, <2>3, <2>4 DEF LeaseInvariant
<1>. QED  BY <1>1, <1>2, <1>3

LEMMA LeaseInductive == TaskSpec => []LeaseInvariant
<1>1. LeaseInvariant /\ [TaskNext]_taskVars => LeaseInvariant'
  <2>. SUFFICES ASSUME LeaseInvariant, [TaskNext]_taskVars PROVE LeaseInvariant'
    OBVIOUS
  <2>1. CASE UNCHANGED taskVars
    <3>1. UNCHANGED <<now, lease, stopped, on, running, cancel, slot, active, closed, mgr,
                      gcSeen, undercut, stops, crashes, runs>>
      BY <2>1 DEF taskVars, memory
    <3>2. TaskTypeOK'
      BY <3>1 DEF LeaseInvariant, TaskTypeOK
    <3>. QED  BY <3>1, <3>2, GoroutinesChange DEF LeaseInvariant
  <2>2. CASE TaskNext
    BY <2>2, LocalStep, AcquireStep, RenewStep, FinishStep, ManagerStep, CollectorStep,
       BackgroundTasksAssumption DEF TaskNext, GoroutineStep
  <2>. QED  BY <2>1, <2>2
<1>. QED  BY <1>1, TaskInitially, PTL DEF TaskSpec

(* For every number of nodes, runtimes and goroutines, every TTL and every   *)
(* schedule: a run that counts on its lease has a row of its own node in     *)
(* plugin_task_leases that lasts as long as it believes, unless a row was    *)
(* deleted under a live run (AcquireTaskLease, RenewTaskLease,               *)
(* ReleaseTaskLease, runTask).                                               *)
THEOREM LeasesBackRuns == TaskSpec => []LeaseBacksRun
<1>1. LeaseInvariant => LeaseBacksRun
  BY DEF LeaseInvariant
<1>. QED  BY <1>1, LeaseInductive, PTL

(* What a singleton is for: the runs that count on the lease are all on one  *)
(* node.                                                                     *)
OneNodeRuns ==
    ~undercut => \A p, q \in Runtimes, s, t \in Slots :
        Holds(p, s) /\ Holds(q, t) => NodeOf[p] = NodeOf[q]

(* Two nodes never run a singleton task at the same time, each counting on   *)
(* the lease, whatever crashes, expiries and renewals came before, unless a  *)
(* row was deleted under a live run: LeaseBacksRun for both leaves one owner.*)
THEOREM SingletonsRunOnce == TaskSpec => []OneNodeRuns
<1>1. LeaseBacksRun => OneNodeRuns
  BY DEF LeaseBacksRun, OneNodeRuns
<1>. QED  BY <1>1, LeasesBackRuns, PTL

-----------------------------------------------------------------------------
(* A node that closes: what ClosedNodeDrains rests on, but for the fairness. *)

(* How far a goroutine is from its end.                                      *)
StepsLeft(pc) ==
    CASE pc = "run" -> 6 [] pc = "acquire" -> 5 [] pc = "setup" -> 4 [] pc = "body" -> 3
      [] pc = "finish" -> 2 [] pc = "wait" -> 1 [] OTHER -> 0

(* The active runtime is one of the node, and a body runs on under a context *)
(* that is done only if it has been cancelled.                               *)
DoneIsCancelled ==
    /\ \A n \in Nodes : active[n] # None => NodeOf[active[n]] = n
    /\ \A p \in Runtimes, s \in Slots : ctxDone(p) /\ InBody(p, s) => slot[p][s].canceled

(* On a closed node a goroutine moves only towards its end, and every step   *)
(* of its own brings it nearer: none is launched, none is sent back by its   *)
(* timer and none tries its task again.                                      *)
TowardsTheEnd(p, s) ==
    /\ slot'[p][s].pc # slot[p][s].pc => StepsLeft(slot'[p][s].pc) < StepsLeft(slot[p][s].pc)
    /\ TaskStep(p, s) => slot'[p][s].pc # slot[p][s].pc

ClosedNodeDescends ==
    [][\A p \in Runtimes, s \in Slots : closed[NodeOf[p]] => TowardsTheEnd(p, s)]_taskVars

(* What a step of a goroutine does to it.                                    *)
LEMMA StepOf ==
    ASSUME TaskTypeOK, NEW p \in Runtimes, NEW s \in Slots, GoroutineStep(p, s)
    PROVE  /\ UNCHANGED <<stopped, closed, active>>
           /\ \A q \in Runtimes, t \in Slots : <<q, t>> # <<p, s>> => slot'[q][t] = slot[q][t]
           /\ InBody(p, s)' => \/ slot[p][s].pc = "setup" /\ slot'[p][s].canceled = ctxDone(p)
                               \/ InBody(p, s) /\ (slot[p][s].canceled => slot'[p][s].canceled)
<1>0. slot \in [Runtimes -> [Slots -> Goroutine]] /\ slot[p][s] \in Goroutine
  BY DEF TaskTypeOK
<1>1. UNCHANGED <<stopped, closed, active>>
  BY DEF GoroutineStep, TimerFires, runTask, acquireLease, setupRun, attemptReturns, renewTaskLease,
         finishTaskRun
<1>2. ASSUME NEW g, slot' = [slot EXCEPT ![p][s] = g]
      PROVE  /\ slot'[p][s] = g
             /\ \A q \in Runtimes, t \in Slots : <<q, t>> # <<p, s>> => slot'[q][t] = slot[q][t]
  BY <1>0, <1>2
<1>3. Off.pc # "body" /\ Return(slot[p][s]).pc # "body"
  BY DEF Return, Off
<1>4. CASE TimerFires(p, s)
  <2>1. slot' = [slot EXCEPT ![p][s] = Off] \/ slot' = [slot EXCEPT ![p][s] = [slot[p][s] EXCEPT !.pc = "run"]]
    BY <1>4 DEF TimerFires
  <2>. QED  BY <1>0, <1>1, <1>2, <1>3, <2>1 DEF InBody, Goroutine
<1>5. CASE runTask(p, s)
  <2>1. \/ slot' = [slot EXCEPT ![p][s] = Return(slot[p][s])]
        \/ \E pc \in {"acquire", "setup"} : slot' = [slot EXCEPT ![p][s] = [slot[p][s] EXCEPT !.pc = pc]]
    BY <1>5 DEF runTask
  <2>. QED  BY <1>0, <1>1, <1>2, <1>3, <2>1 DEF InBody, Goroutine
<1>6. CASE acquireLease(p, s)
  <2>1. \/ slot' = [slot EXCEPT ![p][s] = Return(slot[p][s])]
        \/ slot' = [slot EXCEPT ![p][s] =
                      [slot[p][s] EXCEPT !.pc = "setup", !.leased = TRUE, !.exp = expiresAt]]
    BY <1>6 DEF acquireLease
  <2>2. [slot[p][s] EXCEPT !.pc = "setup", !.leased = TRUE, !.exp = expiresAt].pc = "setup"
    BY <1>0 DEF Goroutine
  <2>. QED  BY <1>1, <1>2, <1>3, <2>1, <2>2 DEF InBody
<1>7. CASE setupRun(p, s)
  <2>1. slot[p][s].pc = "setup" /\ slot' = [slot EXCEPT ![p][s] =
            [slot[p][s] EXCEPT !.pc = "body", !.canceled = ctxDone(p), !.attempt = 1]]
    BY <1>7 DEF setupRun, runCtx
  <2>. QED  BY <1>0, <1>1, <1>2, <2>1 DEF InBody, Goroutine
<1>8. CASE attemptReturns(p, s)
  <2>1. /\ InBody(p, s)
        /\ \/ slot' = [slot EXCEPT ![p][s] = [slot[p][s] EXCEPT !.pc = "finish"]]
           \/ slot' = [slot EXCEPT ![p][s] = [slot[p][s] EXCEPT !.attempt = slot[p][s].attempt + 1]]
    BY <1>8 DEF attemptReturns
  <2>2. /\ [slot[p][s] EXCEPT !.pc = "finish"].pc = "finish"
        /\ [slot[p][s] EXCEPT !.attempt = slot[p][s].attempt + 1].canceled = slot[p][s].canceled
    BY <1>0 DEF Goroutine
  <2>. QED  BY <1>1, <1>2, <2>1, <2>2 DEF InBody
<1>9. CASE renewTaskLease(p, s)
  <2>1. /\ InBody(p, s)
        /\ \/ slot' = [slot EXCEPT ![p][s] = [slot[p][s] EXCEPT !.exp = expiresAt]]
           \/ slot' = [slot EXCEPT ![p][s] = [slot[p][s] EXCEPT !.canceled = TRUE]]
    BY <1>9 DEF renewTaskLease, LeaseLost
  <2>2. /\ [slot[p][s] EXCEPT !.exp = expiresAt].canceled = slot[p][s].canceled
        /\ [slot[p][s] EXCEPT !.canceled = TRUE].canceled
    BY <1>0 DEF Goroutine
  <2>. QED  BY <1>1, <1>2, <2>1, <2>2 DEF InBody
<1>10. CASE finishTaskRun(p, s)
  <2>1. slot' = [slot EXCEPT ![p][s] = Return(slot[p][s])]
    BY <1>10 DEF finishTaskRun
  <2>. QED  BY <1>0, <1>1, <1>2, <1>3, <2>1 DEF InBody
<1>. QED  BY <1>4, <1>5, <1>6, <1>7, <1>8, <1>9, <1>10 DEF GoroutineStep

LEMMA DoneInductive ==
    ASSUME LeaseInvariant, DoneIsCancelled, [TaskNext]_taskVars
    PROVE  DoneIsCancelled'
<1>. USE BackgroundTasksAssumption
<1>0. /\ TaskTypeOK /\ slot \in [Runtimes -> [Slots -> Goroutine]]
      /\ stopped \in [Runtimes -> BOOLEAN] /\ closed \in [Nodes -> BOOLEAN]
      /\ active \in [Nodes -> Runtimes \cup {None}]
      /\ \A p \in Runtimes, s \in Slots : slot[p][s] \in Goroutine /\ NodeOf[p] \in Nodes
  BY DEF LeaseInvariant, TaskTypeOK
<1>k. ASSUME UNCHANGED <<stopped, closed, active>>,
             \A p \in Runtimes, s \in Slots : InBody(p, s)' =>
                 InBody(p, s) /\ (slot[p][s].canceled => slot'[p][s].canceled)
      PROVE  DoneIsCancelled'
  BY <1>k DEF DoneIsCancelled, ctxDone
<1>1. ASSUME NEW p \in Runtimes, NEW s \in Slots, GoroutineStep(p, s) PROVE DoneIsCancelled'
  <2>1. UNCHANGED <<stopped, closed, active>>
    BY <1>0, <1>1, StepOf
  <2>2. ASSUME NEW q \in Runtimes, NEW t \in Slots, ctxDone(q), InBody(q, t)' PROVE slot'[q][t].canceled
    <3>1. CASE <<q, t>> # <<p, s>>
      <4>1. slot'[q][t] = slot[q][t]
        BY <1>0, <1>1, <3>1, StepOf
      <4>. QED  BY <2>2, <4>1 DEF DoneIsCancelled, InBody
    <3>2. CASE <<q, t>> = <<p, s>>
      <4>1. \/ slot'[q][t].canceled = ctxDone(q)
            \/ InBody(q, t) /\ (slot[q][t].canceled => slot'[q][t].canceled)
        BY <1>0, <1>1, <2>2, <3>2, StepOf
      <4>. QED  BY <2>2, <4>1 DEF DoneIsCancelled
    <3>. QED  BY <3>1, <3>2
  <2>. QED  BY <2>1, <2>2 DEF DoneIsCancelled, ctxDone
<1>2. ASSUME NEW p \in Runtimes, ActivateRuntime(p) PROVE DoneIsCancelled'
  <2>1. /\ closed' = closed /\ active' = [active EXCEPT ![NodeOf[p]] = p]
        /\ stopped' = [stopped EXCEPT ![p] = FALSE]
    BY <1>2 DEF ActivateRuntime
  <2>2. \A q \in Runtimes : ctxDone(q)' => ctxDone(q)
    BY <1>0, <2>1 DEF ctxDone
  <2>3. \A q \in Runtimes, t \in Slots : InBody(q, t)' => slot'[q][t] = slot[q][t]
    <3>1. CASE slot' = slot
      BY <3>1
    <3>2. CASE slot' # slot
      <4>1. PICK once \in Slots, loop \in Slots : slot' = [slot EXCEPT ![p] = [s \in Slots |->
                    IF s = once /\ SpecOf[p].runOnStart THEN [Off EXCEPT !.pc = "run"]
                    ELSE IF s = loop /\ SpecOf[p].periodic THEN [Off EXCEPT !.pc = "wait", !.loop = TRUE]
                    ELSE slot[p][s]]]
        BY <1>2, <3>2 DEF ActivateRuntime
      <4>2. [Off EXCEPT !.pc = "run"].pc # "body" /\ [Off EXCEPT !.pc = "wait", !.loop = TRUE].pc # "body"
        BY DEF Off
      <4>. QED  BY <1>0, <4>1, <4>2 DEF InBody
    <3>. QED  BY <3>1, <3>2
  <2>4. \A n \in Nodes : active'[n] # None => NodeOf[active'[n]] = n
    BY <1>0, <2>1 DEF DoneIsCancelled
  <2>. QED  BY <2>2, <2>3, <2>4 DEF DoneIsCancelled, InBody
<1>c. ASSUME NEW p \in Runtimes, NEW gs \in [Slots -> Goroutine], NEW t \in Slots
      PROVE  /\ Cancelled(p, gs)[t].pc = gs[t].pc
             /\ Cancelled(p, gs)[t].pc = "body" => Cancelled(p, gs)[t].canceled
  BY DEF Cancelled, Goroutine
<1>3. ASSUME NEW p \in Runtimes, stopTasks(p) PROVE DoneIsCancelled'
  <2>1. /\ UNCHANGED <<closed, active>> /\ stopped' = [stopped EXCEPT ![p] = TRUE]
        /\ slot' = [slot EXCEPT ![p] = Cancelled(p, slot[p])]
    BY <1>3 DEF stopTasks
  <2>2. ASSUME NEW q \in Runtimes, NEW t \in Slots, ctxDone(q)', InBody(q, t)' PROVE slot'[q][t].canceled
    <3>1. CASE q = p
      BY <1>0, <1>c, <2>1, <2>2, <3>1 DEF InBody
    <3>2. CASE q # p
      <4>1. slot'[q] = slot[q] /\ ctxDone(q)
        BY <1>0, <2>1, <2>2, <3>2 DEF ctxDone
      <4>. QED  BY <2>2, <4>1 DEF DoneIsCancelled, InBody
    <3>. QED  BY <3>1, <3>2
  <2>. QED  BY <2>1, <2>2 DEF DoneIsCancelled
<1>m. ASSUME NEW q \in Runtimes, NEW t \in Slots,
             slot' = [slot EXCEPT ![q][t] = [slot[q][t] EXCEPT !.canceled = TRUE]]
      PROVE  \A p \in Runtimes, s \in Slots :
                 slot'[p][s].pc = slot[p][s].pc /\ (slot[p][s].canceled => slot'[p][s].canceled)
  <2>1. /\ [slot[q][t] EXCEPT !.canceled = TRUE].pc = slot[q][t].pc
        /\ [slot[q][t] EXCEPT !.canceled = TRUE].canceled
    BY <1>0 DEF Goroutine
  <2>2. \A p \in Runtimes, s \in Slots :
            slot'[p][s] = IF <<p, s>> = <<q, t>> THEN [slot[q][t] EXCEPT !.canceled = TRUE] ELSE slot[p][s]
    BY <1>0, <1>m
  <2>3. ASSUME NEW p \in Runtimes, NEW s \in Slots
        PROVE  slot'[p][s].pc = slot[p][s].pc /\ (slot[p][s].canceled => slot'[p][s].canceled)
    <3>1. CASE <<p, s>> = <<q, t>>
      BY <2>1, <2>2, <3>1
    <3>2. CASE <<p, s>> # <<q, t>>
      BY <2>2, <3>2
    <3>. QED  BY <3>1, <3>2
  <2>. QED  BY <2>3
<1>4. ASSUME NEW n \in Nodes, stopMarks(n) PROVE DoneIsCancelled'
  <2>1. UNCHANGED <<stopped, active, closed>>
    BY <1>4 DEF stopMarks
  <2>2. \A p \in Runtimes, s \in Slots :
            /\ slot'[p][s].pc = slot[p][s].pc
            /\ slot[p][s].canceled => slot'[p][s].canceled
    <3>1. slot' = slot \/ \E q \in Runtimes, t \in Slots :
                              slot' = [slot EXCEPT ![q][t] = [slot[q][t] EXCEPT !.canceled = TRUE]]
      <4>1. mgr[n].rt \in Runtimes
        BY <1>0, <1>4 DEF stopMarks, NoStop, TaskTypeOK
      <4>2. \/ slot' = slot
            \/ /\ cancel[mgr[n].rt] \in Slots
               /\ slot' = [slot EXCEPT ![mgr[n].rt][cancel[mgr[n].rt]] =
                             [slot[mgr[n].rt][cancel[mgr[n].rt]] EXCEPT !.canceled = TRUE]]
        BY <1>4 DEF stopMarks
      <4>. QED  BY <4>1, <4>2
    <3>. QED  BY <1>0, <1>m, <3>1
  <2>. QED  BY <1>k, <2>1, <2>2 DEF InBody
<1>5. ASSUME NEW n \in Nodes, stopReturns(n) PROVE DoneIsCancelled'
  BY <1>k, <1>5 DEF stopReturns, InBody
<1>6. ASSUME NEW n \in Nodes, CloseOperations(n) PROVE DoneIsCancelled'
  <2>1. /\ active' = active /\ closed' = [closed EXCEPT ![n] = TRUE]
        /\ stopped' = [p \in Runtimes |-> stopped[p] \/ p = active[n]]
        /\ slot' = [p \in Runtimes |-> IF NodeOf[p] = n THEN Cancelled(p, slot[p]) ELSE slot[p]]
    BY <1>6 DEF CloseOperations
  <2>2. ASSUME NEW q \in Runtimes, NEW t \in Slots, ctxDone(q)', InBody(q, t)' PROVE slot'[q][t].canceled
    <3>1. CASE NodeOf[q] = n
      BY <1>0, <1>c, <2>1, <2>2, <3>1 DEF InBody
    <3>2. CASE NodeOf[q] # n
      <4>1. slot'[q] = slot[q] /\ q # active[n]
        BY <1>0, <2>1, <3>2 DEF DoneIsCancelled
      <4>2. ctxDone(q)
        BY <1>0, <2>1, <2>2, <3>2, <4>1 DEF ctxDone
      <4>. QED  BY <2>2, <4>1, <4>2 DEF DoneIsCancelled, InBody
    <3>. QED  BY <3>1, <3>2
  <2>. QED  BY <2>1, <2>2 DEF DoneIsCancelled
<1>7. ASSUME NEW n \in Nodes, TriggerTask(n) PROVE DoneIsCancelled'
  <2>1. UNCHANGED <<stopped, active, closed>>
    BY <1>7 DEF TriggerTask
  <2>2. active[n] \in Runtimes /\ \E s \in Slots : slot' = [slot EXCEPT ![active[n]][s] = [Off EXCEPT !.pc = "run"]]
    BY <1>0, <1>7 DEF TriggerTask
  <2>3. [Off EXCEPT !.pc = "run"].pc = "run"
    BY DEF Off
  <2>4. \A p \in Runtimes, s \in Slots : slot'[p][s].pc = "run" \/ slot'[p][s] = slot[p][s]
    BY <1>0, <2>2, <2>3
  <2>. QED  BY <1>k, <2>1, <2>4 DEF InBody
<1>8. ASSUME NEW n \in Nodes, CancelTask(n) PROVE DoneIsCancelled'
  <2>1. UNCHANGED <<stopped, active, closed>>
    BY <1>8 DEF CancelTask
  <2>2. \A p \in Runtimes, s \in Slots :
            /\ slot'[p][s].pc = slot[p][s].pc
            /\ slot[p][s].canceled => slot'[p][s].canceled
    <3>1. \E q \in Runtimes, t \in Slots :
              slot' = [slot EXCEPT ![q][t] = [slot[q][t] EXCEPT !.canceled = TRUE]]
      BY <1>0, <1>8 DEF CancelTask, TaskTypeOK
    <3>. QED  BY <1>m, <3>1
  <2>. QED  BY <1>k, <2>1, <2>2 DEF InBody
<1>9. ASSUME NEW n \in Nodes, CrashNode(n) PROVE DoneIsCancelled'
  <2>1. /\ active' = [active EXCEPT ![n] = None] /\ closed' = [closed EXCEPT ![n] = FALSE]
        /\ stopped' = [p \in Runtimes |-> NodeOf[p] # n /\ stopped[p]]
        /\ \A p \in Runtimes : slot'[p] = IF NodeOf[p] = n THEN [s \in Slots |-> Off] ELSE slot[p]
    BY <1>9 DEF CrashNode
  <2>2. \A p \in Runtimes, s \in Slots : InBody(p, s)' => NodeOf[p] # n /\ slot'[p] = slot[p]
    BY <2>1 DEF InBody, Off
  <2>3. \A p \in Runtimes : ctxDone(p)' => ctxDone(p)
    BY <1>0, <2>1 DEF ctxDone
  <2>4. \A m \in Nodes : active'[m] # None => NodeOf[active'[m]] = m
    BY <1>0, <2>1 DEF DoneIsCancelled
  <2>. QED  BY <2>2, <2>3, <2>4 DEF DoneIsCancelled, InBody
<1>10. ASSUME ListTaskLeases \/ DeleteTaskLease \/ TaskTick \/ UNCHANGED taskVars PROVE DoneIsCancelled'
  <2>1. UNCHANGED <<stopped, closed, active, slot>>
    BY <1>10 DEF ListTaskLeases, DeleteTaskLease, TaskTick, memory, taskVars
  <2>. QED  BY <1>k, <2>1 DEF InBody
<1>. QED  BY <1>1, <1>2, <1>3, <1>4, <1>5, <1>6, <1>7, <1>8, <1>9, <1>10 DEF TaskNext

(* What the others do to a goroutine: they launch one only where the node is *)
(* open, and end it only with the process.                                   *)
LEMMA OthersOf ==
    ASSUME LeaseInvariant, DoneIsCancelled, NEW p \in Runtimes, NEW s \in Slots, closed[NodeOf[p]],
           [TaskNext]_taskVars, ~GoroutineStep(p, s)
    PROVE  slot'[p][s].pc \in {slot[p][s].pc, "off"}
<1>. USE BackgroundTasksAssumption
<1>0. /\ TaskTypeOK /\ slot \in [Runtimes -> [Slots -> Goroutine]]
      /\ active \in [Nodes -> Runtimes \cup {None}]
      /\ \A q \in Runtimes, t \in Slots : slot[q][t] \in Goroutine /\ NodeOf[q] \in Nodes
  BY DEF LeaseInvariant, TaskTypeOK
<1>1. ASSUME NEW q \in Runtimes, NEW t \in Slots, GoroutineStep(q, t) PROVE slot'[p][s].pc = slot[p][s].pc
  <2>1. <<q, t>> # <<p, s>>
    BY <1>1
  <2>. QED  BY <1>0, <1>1, <2>1, StepOf
<1>2. ASSUME NEW q \in Runtimes, ActivateRuntime(q) PROVE slot'[p][s].pc = slot[p][s].pc
  <2>1. CASE slot' = slot
    BY <2>1
  <2>2. CASE slot' # slot
    <3>1. startTask(q) /\ \E gs : slot' = [slot EXCEPT ![q] = gs]
      BY <1>2, <2>2 DEF ActivateRuntime
    <3>2. q # p
      BY <3>1 DEF startTask
    <3>. QED  BY <1>0, <3>1, <3>2
  <2>. QED  BY <2>1, <2>2
<1>3. ASSUME NEW q \in Runtimes, stopTasks(q) PROVE slot'[p][s].pc = slot[p][s].pc
  BY <1>0, <1>3 DEF stopTasks, Cancelled, Goroutine
<1>4. ASSUME NEW n \in Nodes, stopMarks(n) PROVE slot'[p][s].pc = slot[p][s].pc
  BY <1>0, <1>4 DEF stopMarks, Goroutine
<1>5. ASSUME NEW n \in Nodes, stopReturns(n) PROVE slot'[p][s].pc = slot[p][s].pc
  BY <1>5 DEF stopReturns
<1>6. ASSUME NEW n \in Nodes, CloseOperations(n) PROVE slot'[p][s].pc = slot[p][s].pc
  BY <1>0, <1>6 DEF CloseOperations, Cancelled, Goroutine
<1>7. ASSUME NEW n \in Nodes, TriggerTask(n) PROVE slot'[p][s].pc = slot[p][s].pc
  <2>1. /\ active[n] \in Runtimes /\ ~ctxDone(active[n])
        /\ \E t \in Slots : slot' = [slot EXCEPT ![active[n]][t] = [Off EXCEPT !.pc = "run"]]
    BY <1>0, <1>7 DEF TriggerTask, launchTask
  <2>2. active[n] # p
    BY <2>1 DEF ctxDone
  <2>. QED  BY <1>0, <2>1, <2>2
<1>8. ASSUME NEW n \in Nodes, CancelTask(n) PROVE slot'[p][s].pc = slot[p][s].pc
  BY <1>0, <1>8 DEF CancelTask, Goroutine
<1>9. ASSUME NEW n \in Nodes, CrashNode(n) PROVE slot'[p][s].pc \in {slot[p][s].pc, "off"}
  BY <1>9 DEF CrashNode, Off
<1>10. ASSUME ListTaskLeases \/ DeleteTaskLease \/ TaskTick \/ UNCHANGED taskVars
       PROVE  slot'[p][s].pc = slot[p][s].pc
  BY <1>10 DEF ListTaskLeases, DeleteTaskLease, TaskTick, memory, taskVars
<1>. QED  BY <1>1, <1>2, <1>3, <1>4, <1>5, <1>6, <1>7, <1>8, <1>9, <1>10 DEF TaskNext

(* A step of its own takes a goroutine of a closed node down, unless it is   *)
(* its renewer's, which leaves it where it is.                               *)
LEMMA OwnStepDescends ==
    ASSUME LeaseInvariant, DoneIsCancelled, NEW p \in Runtimes, NEW s \in Slots, closed[NodeOf[p]]
    PROVE  /\ TaskStep(p, s) => StepsLeft(slot'[p][s].pc) < StepsLeft(slot[p][s].pc)
           /\ GoroutineStep(p, s) => TaskStep(p, s)
<1>0. slot \in [Runtimes -> [Slots -> Goroutine]] /\ slot[p][s] \in Goroutine /\ ctxDone(p)
  BY DEF LeaseInvariant, TaskTypeOK, ctxDone
<1>1. ASSUME NEW g, slot' = [slot EXCEPT ![p][s] = g] PROVE slot'[p][s] = g
  BY <1>0, <1>1
<1>2. InBody(p, s) => slot[p][s].canceled
  BY <1>0 DEF DoneIsCancelled
<1>3. Off.pc = "off" /\ Return(slot[p][s]).pc \in {"off", "wait"}
  BY DEF Return, Off
<1>4. GoroutineStep(p, s) => TaskStep(p, s)
  BY <1>2 DEF GoroutineStep, TaskStep, attemptReturns, renewTaskLease
<1>5. ASSUME TimerFires(p, s) PROVE StepsLeft(slot'[p][s].pc) < StepsLeft(slot[p][s].pc)
  <2>1. slot[p][s].pc = "wait" /\ slot'[p][s].pc = "off"
    BY <1>0, <1>1, <1>3, <1>5 DEF TimerFires
  <2>. QED  BY <2>1 DEF StepsLeft
<1>6. ASSUME runTask(p, s) PROVE StepsLeft(slot'[p][s].pc) < StepsLeft(slot[p][s].pc)
  <2>1. \/ slot' = [slot EXCEPT ![p][s] = Return(slot[p][s])]
        \/ \E pc \in {"acquire", "setup"} : slot' = [slot EXCEPT ![p][s] = [slot[p][s] EXCEPT !.pc = pc]]
    BY <1>6 DEF runTask
  <2>2. slot[p][s].pc = "run" /\ slot'[p][s].pc \in {"off", "wait", "acquire", "setup"}
    BY <1>0, <1>1, <1>3, <1>6, <2>1 DEF runTask, Goroutine
  <2>. QED  BY <2>2 DEF StepsLeft
<1>7. ASSUME acquireLease(p, s) PROVE StepsLeft(slot'[p][s].pc) < StepsLeft(slot[p][s].pc)
  <2>1. \/ slot' = [slot EXCEPT ![p][s] = Return(slot[p][s])]
        \/ slot' = [slot EXCEPT ![p][s] =
                      [slot[p][s] EXCEPT !.pc = "setup", !.leased = TRUE, !.exp = expiresAt]]
    BY <1>7 DEF acquireLease
  <2>2. [slot[p][s] EXCEPT !.pc = "setup", !.leased = TRUE, !.exp = expiresAt].pc = "setup"
    BY <1>0 DEF Goroutine
  <2>3. slot[p][s].pc = "acquire" /\ slot'[p][s].pc \in {"off", "wait", "setup"}
    BY <1>1, <1>3, <1>7, <2>1, <2>2 DEF acquireLease
  <2>. QED  BY <2>3 DEF StepsLeft
<1>8. ASSUME setupRun(p, s) PROVE StepsLeft(slot'[p][s].pc) < StepsLeft(slot[p][s].pc)
  <2>1. slot[p][s].pc = "setup" /\ slot'[p][s].pc = "body"
    BY <1>0, <1>1, <1>8 DEF setupRun, Goroutine
  <2>. QED  BY <2>1 DEF StepsLeft
<1>9. ASSUME slot[p][s].canceled, attemptReturns(p, s) PROVE StepsLeft(slot'[p][s].pc) < StepsLeft(slot[p][s].pc)
  <2>1. slot[p][s].pc = "body" /\ slot'[p][s].pc = "finish"
    BY <1>0, <1>1, <1>9 DEF attemptReturns, InBody, Goroutine
  <2>. QED  BY <2>1 DEF StepsLeft
<1>10. ASSUME finishTaskRun(p, s) PROVE StepsLeft(slot'[p][s].pc) < StepsLeft(slot[p][s].pc)
  <2>1. slot[p][s].pc = "finish" /\ slot'[p][s].pc \in {"off", "wait"}
    BY <1>0, <1>1, <1>3, <1>10 DEF finishTaskRun
  <2>. QED  BY <2>1 DEF StepsLeft
<1>. QED  BY <1>4, <1>5, <1>6, <1>7, <1>8, <1>9, <1>10 DEF TaskStep

(* The safety half of ClosedNodeDrains, for any number of runtimes and       *)
(* goroutines: from Operations.Close on, every goroutine of the node only    *)
(* goes down, from any point of runTask, in at most six steps of its own,    *)
(* and a task's function that still runs has been told to stop.  With the    *)
(* fairness of TaskFairSpec that is the end of all of them.                  *)
THEOREM ClosedNodeGoesDown == TaskSpec => []DoneIsCancelled /\ ClosedNodeDescends
<1>1. TaskInit => DoneIsCancelled
  BY DEF TaskInit, DoneIsCancelled, InBody, Off
<1>2. TaskSpec => []DoneIsCancelled
  BY <1>1, LeaseInductive, DoneInductive, PTL DEF TaskSpec
<1>3. ASSUME LeaseInvariant, DoneIsCancelled, [TaskNext]_taskVars
      PROVE  [\A p \in Runtimes, s \in Slots : closed[NodeOf[p]] => TowardsTheEnd(p, s)]_taskVars
  <2>. SUFFICES ASSUME NEW p \in Runtimes, NEW s \in Slots, closed[NodeOf[p]] PROVE TowardsTheEnd(p, s)
    OBVIOUS
  <2>1. slot[p][s].pc \in Pc
    BY <1>3 DEF LeaseInvariant, TaskTypeOK, Goroutine
  <2>2. CASE TaskStep(p, s)
    <3>1. StepsLeft(slot'[p][s].pc) < StepsLeft(slot[p][s].pc)
      BY <1>3, <2>2, OwnStepDescends
    <3>2. StepsLeft(slot[p][s].pc) \in Nat
      BY <2>1 DEF StepsLeft, Pc
    <3>3. slot'[p][s].pc # slot[p][s].pc
      BY <3>1, <3>2
    <3>. QED  BY <3>1, <3>3 DEF TowardsTheEnd
  <2>3. CASE ~TaskStep(p, s)
    <3>1. slot'[p][s].pc \in {slot[p][s].pc, "off"}
      BY <1>3, <2>3, OwnStepDescends, OthersOf
    <3>2. slot[p][s].pc # "off" => StepsLeft("off") < StepsLeft(slot[p][s].pc)
      BY <2>1 DEF StepsLeft, Pc
    <3>. QED  BY <2>3, <3>1, <3>2 DEF TowardsTheEnd
  <2>. QED  BY <2>2, <2>3
<1>. QED  BY <1>2, <1>3, LeaseInductive, PTL DEF TaskSpec, ClosedNodeDescends
=============================================================================
