---------------------------- MODULE EventDelivery ----------------------------
(***************************************************************************)
(* Plugin events: the queue that writes them to the database, the queue    *)
(* that hands them to subscribers, and the dead letters of deliveries that *)
(* failed, which live both in plugin_subscriber_dead_letters (shared by    *)
(* the nodes) and in the memory of the node (internal/pluginmanager/       *)
(* operations.go, repository.go).  Each node has one consumer per queue;   *)
(* an administrator replays or drops dead letters at the same time.        *)
(***************************************************************************)
EXTENDS Naturals, Sequences, FiniteSets

CONSTANTS
    Gateways, Events,
    Subscribers,  \* plugins with an event subscriber
    QueueLimit,   \* DefaultEventQueueLimit
    DeadLimit,    \* DefaultSubscriberDeadLetterLimit
    MaxRequests   \* bound of the replays and drops

ASSUME EventDeliveryAssumption ==
    /\ QueueLimit \in Nat \ {0} /\ DeadLimit \in Nat \ {0} /\ MaxRequests \in Nat
    /\ IsFiniteSet(Subscribers)

VARIABLES
    emitted,    \* events some plugin emitted
    staged,     \* <<node, event>> between the two queues
    eventQueue, subscriberQueue, subscribers, shut,
    rows,       \* plugin_events
    dropped,    \* events counted as dropped or as dead letters of the first queue
    missed,     \* events counted as dropped before the subscriber queue
    worker,     \* what the consumer and the replay of a node are doing
    records,    \* plugin_subscriber_dead_letters
    letters,    \* subscriberDeadEvents of each node
    dropping,   \* the records a drop has listed on a node
    got,        \* <<event, subscriber>> delivered
    failed,     \* <<event, subscriber>> whose retries were used up
    forgotten,  \* dropped on request, declined on replay, or pushed out
    requests

emitVars == <<emitted, staged, eventQueue, rows, dropped>>
deadVars == <<records, letters, dropping, got, failed, forgotten>>
eventVars == <<emitVars, subscriberQueue, subscribers, shut, missed, worker, deadVars,
          requests>>

\* An entry carries the identifier of its record, 0 when it was not saved.
Entry == [id : Nat, event : Events, sub : Subscribers]
Record == [id : Nat \ {0}, event : Events, sub : Subscribers,
           status : {"pending", "replayed", "dropped"}]
Roles == {"consumer", "replay"}

Pair(x) == <<x.event, x.sub>>

EventInit ==
    /\ emitted = {} /\ staged = {}
    /\ eventQueue = [n \in Gateways |-> << >>]
    /\ subscriberQueue = [n \in Gateways |-> << >>]
    /\ subscribers = [n \in Gateways |-> {}]
    /\ shut = [n \in Gateways |-> FALSE]
    /\ rows = {} /\ dropped = {} /\ missed = {}
    /\ worker = [n \in Gateways |-> [r \in Roles |-> << >>]]
    /\ records = {} /\ letters = [n \in Gateways |-> << >>]
    /\ dropping = [n \in Gateways |-> {}]
    /\ got = {} /\ failed = {} /\ forgotten = {}
    /\ requests = 0

\* The manager publishes the subscribers after every start and stop.
SetSubscribers(n, subs) ==
    /\ subs # subscribers[n]
    /\ subscribers' = [subscribers EXCEPT ![n] = subs]
    /\ UNCHANGED <<emitVars, subscriberQueue, shut, missed, worker, deadVars, requests>>

-----------------------------------------------------------------------------
(* The first queue.                                                        *)

\* A full queue: the event is counted and a row says so, if it can be saved.
QueueFull(e) == dropped' = dropped \cup {e} /\ rows' \in {rows, rows \cup {e}}

\* queueEvent: refused when shut; a full queue leaves a dropped row.
\* valid says whether validateEvent accepted the event.
queueEvent(n, e, valid) ==
    /\ e \notin emitted
    /\ emitted' = emitted \cup {e}
    /\ IF shut[n]
       THEN /\ dropped' = dropped \cup {e}
            /\ UNCHANGED <<eventQueue, rows, staged>>
       ELSE /\ staged' = staged \cup {[node |-> n, event |-> e, valid |-> valid]}
            /\ IF Len(eventQueue[n]) < QueueLimit
               THEN /\ eventQueue' = [eventQueue EXCEPT ![n] = Append(@, e)]
                    /\ UNCHANGED <<rows, dropped>>
               ELSE /\ QueueFull(e)
                    /\ UNCHANGED eventQueue
    /\ UNCHANGED <<subscriberQueue, subscribers, shut, missed, worker, deadVars, requests>>

\* consumeEvents: the event is saved, or counted when the database fails.
consumeEvents(n) ==
    /\ ~shut[n] /\ eventQueue[n] # << >>
    /\ eventQueue' = [eventQueue EXCEPT ![n] = Tail(@)]
    /\ \/ rows' = rows \cup {Head(eventQueue[n])} /\ UNCHANGED dropped
       \/ dropped' = dropped \cup {Head(eventQueue[n])} /\ UNCHANGED rows
    /\ UNCHANGED <<emitted, staged, subscriberQueue, subscribers, shut, missed, worker,
                   deadVars, requests>>

\* queueSubscriberEvent asks again whether the node is shut.
queueSubscriberEvent(x) ==
    LET n == x.node
        wanted == subscribers[n] # {} /\ x.valid
        room == Len(subscriberQueue[n]) < QueueLimit
    IN
    /\ x \in staged
    /\ staged' = staged \ {x}
    /\ missed' = IF shut[n] \/ (wanted /\ ~room) THEN missed \cup {x.event} ELSE missed
    /\ subscriberQueue' = IF ~shut[n] /\ wanted /\ room
                          THEN [subscriberQueue EXCEPT ![n] = Append(@, x.event)]
                          ELSE subscriberQueue
    /\ UNCHANGED <<emitted, eventQueue, rows, dropped, subscribers, shut, worker, deadVars,
                   requests>>

-----------------------------------------------------------------------------
(* Delivery, by the consumer and by a replay.                              *)

NewJob(e, s, id) == [event |-> e, sub |-> s, id |-> id, saved |-> 0, pc |-> "deliver"]

\* The jobs of one event, one per subscriber of the snapshot.
JobsOf(n, e) ==
    {js \in [1..Cardinality(subscribers[n]) -> {NewJob(e, s, 0) : s \in subscribers[n]}] :
        \A i, j \in DOMAIN js : i # j => js[i] # js[j]}

consumeSubscriberEvents(n) ==
    /\ ~shut[n] /\ subscriberQueue[n] # << >> /\ worker[n]["consumer"] = << >>
    /\ subscriberQueue' = [subscriberQueue EXCEPT ![n] = Tail(@)]
    /\ \E js \in JobsOf(n, Head(subscriberQueue[n])) :
        worker' = [worker EXCEPT ![n]["consumer"] = js]
    /\ UNCHANGED <<emitVars, subscribers, shut, missed, deadVars, requests>>

\* The job of a worker moves to pc, or the worker goes on to the next one.
Goto(n, r, pc) == worker' = [worker EXCEPT ![n][r] = [@ EXCEPT ![1].pc = pc]]
NextJob(n, r) == worker' = [worker EXCEPT ![n][r] = Tail(@)]

\* A replayed job is marked afterwards, whatever came of it, when it has a
\* record.
Done(n, r) ==
    IF r = "replay" /\ Head(worker[n][r]).id > 0 THEN Goto(n, r, "mark") ELSE NextJob(n, r)

\* deliverSubscriberEvent: declined, taken, or failed in every attempt.
deliverSubscriberEvent(n, r) ==
    LET j == Head(worker[n][r]) IN
    /\ worker[n][r] # << >> /\ j.pc = "deliver"
    /\ \/ /\ forgotten' = forgotten \cup (IF r = "replay" THEN {Pair(j)} ELSE {})
          /\ Done(n, r) /\ UNCHANGED <<got, failed>>
       \/ /\ got' = got \cup {Pair(j)}
          /\ Done(n, r) /\ UNCHANGED <<failed, forgotten>>
       \/ /\ failed' = failed \cup {Pair(j)}
          /\ Goto(n, r, "save") /\ UNCHANGED <<got, forgotten>>
    /\ UNCHANGED <<emitVars, subscriberQueue, subscribers, shut, missed, records, letters,
                   dropping, requests>>

nextID == Cardinality(records) + 1

GiveUp(n, r) == NextJob(n, r)

\* A letter that was not saved is still kept in memory.
SaveFailed(n, r) == Goto(n, r, "keep")

\* storeSubscriberDeadLetter: the record first (the statement may fail) ...
SaveSubscriberDeadLetter(n, r) ==
    LET j == Head(worker[n][r]) IN
    /\ worker[n][r] # << >> /\ j.pc = "save"
    /\ \/ /\ records' = records \cup
                {[id |-> nextID, event |-> j.event, sub |-> j.sub, status |-> "pending"]}
          /\ worker' = [worker EXCEPT ![n][r][1] = [@ EXCEPT !.pc = "keep", !.saved = nextID]]
       \/ /\ UNCHANGED records
          /\ SaveFailed(n, r)
    /\ UNCHANGED <<emitVars, subscriberQueue, subscribers, shut, missed, letters, dropping,
                   got, failed, forgotten, requests>>

\* restoreSubscriberDeadLetter: the oldest entry is pushed out of a full list.
Restored(list, entry) ==
    Append(IF Len(list) >= DeadLimit THEN Tail(list) ELSE list, entry)
PushedOut(list) == IF Len(list) >= DeadLimit THEN {Pair(Head(list))} ELSE {}

\* ... and then the memory of the node.
storeSubscriberDeadLetter(n, r) ==
    LET j == Head(worker[n][r]) IN
    /\ worker[n][r] # << >> /\ j.pc = "keep"
    /\ letters' = [letters EXCEPT ![n] =
                    Restored(@, [id |-> j.saved, event |-> j.event, sub |-> j.sub])]
    /\ forgotten' = forgotten \cup PushedOut(letters[n])
    /\ Done(n, r)
    /\ UNCHANGED <<emitVars, subscriberQueue, subscribers, shut, missed, records, dropping,
                   got, failed, requests>>

-----------------------------------------------------------------------------
(* Dead letters: replay and drop, each with its own view of what is there. *)

PendingSubscriberDeadLetters ==
    {x \in records : x.status = "pending" /\
        Cardinality({y \in records : y.status = "pending" /\ y.id < x.id}) < DeadLimit}

\* The rows of a query, oldest first.
Ordered(s) ==
    {q \in [1..Cardinality(s) -> s] : \A i, j \in DOMAIN q : i < j => q[i].id < q[j].id}

\* The database when it answers with records, the memory (emptied) otherwise.
FromMemory(dbFails) == dbFails \/ PendingSubscriberDeadLetters = {}
pendingSubscriberDeadLetters(n, dbFails) ==
    IF FromMemory(dbFails) THEN {letters[n]} ELSE Ordered(PendingSubscriberDeadLetters)

\* One by one, the entries are delivered again; the entry of a subscriber that
\* is gone returns to the memory as it was, and is not marked.
ReplayJob(n, x) ==
    IF x.sub \in subscribers[n] THEN NewJob(x.event, x.sub, x.id)
    ELSE [NewJob(x.event, x.sub, 0) EXCEPT !.saved = x.id, !.pc = "keep"]

ReplaySubscriberDeadLetters(n, dbFails) ==
    /\ requests < MaxRequests /\ requests' = requests + 1
    /\ worker[n]["replay"] = << >>
    /\ \E found \in pendingSubscriberDeadLetters(n, dbFails) :
        /\ found # << >>
        /\ worker' = [worker EXCEPT ![n]["replay"] = [i \in DOMAIN found |-> ReplayJob(n, found[i])]]
    /\ letters' = [letters EXCEPT ![n] = IF FromMemory(dbFails) THEN << >> ELSE @]
    /\ UNCHANGED <<emitVars, subscriberQueue, subscribers, shut, missed, records, dropping,
                   got, failed, forgotten>>

Marked(ids, status) ==
    {IF x.id \in ids THEN [x EXCEPT !.status = status] ELSE x : x \in records}

MarkSubscriberDeadLetter(n) ==
    LET j == Head(worker[n]["replay"]) IN
    /\ worker[n]["replay"] # << >> /\ j.pc = "mark"
    /\ records' = Marked({j.id}, "replayed")
    /\ NextJob(n, "replay")
    /\ UNCHANGED <<emitVars, subscriberQueue, subscribers, shut, missed, letters, dropping,
                   got, failed, forgotten, requests>>

\* DropSubscriberDeadLetters lists the records, then marks those and clears
\* the memory; with no record to list it clears the memory at once.
ListDropped(n) ==
    /\ requests < MaxRequests /\ requests' = requests + 1
    /\ dropping[n] = {} /\ PendingSubscriberDeadLetters # {}
    /\ dropping' = [dropping EXCEPT ![n] = {x.id : x \in PendingSubscriberDeadLetters}]
    /\ UNCHANGED <<emitVars, subscriberQueue, subscribers, shut, missed, worker, records,
                   letters, got, failed, forgotten>>

DropSubscriberDeadLetters(n) ==
    /\ \/ /\ dropping[n] # {} /\ UNCHANGED requests
       \/ /\ dropping[n] = {} /\ letters[n] # << >>
          /\ requests < MaxRequests /\ requests' = requests + 1
    /\ records' = Marked(dropping[n], "dropped")
    /\ letters' = [letters EXCEPT ![n] = << >>]
    /\ dropping' = [dropping EXCEPT ![n] = {}]
    /\ forgotten' = forgotten \cup {Pair(letters[n][i]) : i \in DOMAIN letters[n]}
                              \cup {Pair(x) : x \in {y \in records : y.id \in dropping[n]}}
    /\ UNCHANGED <<emitVars, subscriberQueue, subscribers, shut, missed, worker, got,
                   failed>>

CloseQueues(n) ==
    /\ ~shut[n]
    /\ shut' = [shut EXCEPT ![n] = TRUE]
    /\ UNCHANGED <<emitVars, subscriberQueue, subscribers, missed, worker, deadVars, requests>>

EventNext ==
    \/ \E n \in Gateways, e \in Events, valid \in BOOLEAN : queueEvent(n, e, valid)
    \/ \E x \in staged : queueSubscriberEvent(x)
    \/ \E n \in Gateways :
        \/ \E subs \in SUBSET Subscribers : SetSubscribers(n, subs)
        \/ consumeEvents(n) \/ consumeSubscriberEvents(n)
        \/ \E r \in Roles : \/ deliverSubscriberEvent(n, r)
                            \/ SaveSubscriberDeadLetter(n, r)
                            \/ storeSubscriberDeadLetter(n, r)
        \/ \E dbFails \in BOOLEAN : ReplaySubscriberDeadLetters(n, dbFails)
        \/ MarkSubscriberDeadLetter(n) \/ ListDropped(n) \/ DropSubscriberDeadLetters(n)
        \/ CloseQueues(n)

EventSpec == EventInit /\ [][EventNext]_eventVars

-----------------------------------------------------------------------------

\* A delivery that used up its retries is remembered until it succeeds or is
\* given up in a counted way: a replay, a drop, a save that fails and another
\* node's replay in between lose none (storeSubscriberDeadLetter,
\* ReplaySubscriberDeadLetters, DropSubscriberDeadLetters).
FailedIsAccounted ==
    \A x \in failed :
        \/ x \in got \cup forgotten
        \/ \E r \in records : Pair(r) = x /\ r.status = "pending"
        \/ \E n \in Gateways :
            \/ \E i \in DOMAIN letters[n] : Pair(letters[n][i]) = x
            \/ \E r \in Roles : \E i \in DOMAIN worker[n][r] : Pair(worker[n][r][i]) = x
=============================================================================
