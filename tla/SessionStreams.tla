---------------------------- MODULE SessionStreams ----------------------------
(* The streams of one connection session against the forced closings of it: *)
(* a takeover's continuation adds the stream it goes on with, while an       *)
(* administrator (ForceCloseDraining) or the manager's Close                 *)
(* (forceCloseConnectionSessions) closes what the session has.               *)
EXTENDS Naturals, FiniteSets

CONSTANTS
    Streams,    \* the streams continuations go on with
    Root,       \* the client's own stream
    Closers     \* concurrent forced closings

ASSUME StreamAssumption == Root \notin Streams

VARIABLES
    registered, \* the session is in connectionSessions
    streams,    \* session.streams
    forced,     \* session.forceCloseRequested
    open,       \* streams that are not closed
    tracker,    \* trackConnectionSessionStream of each stream
    closer      \* each forced closing, with the streams it still has to close

streamVars == <<registered, streams, forced, open, tracker, closer>>

-----------------------------------------------------------------------------
StreamInit ==
    /\ registered = TRUE
    /\ streams = {Root} /\ open = {Root} \cup Streams
    /\ forced = FALSE
    /\ tracker = [s \in Streams |-> "new"]
    /\ closer = [k \in Closers |-> [at |-> "idle", left |-> {}]]

(* Mutant: the flag is read first, and the stream joins in a second critical *)
(* section.                                                                  *)
TrackInTwo(s) ==
    \/ /\ tracker[s] = "new" /\ registered
       /\ tracker' = [tracker EXCEPT ![s] = IF forced THEN "closing" ELSE "joining"]
       /\ streams' = IF forced THEN streams \cup {s} ELSE streams
       /\ UNCHANGED <<registered, forced, open, closer>>
    \/ /\ tracker[s] = "joining"
       /\ tracker' = [tracker EXCEPT ![s] = "tracked"]
       /\ streams' = streams \cup {s}
       /\ UNCHANGED <<registered, forced, open, closer>>

(* The stream joins the session and the flag is read in one critical         *)
(* section.                                                                  *)
TrackStream(s) ==
    /\ tracker[s] = "new" /\ registered
    /\ streams' = streams \cup {s}
    /\ tracker' = [tracker EXCEPT ![s] = IF forced THEN "closing" ELSE "tracked"]
    /\ UNCHANGED <<registered, forced, open, closer>>

CloseTracked(s) ==
    /\ tracker[s] = "closing"
    /\ open' = open \ {s}
    /\ tracker' = [tracker EXCEPT ![s] = "tracked"]
    /\ UNCHANGED <<registered, streams, forced, closer>>

-----------------------------------------------------------------------------
(* The flag, for a session that is registered and draining.                  *)
RequestForceClose(k) ==
    /\ closer[k].at = "idle" /\ registered
    /\ forced' = TRUE
    /\ closer' = [closer EXCEPT ![k].at = "copy"]
    /\ UNCHANGED <<registered, streams, open, tracker>>

(* closeConnectionSessionStreams: the context is cancelled, the list copied, *)
(* and every stream of the copy closed.                                      *)
CopyStreams(k) ==
    /\ closer[k].at = "copy"
    /\ closer' = [closer EXCEPT ![k] = [at |-> "close", left |-> streams]]
    /\ UNCHANGED <<registered, streams, forced, open, tracker>>

CloseOne(k) ==
    /\ closer[k].at = "close"
    /\ \E s \in closer[k].left :
         /\ open' = open \ {s}
         /\ closer' = [closer EXCEPT ![k].left = @ \ {s}]
    /\ UNCHANGED <<registered, streams, forced, tracker>>

CloserReturns(k) ==
    /\ closer[k].at = "close" /\ closer[k].left = {}
    /\ closer' = [closer EXCEPT ![k].at = "done"]
    /\ UNCHANGED <<registered, streams, forced, open, tracker>>

(* finishConnectionSession, when the whole chain has returned.               *)
FinishSession ==
    /\ registered /\ \A s \in Streams : tracker[s] \in {"new", "tracked"}
    /\ registered' = FALSE
    /\ UNCHANGED <<streams, forced, open, tracker, closer>>

StreamNext ==
    \/ \E s \in Streams : TrackStream(s) \/ CloseTracked(s)
    \/ \E k \in Closers : RequestForceClose(k) \/ CopyStreams(k) \/ CloseOne(k) \/ CloserReturns(k)
    \/ FinishSession

StreamSpec == StreamInit /\ [][StreamNext]_streamVars

-----------------------------------------------------------------------------
(* Types of the streams and of the forced closings.                          *)
StreamTypeOK ==
    /\ registered \in BOOLEAN /\ forced \in BOOLEAN
    /\ streams \subseteq Streams \cup {Root} /\ open \subseteq Streams \cup {Root}
    /\ tracker \in [Streams -> {"new", "closing", "tracked"}]
    /\ closer \in [Closers -> [at : {"idle", "copy", "close", "done"}, left : SUBSET (Streams \cup {Root})]]

(* When one forced closing has returned, a stream of the session is closed,  *)
(* or the continuation that brought it is about to close it: none escapes    *)
(* between the flag and the copied list.                                     *)
ForcedSessionIsClosed ==
    (\E k \in Closers : closer[k].at = "done") =>
        \A s \in streams \cap open : s \in Streams /\ tracker[s] = "closing"
=============================================================================
