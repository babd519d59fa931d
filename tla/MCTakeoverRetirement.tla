------------------------- MODULE MCTakeoverRetirement -------------------------
(* Model-checking instances of TakeoverRetirement: connections and runtimes are *)
(* interchangeable.                                                             *)
EXTENDS TakeoverRetirement, TLC

Symmetry == Permutations(Conns) \cup Permutations(Runtimes)

\* What the next states and the properties of takeover_upgrade depend on.  Left out
\* are what no step reads (the history `entered`, and the marks ForceCloseDraining
\* goes by), and the flow of an invocation that is over.
LiveFlow == [c \in Conns |-> [p \in Plugins |->
                IF stage[c][p] = "idle" THEN "none" ELSE flow[c][p]]]
View == <<dbVars, mgrVars, rtVars, opVars, closeVars, stopVars, drainVars, refs,
          pc, snap, at, stage, LiveFlow, sessions, parts>>
=============================================================================
