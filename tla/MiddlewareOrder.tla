---------------------------- MODULE MiddlewareOrder ----------------------------
(* middlewareCycle (governance.go): the release gate's search for a cycle in *)
(* the before/after pairs of a manifest.  A depth-first walk with two marks; *)
(* one step is one call of visit, or its return.  The order of the roots and *)
(* of the edges is Go's map order and the manifest's: any order.             *)
EXTENDS Naturals, Sequences

CONSTANT Names   \* middleware names

VARIABLES
    before,    \* graph: the names that a name comes before
    path,      \* the calls of visit in progress, innermost last
    todo,      \* by name: the edges its call has yet to follow
    visiting,  \* marked on the way in
    visited,   \* marked on the way out
    untried,     \* keys of the graph the outer loop has yet to try
    verdict    \* "open", then "cycle" or "clear"

orderVars == <<before, path, todo, visiting, visited, untried, verdict>>

Keys == {n \in Names : before[n] # {}}

OrderInit ==
    /\ before \in [Names -> SUBSET Names]
    /\ path = <<>> /\ todo = [n \in Names |-> {}]
    /\ visiting = {} /\ visited = {} /\ untried = Keys
    /\ verdict = "open"

(* The head of visit(node): a node on the way in closes a cycle, a node that *)
(* is done is skipped, any other is entered.                                 *)
OneMark(n) == n \in visiting \cup visited
OnTheWay(n) == n \in visiting
DoneBefore(n) == n \in visited

EnterName(n, left) ==
    /\ path' = Append(path, n) /\ visiting' = visiting \cup {n} /\ todo' = [left EXCEPT ![n] = before[n]]
    /\ UNCHANGED <<visited, verdict>>

Visit(n, left) ==
    \/ OnTheWay(n) /\ verdict' = "cycle" /\ todo' = left /\ UNCHANGED <<path, visiting, visited>>
    \/ ~OnTheWay(n) /\ DoneBefore(n) /\ todo' = left /\ UNCHANGED <<path, visiting, visited, verdict>>
    \/ ~OnTheWay(n) /\ ~DoneBefore(n) /\ EnterName(n, left)

VisitRoot(n) ==
    /\ verdict = "open" /\ path = <<>> /\ n \in untried
    /\ untried' = untried \ {n} /\ Visit(n, todo)
    /\ UNCHANGED before

Innermost == path[Len(path)]

VisitNext(n) ==
    /\ verdict = "open" /\ path # <<>> /\ n \in todo[Innermost]
    /\ Visit(n, [todo EXCEPT ![Innermost] = @ \ {n}])
    /\ UNCHANGED <<before, untried>>

VisitReturns ==
    /\ verdict = "open" /\ path # <<>> /\ todo[Innermost] = {}
    /\ visiting' = visiting \ {Innermost} /\ visited' = visited \cup {Innermost}
    /\ path' = SubSeq(path, 1, Len(path) - 1)
    /\ UNCHANGED <<before, todo, untried, verdict>>

WalkEnds ==
    /\ verdict = "open" /\ path = <<>> /\ untried = {}
    /\ verdict' = "clear"
    /\ UNCHANGED <<before, path, todo, visiting, visited, untried>>

OrderNext ==
    \/ \E n \in Names : VisitRoot(n) \/ VisitNext(n)
    \/ VisitReturns \/ WalkEnds

OrderSpec == OrderInit /\ [][OrderNext]_orderVars

-----------------------------------------------------------------------------
(* What an ordering cycle is: some names, each of which comes before another *)
(* of them.                                                                  *)
Cyclic == \E S \in SUBSET Names : S # {} /\ \A n \in S : before[n] \cap S # {}

(* The walk of middlewareCycle answers that question, in whatever order the  *)
(* roots and edges come: it reports no cycle that is not there, and a walk   *)
(* that ends without one has missed none, although it never enters a node    *)
(* twice.                                                                    *)
CycleIsFound == (verdict = "cycle" => Cyclic) /\ (verdict = "clear" => ~Cyclic)
=============================================================================
