------------------------ MODULE MiddlewareOrderProofs ------------------------
(* middlewareCycle is right for every set of names and every order of its    *)
(* roots and edges.                                                          *)
EXTENDS MiddlewareOrder, SequenceTheorems, TLAPS

(* Types of the graph and of the walk.                                       *)
WalkTypeOK ==
    /\ before \in [Names -> SUBSET Names] /\ path \in Seq(Names)
    /\ todo \in [Names -> SUBSET Names]
    /\ visiting \subseteq Names /\ visited \subseteq Names /\ untried \subseteq Names
    /\ verdict \in {"open", "cycle", "clear"}

(* The calls in progress follow edges, and are the names marked on the way   *)
(* in; what a call has followed is done or is the call inside it.            *)
PathShape ==
    /\ visiting = {path[i] : i \in 1 .. Len(path)}
    /\ visiting \cap visited = {}
    /\ \A i, j \in 1 .. Len(path) : path[i] = path[j] => i = j
    /\ \A i \in 1 .. Len(path) : i < Len(path) => path[i + 1] \in before[path[i]]
    /\ \A i \in 1 .. Len(path) : todo[path[i]] \subseteq before[path[i]]
    /\ \A i \in 1 .. Len(path) : \A m \in before[path[i]] \ todo[path[i]] :
          m \in visited \/ (i < Len(path) /\ m = path[i + 1])

(* A set of names each of which comes before another of them.                *)
Looped(S) == S \subseteq Names /\ \A n \in S : before[n] \cap S # {}

(* No name that is done is on a cycle: it was done after everything it       *)
(* comes before.                                                             *)
VisitedShape ==
    /\ \A n \in visited : before[n] \subseteq visited
    /\ \A S \in SUBSET Names : Looped(S) => S \cap visited = {}
    /\ Keys \subseteq untried \cup visited \cup visiting

WalkInvariant ==
    /\ WalkTypeOK
    /\ verdict = "open" => PathShape /\ VisitedShape
    /\ CycleIsFound

(* The invariant holds before the walk.                                      *)
LEMMA WalkInitially == OrderInit => WalkInvariant
<1>. SUFFICES ASSUME OrderInit PROVE WalkInvariant
  OBVIOUS
<1>1. WalkTypeOK
  BY DEF OrderInit, WalkTypeOK, Keys
<1>2. path = <<>> /\ Len(path) = 0
  BY DEF OrderInit
<1>3. PathShape
  BY <1>2 DEF OrderInit, PathShape
<1>4. VisitedShape
  BY DEF OrderInit, VisitedShape
<1>. QED  BY <1>1, <1>3, <1>4 DEF OrderInit, WalkInvariant, CycleIsFound

(* The last call in progress.                                                *)
LEMMA InnermostIsLast ==
    ASSUME WalkTypeOK, path # <<>>
    PROVE  Len(path) \in Nat \ {0} /\ Len(path) \in 1 .. Len(path) /\ Innermost \in Names
BY DEF WalkTypeOK, Innermost

(* A name is entered: from no call, or from the innermost one along an edge. *)
LEMMA EnterKeeps ==
    ASSUME WalkInvariant, verdict = "open", NEW n \in Names, n \notin visiting, n \notin visited,
           NEW left \in [Names -> SUBSET Names], EnterName(n, left), UNCHANGED before,
           untried' \in {untried, untried \ {n}},
           \/ path = <<>> /\ left = todo
           \/ path # <<>> /\ n \in todo[Innermost] /\ left = [todo EXCEPT ![Innermost] = @ \ {n}]
    PROVE  WalkInvariant'
<1>. USE DEF WalkInvariant
<1>1. /\ path' = Append(path, n) /\ visiting' = visiting \cup {n} /\ visited' = visited
      /\ todo' = [left EXCEPT ![n] = before[n]] /\ before' = before /\ verdict' = verdict
  BY DEF EnterName
<1>2. WalkTypeOK'
  BY <1>1 DEF WalkTypeOK
<1>3. /\ Len(path) \in Nat /\ Len(path') = Len(path) + 1
      /\ \A i \in 1 .. Len(path) : path'[i] = path[i] /\ path[i] \in Names /\ path[i] # n
      /\ path'[Len(path) + 1] = n
  BY <1>1 DEF WalkTypeOK, PathShape
<1>4. \A i \in 1 .. Len(path) :
          todo'[path[i]] = IF i = Len(path) THEN todo[path[i]] \ {n} ELSE todo[path[i]]
  <2>. SUFFICES ASSUME NEW i \in 1 .. Len(path)
                PROVE  todo'[path[i]] = IF i = Len(path) THEN todo[path[i]] \ {n} ELSE todo[path[i]]
    OBVIOUS
  <2>1. todo'[path[i]] = left[path[i]]
    BY <1>1, <1>3
  <2>2. path # <<>> /\ left = [todo EXCEPT ![Innermost] = @ \ {n}]
    BY <1>3
  <2>3. Innermost = path[Len(path)] /\ (path[i] = Innermost <=> i = Len(path)) /\ path[i] \in Names
    <3>1. Len(path) \in 1 .. Len(path)
      BY <2>2, InnermostIsLast
    <3>. QED  BY <1>3, <3>1 DEF PathShape, Innermost
  <2>4. left[path[i]] = IF path[i] = Innermost THEN todo[path[i]] \ {n} ELSE todo[path[i]]
    BY <2>2, <2>3 DEF WalkTypeOK
  <2>. QED  BY <2>1, <2>3, <2>4
<1>5. todo'[n] = before[n]
  BY <1>1
<1>6. path # <<>> => n \in before[path[Len(path)]]
  BY InnermostIsLast DEF PathShape, Innermost
<1>7. PathShape'
  <2>1. visiting' = {path'[i] : i \in 1 .. Len(path')}
    BY <1>1, <1>3 DEF PathShape
  <2>2. \A i, j \in 1 .. Len(path') : path'[i] = path'[j] => i = j
    BY <1>3 DEF PathShape
  <2>3. \A i \in 1 .. Len(path') : i < Len(path') => path'[i + 1] \in before[path'[i]]
    <3>. SUFFICES ASSUME NEW i \in 1 .. Len(path') , i < Len(path') PROVE path'[i + 1] \in before[path'[i]]
      OBVIOUS
    <3>1. i \in 1 .. Len(path) /\ path'[i] = path[i]
      BY <1>3
    <3>2. CASE i < Len(path)
      <4>1. i + 1 \in 1 .. Len(path)
        BY <1>3, <3>1, <3>2
      <4>. QED  BY <1>3, <3>1, <3>2, <4>1 DEF PathShape
    <3>3. CASE i = Len(path)
      BY <1>3, <1>6, <3>1, <3>3
    <3>. QED  BY <1>3, <3>1, <3>2, <3>3
  <2>4. \A i \in 1 .. Len(path') : todo'[path'[i]] \subseteq before[path'[i]]
    <3>. SUFFICES ASSUME NEW i \in 1 .. Len(path') PROVE todo'[path'[i]] \subseteq before[path'[i]]
      OBVIOUS
    <3>1. CASE i \in 1 .. Len(path)
      <4>1. path'[i] = path[i] /\ todo[path[i]] \subseteq before[path[i]]
        BY <1>3, <3>1 DEF PathShape
      <4>2. todo'[path[i]] = IF i = Len(path) THEN todo[path[i]] \ {n} ELSE todo[path[i]]
        BY <1>4, <3>1, Zenon
      <4>3. todo'[path[i]] \subseteq todo[path[i]]
        BY <4>2
      <4>. QED  BY <4>1, <4>3
    <3>2. CASE i = Len(path) + 1
      BY <1>3, <1>5, <3>2
    <3>. QED  BY <1>3, <3>1, <3>2
  <2>5. \A i \in 1 .. Len(path') : \A m \in before[path'[i]] \ todo'[path'[i]] :
            m \in visited \/ (i < Len(path') /\ m = path'[i + 1])
    <3>. SUFFICES ASSUME NEW i \in 1 .. Len(path'), NEW m \in before[path'[i]] \ todo'[path'[i]]
                  PROVE  m \in visited \/ (i < Len(path') /\ m = path'[i + 1])
      OBVIOUS
    <3>1. CASE i \in 1 .. Len(path) /\ i < Len(path)
      <4>1. i + 1 \in 1 .. Len(path) /\ path'[i] = path[i] /\ path'[i + 1] = path[i + 1]
        BY <1>3, <3>1
      <4>2. m \in before[path[i]] \ todo[path[i]]
        BY <1>3, <1>4, <3>1, <4>1
      <4>. QED  BY <1>3, <3>1, <4>1, <4>2 DEF PathShape
    <3>2. CASE i \in 1 .. Len(path) /\ i = Len(path)
      <4>1. path'[i] = path[i] /\ path'[i + 1] = n /\ i < Len(path')
        BY <1>3, <3>2
      <4>2. m = n \/ m \in before[path[i]] \ todo[path[i]]
        <5>1. todo'[path[i]] = todo[path[i]] \ {n}
          BY <1>4, <3>2
        <5>. QED  BY <4>1, <5>1
      <4>. QED  BY <3>2, <4>1, <4>2 DEF PathShape
    <3>3. CASE i = Len(path) + 1
      BY <1>3, <1>5, <3>3
    <3>. QED  BY <1>3, <3>1, <3>2, <3>3
  <2>6. visiting' \cap visited' = {}
    BY <1>1 DEF PathShape
  <2>. QED  BY <1>1, <2>1, <2>2, <2>3, <2>4, <2>5, <2>6 DEF PathShape
<1>8. VisitedShape'
  BY <1>1 DEF VisitedShape, Looped, Keys
<1>. QED  BY <1>1, <1>2, <1>7, <1>8 DEF CycleIsFound

(* The edge that closes a cycle: the calls from the name on, to the          *)
(* innermost one, are a cycle.                                               *)
LEMMA CycleIsThere ==
    ASSUME WalkInvariant, verdict = "open", NEW n \in visiting, path # <<>>, n \in todo[Innermost]
    PROVE  Cyclic
<1>. USE DEF WalkInvariant
<1>1. PICK j \in 1 .. Len(path) : n = path[j]
  BY DEF PathShape
<1>. DEFINE S == {path[i] : i \in j .. Len(path)}
<1>2. Len(path) \in Nat /\ S \subseteq Names /\ n \in S
  BY <1>1 DEF WalkTypeOK
<1>3. ASSUME NEW m \in S PROVE before[m] \cap S # {}
  <2>1. PICK i \in j .. Len(path) : m = path[i]
    BY <1>3
  <2>2. i \in 1 .. Len(path)
    BY <1>1, <1>2, <2>1
  <2>3. CASE i < Len(path)
    <3>1. path[i + 1] \in before[m] /\ path[i + 1] \in S
      BY <1>1, <1>2, <2>1, <2>2, <2>3 DEF PathShape
    <3>. QED  BY <3>1
  <2>4. CASE i = Len(path)
    <3>1. n \in before[m]
      BY <2>1, <2>2, <2>4 DEF PathShape, Innermost
    <3>. QED  BY <1>2, <3>1
  <2>. QED  BY <1>2, <2>2, <2>3, <2>4
<1>. QED  BY <1>2, <1>3 DEF Cyclic

(* A step of the walk keeps the invariant.                                   *)
LEMMA WalkStep ==
    ASSUME WalkInvariant, [OrderNext]_orderVars
    PROVE  WalkInvariant'
<1>. USE DEF WalkInvariant
<1>1. CASE UNCHANGED orderVars
  BY <1>1 DEF orderVars, WalkTypeOK, PathShape, VisitedShape, CycleIsFound, Cyclic, Looped, Keys
<1>2. ASSUME NEW n \in Names, VisitRoot(n) PROVE WalkInvariant'
  <2>1. visiting = {} /\ verdict = "open" /\ path = <<>>
    BY <1>2 DEF VisitRoot, PathShape
  <2>2. CASE n \in visited
    <3>1. UNCHANGED <<path, visiting, visited, verdict, todo, before>> /\ untried' = untried \ {n}
      BY <1>2, <2>1, <2>2 DEF VisitRoot, Visit, OnTheWay, DoneBefore
    <3>. QED  BY <2>1, <2>2, <3>1 DEF WalkTypeOK, PathShape, VisitedShape, CycleIsFound, Looped, Keys
  <2>3. CASE n \notin visited
    BY <1>2, <2>1, <2>3, EnterKeeps DEF VisitRoot, Visit, OnTheWay, DoneBefore, WalkTypeOK
  <2>. QED  BY <2>2, <2>3
<1>3. ASSUME NEW n \in Names, VisitNext(n) PROVE WalkInvariant'
  <2>. DEFINE left == [todo EXCEPT ![Innermost] = @ \ {n}]
  <2>1. /\ verdict = "open" /\ path # <<>> /\ n \in todo[Innermost]
        /\ Visit(n, left) /\ UNCHANGED <<before, untried>>
    BY <1>3 DEF VisitNext
  <2>2. left \in [Names -> SUBSET Names] /\ Innermost \in Names
    BY <2>1, InnermostIsLast DEF WalkTypeOK
  <2>3. CASE n \in visiting
    <3>1. Cyclic
      BY <2>1, <2>3, CycleIsThere
    <3>2. verdict' = "cycle" /\ todo' = left /\ UNCHANGED <<path, visiting, visited, before, untried>>
      BY <2>1, <2>3 DEF Visit, OnTheWay
    <3>3. WalkTypeOK'
      BY <2>2, <3>2 DEF WalkTypeOK
    <3>. QED  BY <3>1, <3>2, <3>3 DEF CycleIsFound, Cyclic
  <2>4. CASE n \notin visiting /\ n \in visited
    <3>1. todo' = left /\ UNCHANGED <<path, visiting, visited, before, untried, verdict>>
      BY <2>1, <2>4 DEF Visit, OnTheWay, DoneBefore
    <3>2. WalkTypeOK'
      BY <2>2, <3>1 DEF WalkTypeOK
    <3>3. \A m \in Names : todo'[m] \subseteq todo[m] /\ todo[m] \ todo'[m] \subseteq visited
      BY <2>2, <2>4, <3>1 DEF WalkTypeOK
    <3>4. \A i \in 1 .. Len(path) : path[i] \in Names
      BY DEF WalkTypeOK
    <3>5. PathShape'
      BY <2>1, <3>1, <3>3, <3>4, SMTT(30) DEF PathShape
    <3>6. VisitedShape'
      BY <2>1, <3>1 DEF VisitedShape, Looped, Keys
    <3>. QED  BY <2>1, <3>1, <3>2, <3>5, <3>6 DEF CycleIsFound
  <2>5. CASE n \notin visiting /\ n \notin visited
    <3>1. EnterName(n, left)
      BY <2>1, <2>5 DEF Visit, OnTheWay, DoneBefore
    <3>. HIDE DEF left
    <3>2. left = [todo EXCEPT ![Innermost] = @ \ {n}]
      BY DEF left
    <3>. QED  BY <2>1, <2>2, <2>5, <3>1, <3>2, EnterKeeps
  <2>. QED  BY <2>3, <2>4, <2>5
<1>4. CASE VisitReturns
  <2>. DEFINE n == Innermost
  <2>1. /\ verdict = "open" /\ path # <<>> /\ todo[n] = {}
        /\ visiting' = visiting \ {n} /\ visited' = visited \cup {n}
        /\ path' = SubSeq(path, 1, Len(path) - 1)
        /\ UNCHANGED <<before, todo, untried, verdict>>
    BY <1>4 DEF VisitReturns
  <2>2. Len(path) \in Nat \ {0} /\ n \in Names /\ n = path[Len(path)] /\ n \in visiting
    BY <2>1, InnermostIsLast DEF Innermost, PathShape
  <2>3. /\ path' \in Seq(Names) /\ Len(path') = Len(path) - 1
        /\ \A i \in 1 .. Len(path) - 1 : path'[i] = path[i]
    <3>1. path \in Seq(Names) /\ Len(path) - 1 \in Int /\ 1 \in Int
      BY <2>2 DEF WalkTypeOK
    <3>2. \A i \in 1 .. Len(path) - 1 : path[i] \in Names
      BY <2>2, <3>1
    <3>3. /\ path' \in Seq(Names)
          /\ Len(path') = IF 1 <= Len(path) - 1 THEN (Len(path) - 1) - 1 + 1 ELSE 0
          /\ \A i \in 1 .. (Len(path) - 1) - 1 + 1 : path'[i] = path[1 + i - 1]
      BY <2>1, <3>1, <3>2, SubSeqProperties
    <3>4. Len(path') = Len(path) - 1
      <4>. DEFINE k == Len(path)
      <4>1. k \in Nat \ {0} /\ Len(path') = IF 1 <= k - 1 THEN (k - 1) - 1 + 1 ELSE 0
        BY <2>2, <3>3
      <4>. HIDE DEF k
      <4>2. Len(path') = k - 1
        BY <4>1
      <4>. QED  BY <4>2 DEF k
    <3>5. ASSUME NEW i \in 1 .. Len(path) - 1 PROVE path'[i] = path[i]
      <4>1. i \in 1 .. (Len(path) - 1) - 1 + 1 /\ 1 + i - 1 = i
        BY <2>2
      <4>2. path'[i] = path[1 + i - 1]
        BY <3>3, <4>1
      <4>. QED  BY <4>1, <4>2
    <3>. QED  BY <3>3, <3>4, <3>5
  <2>4. WalkTypeOK'
    BY <2>1, <2>2, <2>3 DEF WalkTypeOK
  <2>5. before[n] \subseteq visited
    BY <2>1, <2>2 DEF PathShape
  <2>. HIDE DEF n
  <2>6. PathShape'
    <3>1. visiting' = {path'[i] : i \in 1 .. Len(path')}
      BY <2>1, <2>2, <2>3 DEF PathShape
    <3>2. visiting' \cap visited' = {}
      BY <2>1 DEF PathShape
    <3>3. \A i, j \in 1 .. Len(path') : path'[i] = path'[j] => i = j
      BY <2>1, <2>2, <2>3 DEF PathShape
    <3>4. \A i \in 1 .. Len(path') : i < Len(path') => path'[i + 1] \in before[path'[i]]
      BY <2>1, <2>2, <2>3 DEF PathShape
    <3>5. \A i \in 1 .. Len(path') : todo[path'[i]] \subseteq before[path'[i]]
      <4>. SUFFICES ASSUME NEW i \in 1 .. Len(path') PROVE todo[path'[i]] \subseteq before[path'[i]]
        OBVIOUS
      <4>1. i \in 1 .. Len(path) /\ path'[i] = path[i]
        BY <2>2, <2>3
      <4>2. todo[path[i]] \subseteq before[path[i]]
        BY <2>1, <4>1 DEF PathShape
      <4>. QED  BY <4>1, <4>2
    <3>6. \A i \in 1 .. Len(path') : \A m \in before[path'[i]] \ todo[path'[i]] :
              m \in visited' \/ (i < Len(path') /\ m = path'[i + 1])
      BY <2>1, <2>2, <2>3 DEF PathShape
    <3>. QED  BY <2>1, <3>1, <3>2, <3>3, <3>4, <3>5, <3>6 DEF PathShape
  <2>7. VisitedShape'
    <3>1. \A m \in visited' : before[m] \subseteq visited'
      BY <2>1, <2>5 DEF VisitedShape
    <3>2. \A S \in SUBSET Names : Looped(S) => S \cap visited' = {}
      BY <2>1, <2>5 DEF VisitedShape, Looped
    <3>3. \A S : Looped(S)' = Looped(S)
      BY <2>1 DEF Looped
    <3>4. Keys' \subseteq untried' \cup visited' \cup visiting'
      BY <2>1 DEF VisitedShape, Keys
    <3>. QED  BY <2>1, <3>1, <3>2, <3>3, <3>4 DEF VisitedShape
  <2>. QED  BY <2>1, <2>4, <2>6, <2>7 DEF CycleIsFound
<1>5. CASE WalkEnds
  <2>1. /\ verdict = "open" /\ path = <<>> /\ untried = {} /\ verdict' = "clear"
        /\ UNCHANGED <<before, path, todo, visiting, visited, untried>>
    BY <1>5 DEF WalkEnds
  <2>2. visiting = {}
    BY <2>1 DEF PathShape
  <2>3. ~Cyclic
    <3>1. ASSUME NEW S \in SUBSET Names, Looped(S) PROVE S = {}
      BY <2>1, <2>2, <3>1 DEF VisitedShape, Keys, Looped
    <3>. QED  BY <3>1 DEF Cyclic, Looped
  <2>. QED  BY <2>1, <2>3 DEF WalkTypeOK, CycleIsFound, Cyclic
<1>. QED  BY <1>1, <1>2, <1>3, <1>4, <1>5 DEF OrderNext

(* For every set of middleware names: middlewareCycle reports a cycle only   *)
(* where there is one, and ends without one only where there is none.        *)
THEOREM MiddlewareCycleIsRight == OrderSpec => []CycleIsFound
<1>1. WalkInvariant => CycleIsFound
  BY DEF WalkInvariant
<1>. QED  BY <1>1, WalkInitially, WalkStep, PTL DEF OrderSpec
=============================================================================
