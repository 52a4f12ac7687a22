---------------------------- MODULE PropOptimized ----------------------------
(***************************************************************************)
(* PropOptimized, the Choco propagator that keeps the cycle 0, .., N-1 the *)
(* only Hamiltonian cycle of the graph.  When an edge e becomes 1 that is  *)
(* not on the cycle, propagate(vIdx, mask)                                 *)
(*   - sets to 0 the edges that three rules exclude, then                  *)
(*   - walks depth first over the Hamiltonian paths that start e[0], e[1]  *)
(*     and sets to 0 the edge that would close each of them.               *)
(* One action is one iteration of the walk's outer loop, or the head of    *)
(* one (RecordPath).  fixEdgeValue throws ContradictionException when the  *)
(* edge it sets to 0 is already 1; the call is then abandoned with its     *)
(* member arrays as they stand, and the library undoes what the call has   *)
(* set, so that removed is of no interest after a failure.                 *)
(***************************************************************************)
EXTENDS HamGraphs, Sequences, FiniteSetsExt

CONSTANT IterationOrders
\* The neighbours of a vertex come from a library set whose iteration order is
\* not specified: a vertex's place in it is its value under one of these maps.

ASSUME IterationOrdersAssumption ==
    \A o \in IterationOrders : o \in [V -> Nat] /\ \A u, v \in V : o[u] = o[v] => u = v

VARIABLES
    graph,          \* currentFixedGraph: the edges whose variable is 1
    removed,        \* the edges whose variable is 0
    pending,        \* chords at 1 for which propagate has yet to be called
    pc,             \* "idle", "search", or "failed" after an exception
    e,              \* the chord of the call
    i,              \* index in currentPath of the end of the path
    currentPath, visited, degrees,       \* member arrays, kept between calls
    inds, adjList                        \* local arrays of a call

search == <<e, i, currentPath, visited, degrees, inds, adjList>>
vars == <<graph, removed, pending, pc, search>>


(***************************************************************************)
(* Rules 1, 2 and 3.  The loops stop at the first k that fails the test.   *)
(***************************************************************************)

\* Variants: without Utils.mod; (x,y) excludes (x+1, y-1).
Rule1NotModN(c) == {Edge(c[1] + 1, c[2] + 1)}
Rule1WrongEnd(c) == {Edge(Mod(c[1] + 1), Mod(c[2] - 1))}

Rule1(c) == {Edge(Mod(c[1] + 1), Mod(c[2] + 1))}

Rule2Loop(c) == {k \in 1 .. N : \A j \in 1 .. k : Mod(c[2] + j + 1) < c[1]}
Rule2(c) == {Edge(Mod(c[1] + 1), Mod(c[2] + k + 1)) :
                k \in {j \in Rule2Loop(c) :
                         Edge(Mod(c[2] + j), Mod(c[2] - 1)) \in graph}}

Rule3Loop(c) == {k \in 1 .. N : \A j \in 1 .. k : Mod(c[2] - j - 1) > c[1]}

\* Variant: rule 3 without looking for (y-k, y+1).
Rule3Unconditional(c) == {Edge(Mod(c[1] - 1), Mod(c[2] - k - 1)) : k \in Rule3Loop(c)}

Rule3(c) == {Edge(Mod(c[1] - 1), Mod(c[2] - k - 1)) :
                k \in {j \in Rule3Loop(c) :
                         Edge(Mod(c[2] - j), Mod(c[2] + 1)) \in graph}}

RuleEdges(c) == Rule1(c) \cup Rule2(c) \cup Rule3(c)

(***************************************************************************)
(* The adjacency lists: descending degree, ties in iteration order (the    *)
(* bubble sort is stable).  An element stands where as many others precede *)
(* it as have to.                                                          *)
(***************************************************************************)
Before(d, o, x, y) == d[x] > d[y] \/ (d[x] = d[y] /\ o[x] < o[y])
Rank(S, d, o, x) == Cardinality({y \in S : Before(d, o, y, x)})
SortedByDegrees(S, d, o) ==
    [k \in 1 .. Cardinality(S) |-> CHOOSE x \in S : Rank(S, d, o, x) = k - 1]

\* The number of neighbours of x that are not in vis.
FreeDegree(x, vis) == Cardinality(Nbrs(graph, x) \ vis)

\* degrees[] as a call computes it: all neighbours, less one for each visited
\* end of the chord that x is adjacent to, unless x is an end itself.
InitialDegrees(c) ==
    [x \in V |-> IF x \in ends(c) THEN Cardinality(Nbrs(graph, x))
                 ELSE Cardinality(Nbrs(graph, x)) - Cardinality(Nbrs(graph, x) \cap ends(c))]

(***************************************************************************)
(* A call of propagate(vIdx, mask) for the chord c, up to the walk's loop. *)
(***************************************************************************)
Start(c) ==
    /\ e' = c
    /\ visited' = ends(c)
    /\ currentPath' = [k \in V |-> IF k = 0 THEN c[1] ELSE IF k = 1 THEN c[2] ELSE 0]
    /\ degrees' = InitialDegrees(c)
    /\ \E o \in IterationOrders :
          adjList' = [x \in V |-> SortedByDegrees(Nbrs(graph, x), degrees', o)]
    /\ inds' = [x \in V |-> 0]
    /\ i' = 1

Propagate(c) ==
    /\ pc = "idle" /\ c \in pending
    /\ pending' = pending \ {c}
    /\ UNCHANGED graph
    /\ IF RuleEdges(c) \cap graph # {}
       THEN pc' = "failed" /\ UNCHANGED <<removed, search>>
       ELSE pc' = "search" /\ removed' = removed \cup RuleEdges(c) /\ Start(c)

(***************************************************************************)
(* The walk.  v is the end of the path, "free" means not visited.          *)
(***************************************************************************)
v == currentPath[i]
Free(x) == Nbrs(graph, x) \ visited
FreeWith(x, d) == {u \in Free(x) : degrees[u] = d}

\* No Hamiltonian path extends the current one: a free neighbour of v can no
\* longer be passed through, or three of them have to come next.
Pruned ==
    /\ i < N - 2
    /\ FreeWith(v, 0) # {} \/ Cardinality(FreeWith(v, 1)) >= 3

\* Two free neighbours of v that have one way on: one of them comes next.
Forced == i < N - 2 /\ Cardinality(FreeWith(v, 1)) = 2

ForcedAt == {k \in 1 .. Len(adjList[v]) : adjList[v][k] \in FreeWith(v, 1)}

\* The list the inner loop runs over: <<w1, w2>> or all of the neighbours.
ns == IF Forced THEN <<adjList[v][Min(ForcedAt)], adjList[v][Max(ForcedAt)]>>
                ELSE adjList[v]

makesNeighborUnreachable(u) == \E w \in Free(u) : degrees[w] < 2

Eligible(u) == u \notin visited /\ (i >= N - 3 \/ ~ makesNeighborUnreachable(u))

\* inds[v] is an index from 0: the list's positions still to try are above it.
Untried == IF Pruned THEN {}
           ELSE {k \in inds[v] + 1 .. Len(ns) : Eligible(ns[k])}

\* Variant: the last vertex stays marked after a path is complete.
RecordPathKeepsMark ==
    /\ pc = "search" /\ i = N - 1
    /\ IF Edge(currentPath[0], v) \in graph
       THEN pc' = "failed" /\ UNCHANGED <<graph, removed, pending, search>>
       ELSE /\ removed' = removed \cup {Edge(currentPath[0], v)}
            /\ i' = i - 1
            /\ UNCHANGED <<graph, pending, pc, e, currentPath, visited, degrees, inds, adjList>>

\* The path visits every vertex: it must not close to a cycle.
RecordPath ==
    /\ pc = "search" /\ i = N - 1
    /\ IF Edge(currentPath[0], v) \in graph
       THEN pc' = "failed" /\ UNCHANGED <<graph, removed, pending, search>>
       ELSE /\ removed' = removed \cup {Edge(currentPath[0], v)}
            /\ visited' = visited \ {v}
            /\ i' = i - 1
            /\ UNCHANGED <<graph, pending, pc, e, currentPath, degrees, inds, adjList>>

\* The path goes on to u; newInds is inds as the iteration leaves it.
Extend(u, newInds) ==
    /\ i' = i + 1
    /\ visited' = visited \cup {u}
    /\ currentPath' = [currentPath EXCEPT ![i + 1] = u]
    /\ inds' = newInds
    /\ degrees' = [x \in V |-> IF x \in Free(u) THEN degrees[x] - 1 ELSE degrees[x]]
    /\ UNCHANGED <<graph, removed, pending, pc, e, adjList>>

\* Variants: u's index is not reset; v's index does not move on.
AdvanceStaleIndex ==
    /\ pc = "search" /\ i < N - 1
    /\ \E k \in Untried : /\ \A j \in Untried : k <= j
                         /\ Extend(ns[k], [inds EXCEPT ![v] = k])
AdvanceSameIndex ==
    /\ pc = "search" /\ i < N - 1
    /\ \E k \in Untried : /\ \A j \in Untried : k <= j
                         /\ Extend(ns[k], [inds EXCEPT ![ns[k]] = 0])

Advance ==
    /\ pc = "search" /\ i < N - 1
    /\ \E k \in Untried : /\ \A j \in Untried : k <= j
                         /\ Extend(ns[k], [inds EXCEPT ![ns[k]] = 0, ![v] = k])

\* The path loses v; with its second vertex the walk ends.
Shrink(newDegrees) ==
    /\ inds' = [inds EXCEPT ![v] = IF Pruned THEN Len(adjList[v]) ELSE Len(ns)]
    /\ visited' = visited \ {v}
    /\ currentPath' = [currentPath EXCEPT ![i] = 0]
    /\ i' = i - 1
    /\ degrees' = newDegrees
    /\ pc' = IF i = 1 THEN "idle" ELSE pc
    /\ UNCHANGED <<graph, removed, pending, e, adjList>>

\* Variant: the degrees stay as they are.
RetreatKeepsDegrees ==
    /\ pc = "search" /\ i < N - 1 /\ Untried = {}
    /\ Shrink(degrees)

Retreat ==
    /\ pc = "search" /\ i < N - 1 /\ Untried = {}
    /\ Shrink([x \in V |-> IF x \in Free(v) THEN degrees[x] + 1 ELSE degrees[x]])

Walk == RecordPath \/ Advance \/ Retreat

(***************************************************************************)
(* propagate(evtmask), the first propagation: a call for each chord that   *)
(* is already 1, in the order of graph.allVars().                          *)
(***************************************************************************)
FirstPending == CHOOSE c \in pending : \A d \in pending : d = c \/ Earlier(c, d)

NextCall == pending # {} /\ Propagate(FirstPending)

\* Every array is as Java creates it, and nothing is 0 yet.
InitArrays ==
    /\ e = <<0, 0>> /\ i = 0
    /\ currentPath = [k \in V |-> 0] /\ visited = {}
    /\ degrees = [x \in V |-> 0] /\ inds = [x \in V |-> 0]
    /\ adjList = [x \in V |-> <<>>]

Init ==
    /\ \E cs \in SUBSET Chords : pending = cs /\ graph = Cycle \cup {ends(c) : c \in cs}
    /\ removed = {} /\ pc = "idle"
    /\ InitArrays

Next == NextCall \/ Walk

Spec == Init /\ [][Next]_vars
FairSpec == Spec /\ WF_vars(Walk)

-----------------------------------------------------------------------------
(***************************************************************************)
(* Properties.                                                             *)
(***************************************************************************)
TypeOK ==
    /\ graph \subseteq AllEdges /\ removed \subseteq AllEdges
    /\ pending \subseteq Chords
    /\ pc \in {"idle", "search", "failed"}
    /\ e \in V \X V
    /\ i \in 0 .. N - 1
    /\ currentPath \in [V -> V]
    /\ visited \subseteq V
    /\ degrees \in [V -> Nat]
    /\ inds \in [V -> Nat]
    /\ adjList \in [V -> Seq(V)]

\* currentPath[0 .. i] is a path of the graph that starts with the chord, it
\* repeats no vertex, and visited is the set of its vertices.
PathIsVisited ==
    pc = "search" =>
        /\ i >= 1
        /\ currentPath[0] = e[1] /\ currentPath[1] = e[2]
        /\ \A j, k \in 0 .. i : currentPath[j] = currentPath[k] => j = k
        /\ \A k \in 1 .. i : Edge(currentPath[k - 1], currentPath[k]) \in graph
        /\ visited = {currentPath[k] : k \in 0 .. i}

\* degrees[x], which every pruning test reads, is the number of neighbours a
\* free x still has; for a vertex of the path, the number it had when the path
\* reached it.  What Advance takes off, Retreat puts back.
DegreesAreFree ==
    pc = "search" =>
        /\ \A x \in V \ visited : degrees[x] = FreeDegree(x, visited)
        /\ \A k \in 2 .. i : degrees[currentPath[k]] =
                FreeDegree(currentPath[k], {currentPath[j] : j \in 0 .. k - 1})

\* An edge is set to 0 only if with it the graph would have a second
\* Hamiltonian cycle, by a rule or by the walk.
RemovedCloses ==
    \A d \in removed : HasSecondCycle(graph \cup {d})

\* A contradiction is raised only on a graph that has a second cycle already.
FailureJustified == pc = "failed" => HasSecondCycle(graph)

\* The call is for a chord of the graph, and its lists are the neighbours.
CallIsForChord ==
    /\ Cycle \subseteq graph /\ \A c \in pending : ends(c) \in graph
    /\ pc = "search" =>
        /\ e \in Chords /\ ends(e) \in graph
        /\ \A x \in V : {adjList[x][k] : k \in 1 .. Len(adjList[x])} = Nbrs(graph, x)

\* What the proofs of the above carry along, and an inductive invariant.
IInv == TypeOK /\ CallIsForChord /\ PathIsVisited /\ DegreesAreFree

\* Pruning cuts no Hamiltonian path off: a Hamiltonian cycle through the chord of a
\* call that ends, all of whose edges are 1 but for the one (d) that the walk would
\* close it with, has this edge at 0.
Exhaustive ==
    [][pc = "search" /\ pc' = "idle" =>
          \A c \in HamCycles : \A d \in c \ {ends(e)} :
              ends(e) \in c /\ e[1] \in d /\ c \ {d} \subseteq graph => d \in removed']_vars

\* Every call returns or throws.
CallsEnd == (pc = "search") ~> (pc # "search")
=============================================================================
