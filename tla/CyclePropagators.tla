--------------------------- MODULE CyclePropagators ---------------------------
(***************************************************************************)
(* The propagators on cycles of k vertices, each in a depth-first search   *)
(* of the library, beside the constraints of other options, by which       *)
(* several chords may become 1 at once:                                    *)
(*   "no"          PropNoCycle, which girthAtLeast posts                    *)
(*   "atMostOne"   PropAtMostOneCycle                                       *)
(*   "atLeastOne"  PropAtLeastOneCycle                                      *)
(* All walk depth first over paths of k vertices, the first two along the  *)
(* edges at 1 from a chord that has become 1, the third along the edges    *)
(* not at 0 from each vertex.  The last two remember a cycle in a member,  *)
(* which backtracking does not restore.                                    *)
(***************************************************************************)
EXTENDS SearchOptions, SearchStrategyUHG, SequencesExt

CONSTANTS
    Lengths,            \* of cycles
    Kinds,              \* the propagators to look at
    Posted,             \* what else is posted: sets of graphs allowed by it
    IterationOrders     \* as in PropOptimized

\* girthAtLeast posts lengths from 3; the fixed cycle is older than any event.
ASSUME LengthsAssumption == Lengths \subseteq 3 .. N - 1
ASSUME PostedAssumption == \A gs \in Posted : gs \subseteq Graphs
ASSUME KindsAssumption == Kinds \subseteq {"no", "atMostOne", "atLeastOne"}
ASSUME IterationOrdersAssumption ==
    \A o \in IterationOrders : o \in [V -> Nat] /\ \A u, w \in V : o[u] = o[w] => u = w

VARIABLES
    kind, k,        \* the propagator posted, and its member k
    allowed,        \* the graphs the other constraints allow
    ones, zeros,    \* the edges whose variable is 1, is 0
    pending,        \* chords changed since the propagator was last called
    trail,          \* a world per open decision
    solutions, cnt, \* the graphs found, and how often one was
    pc,             \* "idle", "search", "failed", "solved" or "done"
    cycle,          \* this.cycle: what is remembered, kept between calls
    currentPath,    \* its first i + 1 elements
    visited, inds, adjList

post == <<kind, k, allowed>>
walk == <<currentPath, visited, inds, adjList>>
choco == <<trail, solutions, cnt>>
vars == <<post, ones, zeros, pending, pc, cycle, walk, choco>>

null == <<>>

(***************************************************************************)
(* Cycles as arrays of k vertices.                                         *)
(***************************************************************************)
At(c, j) == c[((j - 1) % k) + 1]
cycleEdges(c) == {Edge(c[j], At(c, j + 1)) : j \in 1 .. k}

isCycle(c) == c # null /\ cycleEdges(c) \subseteq ones
undetermined(c) ==
    c # null /\ cycleEdges(c) \cap zeros = {} /\ ~ cycleEdges(c) \subseteq ones

\* Utils.isSameCycle compares the two from their least vertices on, in the
\* direction of the greater of that vertex's neighbours.
minIndex(c) == CHOOSE j \in 1 .. k : \A m \in 1 .. k : c[j] <= c[m]
fromLeast(c) ==
    LET m == minIndex(c)
        s == IF At(c, m - 1) < At(c, m + 1) THEN 1 ELSE -1
    IN [j \in 0 .. k - 1 |-> At(c, m + s * j)]

\* Variant: the arrays are compared as they are.
isSameArray(c1, c2) == c1 = c2

isSameCycle(c1, c2) == fromLeast(c1) = fromLeast(c2)

(***************************************************************************)
(* propagate(vIdx, mask) of the first two, up to the loop, for a chord at  *)
(* 1 (for one at 0 it returns), and propagate(mask) of the third.  The     *)
(* first two's propagate(mask) does nothing.                               *)
(***************************************************************************)
Rank(S, o, x) == Cardinality({y \in S : o[y] < o[x]})
Listed(S, o) == [j \in 1 .. Cardinality(S) |-> CHOOSE x \in S : Rank(S, o, x) = j - 1]

Start(path) ==
    /\ pc' = "search"
    /\ currentPath' = path
    /\ visited' = {path[j] : j \in 1 .. Len(path)}
    /\ inds' = [x \in V |-> 0]

\* Variant: what is remembered is dropped by every call.
recallNothing == null

\* A cycle that has lost an edge is forgotten.
recall == IF isCycle(cycle) THEN cycle ELSE null

Propagate(c) ==
    /\ pc = "idle" /\ kind # "atLeastOne" /\ c \in pending
    /\ pending' = pending \ {c}
    /\ cycle' = IF kind = "atMostOne" THEN recall ELSE cycle
    /\ Start(c)
    /\ \E o \in IterationOrders : adjList' = [x \in V |-> Listed(Nbrs(ones, x), o)]
    /\ UNCHANGED <<post, ones, zeros, choco>>

Upwards == [x \in V |-> x]

PropagateAll ==
    /\ pc = "idle" /\ kind = "atLeastOne" /\ pending # {}
    /\ pending' = {}
    /\ IF isCycle(cycle) \/ undetermined(cycle) THEN UNCHANGED <<pc, cycle, walk>>
       ELSE /\ cycle' = null
            /\ Start(<<0>>)
            /\ adjList' = [x \in V |-> Listed(Nbrs(AllEdges \ zeros, x), Upwards)]
    /\ UNCHANGED <<post, ones, zeros, choco>>

(***************************************************************************)
(* The walk.  v is the end of the path; closing closes it to a cycle.      *)
(***************************************************************************)
v == currentPath[Len(currentPath)]
closing == Edge(currentPath[1], v)
Full == pc = "search" /\ Len(currentPath) = k

\* The path loses its end; when it is at its start again the call is over.
Pop ==
    /\ visited' = visited \ {v}
    /\ currentPath' = Front(currentPath)

\* fixEdgeValue(currentPath[0], currentPath[i], false, this)
Exclude ==
    /\ UNCHANGED cycle
    /\ IF closing \in ones
       THEN pc' = "failed" /\ UNCHANGED <<zeros, visited, currentPath>>
       ELSE zeros' = zeros \cup {closing} /\ Pop /\ UNCHANGED pc

RecordNo == Full /\ kind = "no" /\ Exclude

RecordAtMostOne ==
    /\ Full /\ kind = "atMostOne"
    /\ \/ /\ cycle = null /\ closing \in ones
          /\ cycle' = currentPath
          /\ Pop /\ UNCHANGED <<zeros, pc>>
       \/ cycle # null /\ ~ isSameCycle(cycle, currentPath) /\ Exclude
       \/ /\ IF cycle = null THEN closing \notin ones ELSE isSameCycle(cycle, currentPath)
          /\ Pop /\ UNCHANGED <<zeros, pc, cycle>>

RecordAtLeastOne ==
    /\ Full /\ kind = "atLeastOne"
    /\ IF closing \notin zeros
       THEN cycle' = currentPath /\ pc' = "idle" /\ UNCHANGED <<visited, currentPath>>
       ELSE Pop /\ UNCHANGED <<pc, cycle>>
    /\ UNCHANGED zeros

Record ==
    /\ RecordNo \/ RecordAtMostOne \/ RecordAtLeastOne
    /\ UNCHANGED <<post, ones, pending, inds, adjList, choco>>

Untried == {j \in inds[v] + 1 .. Len(adjList[v]) : adjList[v][j] \notin visited}

\* Variants: the new end's index is not reset; v's index does not move on.
newIndsStale(j) == [inds EXCEPT ![v] = j]
newIndsSame(j) == [inds EXCEPT ![adjList[v][j]] = 0]

newInds(j) == [inds EXCEPT ![adjList[v][j]] = 0, ![v] = j]

Advance ==
    /\ pc = "search" /\ Len(currentPath) < k
    /\ \E j \in Untried :
          /\ \A m \in Untried : j <= m
          /\ currentPath' = Append(currentPath, adjList[v][j])
          /\ visited' = visited \cup {adjList[v][j]}
          /\ inds' = newInds(j)
    /\ UNCHANGED <<post, ones, zeros, pending, pc, cycle, adjList, choco>>

\* A walk from a chord ends when the path has lost the chord's second end; one
\* from a vertex s is followed by one from s + 1, and the last by an exception.
Retreat ==
    /\ pc = "search" /\ Len(currentPath) < k /\ Untried = {}
    /\ IF kind = "atLeastOne" /\ Len(currentPath) = 1
       THEN IF v = N - 1 THEN pc' = "failed" /\ UNCHANGED <<currentPath, visited, inds>>
                         ELSE Start(<<v + 1>>)
       ELSE /\ Pop
            /\ inds' = [inds EXCEPT ![v] = Len(adjList[v])]
            /\ pc' = IF kind # "atLeastOne" /\ Len(currentPath) = 2 THEN "idle" ELSE pc
    /\ UNCHANGED <<post, ones, zeros, pending, cycle, adjList, choco>>

(***************************************************************************)
(* The library's search, as in UHGSearch.                                  *)
(***************************************************************************)
Undefined == {c \in Chords : ends(c) \notin ones \cup zeros}

\* The other constraints, propagated as far as possible.
Left == {g \in allowed : ones \subseteq g /\ g \cap zeros = {}}
ForcedOnes == {c \in Undefined : \A g \in Left : ends(c) \in g}
ForcedZeros == {c \in Undefined : \A g \in Left : ends(c) \notin g}

Others ==
    /\ pc = "idle"
    /\ IF Left = {} THEN pc' = "failed" /\ UNCHANGED <<ones, zeros, pending>>
       ELSE /\ ForcedOnes \cup ForcedZeros # {}
            /\ ones' = ones \cup {ends(c) : c \in ForcedOnes}
            /\ zeros' = zeros \cup {ends(c) : c \in ForcedZeros}
            /\ pending' = pending \cup ForcedOnes
                   \cup (IF kind = "atLeastOne" THEN ForcedZeros ELSE {})
            /\ UNCHANGED pc
    /\ UNCHANGED <<post, cycle, walk, choco>>

\* No propagator has anything to do.
Idle == pc = "idle" /\ pending = {} /\ Left # {} /\ ForcedOnes \cup ForcedZeros = {}

Decide ==
    /\ Idle /\ Undefined # {}
    /\ \E c \in Undefined :
       /\ c = getDecision(ones, Undefined)
       /\ trail' = Append(trail, [ones |-> ones, zeros |-> zeros, chord |-> c])
       /\ ones' = ones \cup {ends(c)}
       /\ pending' = {c}
    /\ UNCHANGED <<post, zeros, pc, cycle, walk, solutions, cnt>>

Solved ==
    /\ Idle /\ Undefined = {}
    /\ pc' = "solved"
    /\ solutions' = solutions \cup {ones} /\ cnt' = cnt + 1
    /\ UNCHANGED <<post, ones, zeros, pending, trail, cycle, walk>>

\* The refuted chord is at 0: an event that only PropAtLeastOneCycle heeds.
Refute ==
    /\ pc \in {"failed", "solved"}
    /\ IF trail = <<>>
       THEN pc' = "done" /\ pending' = {} /\ UNCHANGED <<ones, zeros, trail>>
       ELSE LET w == trail[Len(trail)] IN
            /\ ones' = w.ones /\ zeros' = w.zeros \cup {ends(w.chord)}
            /\ trail' = Front(trail)
            /\ pending' = IF kind = "atLeastOne" THEN {w.chord} ELSE {}
            /\ pc' = "idle"
    /\ UNCHANGED <<post, cycle, walk, solutions, cnt>>

\* The constructors; the first propagation is a call of propagate(mask).
Init ==
    /\ kind \in Kinds /\ k \in Lengths /\ allowed \in Posted
    /\ ones = Cycle /\ zeros = {} /\ trail = <<>> /\ solutions = {} /\ cnt = 0
    /\ pending = IF kind = "atLeastOne" THEN Chords ELSE {}
    /\ pc = "idle"
    /\ cycle = IF kind = "atLeastOne" THEN [j \in 1 .. k |-> j - 1] ELSE null
    /\ currentPath = <<>> /\ visited = {} /\ inds = [x \in V |-> 0]
    /\ adjList = [x \in V |-> <<>>]

Call == PropagateAll \/ \E c \in pending : Propagate(c)
Walk == Record \/ Advance \/ Retreat
Search == Others \/ Decide \/ Solved \/ Refute
Next == Call \/ Walk \/ Search

Spec == Init /\ [][Next]_vars
FairSpec == Spec /\ WF_vars(Walk)

-----------------------------------------------------------------------------
\* The k-cycles of a graph, as sets of edges.
SimplePaths(n) == {p \in [1 .. n -> V] : \A j, m \in 1 .. n : p[j] = p[m] => j = m}
AllCycles == [n \in Lengths |->
    {{Edge(p[j], p[(j % n) + 1]) : j \in 1 .. n} : p \in SimplePaths(n)}]
CyclesOf(g, n) == {c \in AllCycles[n] : c \subseteq g}

Wanted == [kd \in Kinds |-> [n \in Lengths |->
    {g \in Graphs :
        LET many == Cardinality(CyclesOf(g, n)) IN
        CASE kd = "no" -> many = 0 [] kd = "atMostOne" -> many <= 1 [] OTHER -> many >= 1}]]

\* The search reports the graphs with no, at most one or at least one k-cycle,
\* each once, whatever was remembered in worlds that have been left, and
\* returns only when it has reported them all.
E == INSTANCE SetEnumeration WITH
        sought <- Wanted[kind][k] \cap allowed, found <- solutions, count <- cnt, finished <- (pc = "done")
Enumerates == E!Spec

\* Between calls PropAtMostOneCycle remembers the k-cycle of the graph, if the
\* graph has one: no cycle that closed went unnoticed, and none was forgotten
\* by a call that a contradiction or a backtrack cut off.
Remembered ==
    kind = "atMostOne" /\ Idle =>
        \A c \in CyclesOf(ones, k) : cycle # null /\ cycleEdges(cycle) = c

\* Paths along edges at 1.
IsPath(p) ==
    /\ \A j, m \in 1 .. k : p[j] = p[m] => j = m
    /\ \A j \in 1 .. k - 1 : Edge(p[j], p[j + 1]) \in ones
Begins(p, q, n) == \A j \in 1 .. n : p[j] = q[j]

\* A call of PropNoCycle that returns has walked every path of k vertices that
\* starts with its chord: the edge that would close it is at 0.
WalkComplete ==
    [][kind = "no" /\ pc = "search" /\ pc' = "idle" =>
          \A p \in [1 .. k -> V] :
              Begins(p, currentPath, 2) /\ IsPath(p) => Edge(p[1], p[k]) \in zeros']_vars

\* Every call returns or throws.
CallsEnd == (pc = "search") ~> (pc # "search")
=============================================================================
