------------------------------ MODULE HamGraphs ------------------------------
(***************************************************************************)
(* Vertices, edges and Hamiltonian cycles: the vocabulary of the Java      *)
(* search for uniquely Hamiltonian graphs.  A graph of order N is the set  *)
(* of its edges, an edge the set of its two ends.  The cycle 0, 1, .., N-1 *)
(* is always present (UHGSearch.fixHamCycle); every other edge is a chord. *)
(***************************************************************************)
EXTENDS Integers, FiniteSets

CONSTANT N          \* graph.order()

ASSUME NAssumption == N \in Nat \ {0, 1, 2}

V == 0 .. N - 1

Edge(u, v) == {u, v}
AllEdges == {Edge(u, v) : u \in V, v \in V} \ {{u} : u \in V}

\* Utils.mod for the arguments the program gives it.
Mod(x) == x % N

\* Utils.cycleDist: the distance of two vertices along the fixed cycle.
cycleDist(i, j) == IF Mod(i - j) < Mod(j - i) THEN Mod(i - j) ELSE Mod(j - i)

\* UHGSearch.fixHamCycle.
Cycle == {Edge(i, Mod(i + 1)) : i \in V}

Nbrs(g, v) == {u \in V : Edge(u, v) \in g /\ u # v}

Chord(x, y) == x < y /\ cycleDist(x, y) # 1
Chords == {c \in V \X V : Chord(c[1], c[2])}
ends(c) == Edge(c[1], c[2])

\* The order of graph.allVars(), and of getDecision's loops.
Earlier(c, d) == c[1] < d[1] \/ (c[1] = d[1] /\ c[2] < d[2])

(***************************************************************************)
(* Reference definitions the search is judged by.                          *)
(***************************************************************************)

\* The orders in which to visit every vertex once.
Orders == {p \in [V -> V] : \A j, k \in V : p[j] = p[k] => j = k}

\* The edge sets of the Hamiltonian cycles.
CycleOf(p) == {Edge(p[k], p[Mod(k + 1)]) : k \in V}
HamCycles == {CycleOf(p) : p \in Orders}

HasSecondCycle(g) == \E c \in HamCycles : c # Cycle /\ c \subseteq g
UniquelyHamiltonian(g) == Cycle \subseteq g /\ ~ HasSecondCycle(g)
=============================================================================
