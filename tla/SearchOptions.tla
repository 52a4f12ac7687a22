----------------------------- MODULE SearchOptions -----------------------------
(***************************************************************************)
(* What the options of UHGSearch post.  A model is represented by          *)
(*   allowed   the graphs that satisfy the constraints posted so far,      *)
(*   zeros     the edges whose variable is 0 already,                      *)
(*   crashed   an exception has ended the program.                         *)
(* The edges of the fixed cycle are at 1 from the constructor on.          *)
(***************************************************************************)
EXTENDS HamGraphs, FiniteSetsExt, Sequences

\* The assignments to the edge variables, by the edges at 1.
Graphs == {Cycle \cup {ends(c) : c \in cs} : cs \in SUBSET Chords}

newModel == [allowed |-> Graphs, zeros |-> {}, crashed |-> FALSE]
Post(m, gs) == [m EXCEPT !.allowed = @ \cap gs]

Pairs == {c \in V \X V : c[1] < c[2]}
sum(g, edges) == Cardinality(g \cap edges)

(***************************************************************************)
(* Symmetry breaking: for each rotation and each reflection p of the fixed *)
(* cycle, the vector of all edges is at most that of their images.         *)
(***************************************************************************)
rotation(i) == [j \in V |-> Mod(i + j)]
reflection(i) == [j \in V |-> Mod(i - j)]
dihedralGroupPermutations == {rotation(i) : i \in V} \cup {reflection(i) : i \in V}

Image(p, c) == Edge(p[c[1]], p[c[2]])
lexLessEq(g, p) ==
    \/ \A c \in Pairs : ends(c) \in g <=> Image(p, c) \in g
    \/ \E c \in Pairs : /\ ends(c) \notin g /\ Image(p, c) \in g
                        /\ \A d \in Pairs : Earlier(d, c) => (ends(d) \in g <=> Image(p, d) \in g)

\* Variant: without the reflections.
symmetryBreakingByRotations(m) ==
    Post(m, {g \in m.allowed : \A i \in V : lexLessEq(g, rotation(i))})

symmetryBreaking(m) ==
    Post(m, {g \in m.allowed : \A p \in dihedralGroupPermutations : lexLessEq(g, p)})

(***************************************************************************)
(* Degrees.  The row of a vertex is an array of n - 3 variables, filled    *)
(* with those not instantiated yet; if there are fewer, model.sum meets    *)
(* null.  The array of all chords is filled in the same way.               *)
(***************************************************************************)
PostSums(m, full, gs) == IF full THEN Post(m, gs) ELSE [m EXCEPT !.crashed = TRUE]

row(m, i) == {Edge(i, j) : j \in V \ {i}} \ (Cycle \cup m.zeros)
PostRows(m, gs) == PostSums(m, \A i \in V : Cardinality(row(m, i)) = N - 3, gs)

fixDegrees(m, ds) ==
    PostRows(m, {g \in m.allowed : \A i \in V : sum(g, row(m, i)) = ds[i] - 2})
minDegree(m, d) ==
    PostRows(m, {g \in m.allowed : \A i \in V : sum(g, row(m, i)) > d - 3})

maxDegree(m, d) ==
    PostRows(m, {g \in m.allowed : \A i \in V : sum(g, row(m, i)) < d - 1})

regular(m, deg) == fixDegrees(m, [i \in V |-> deg])

\* Utils.nearlyCubicDS: two vertices of degree 4, the others of degree 3.
nearlyCubicDS ==
    [k \in 1 .. Cardinality(Pairs) |->
        LET c == CHOOSE c \in Pairs : Cardinality({d \in Pairs : Earlier(d, c)}) = k - 1
        IN [i \in V |-> IF i \in ends(c) THEN 4 ELSE 3]]

(***************************************************************************)
(* Chords.  The loops over i meet each chord of length k = n/2 twice.      *)
(***************************************************************************)
chord(i, k) == Edge(Mod(i - k), i)
kchords(k) == {chord(i, k) : i \in V}

PostChords(m, gs) == PostSums(m, m.zeros = {}, gs)
numberOfChords(m, cnt) == PostChords(m, {g \in m.allowed : sum(g, AllEdges \ Cycle) = cnt})
minNumberOfChords(m, cnt) == PostChords(m, {g \in m.allowed : sum(g, AllEdges \ Cycle) > cnt - 1})

\* fixEdgeValue(a, b, false, this): on an edge of the fixed cycle it throws, and
\* the exception is printed.
fixToZero(m, edges) ==
    [m EXCEPT !.zeros = @ \cup (edges \ Cycle),
              !.allowed = {g \in @ : g \cap (edges \ Cycle) = {}}]

shortestChord(m, k) ==
    LET fixed == fixToZero(m, UNION {kchords(len) : len \in 2 .. k - 1})
    IN Post(fixed, {g \in m.allowed : g \cap kchords(k) # {}})

longestChord(m, k) ==
    LET fixed == fixToZero(m, UNION {kchords(len) : len \in k + 1 .. N \div 2})
    IN Post(fixed, {g \in m.allowed : g \cap kchords(k) # {}})

\* A sum over a set of variables, which has each of them once.
numberOfChordsOfLengthK(m, k, cnt) == Post(m, {g \in m.allowed : sum(g, kchords(k)) = cnt})

(***************************************************************************)
(* Case num of a split: its digits, to the base n + 1, are the numbers of  *)
(* chords of the lengths 2, 3, .., splitLevel + 1.                         *)
(***************************************************************************)
base == N + 1

\* num divided by the base as often as there are places.
quotient(num, level) ==
    LET q[j \in 0 .. level] == IF j = 0 THEN num ELSE q[j - 1] \div base IN q

\* Variant: the base is n, so that n chords of a length are no digit.
digitBaseN(num, j, level) ==
    LET q[k \in 0 .. level] == IF k = 0 THEN num ELSE q[k - 1] \div N IN q[level - j] % N

\* The last place first.
digit(num, j, level) == quotient(num, level)[level - j] % base

\* What is left when there are no more places is written before the array.
setCase(m, num, level) ==
    IF quotient(num, level)[level] > 0 THEN [m EXCEPT !.crashed = TRUE]
    ELSE Post(m, {g \in m.allowed : \A j \in 1 .. level :
                    sum(g, kchords(j + 1)) = digit(num, j, level)})

\* girthAtLeast posts PropNoCycle for each smaller length (CyclePropagators).
HasCycle(g, len) ==
    \E p \in [1 .. len -> V] :
        /\ \A i, j \in 1 .. len : p[i] = p[j] => i = j
        /\ \A i \in 1 .. len : Edge(p[i], p[(i % len) + 1]) \in g
girthAtLeast(m, k) ==
    Post(m, {g \in m.allowed : \A len \in 3 .. k - 1 : ~ HasCycle(g, len)})
=============================================================================
