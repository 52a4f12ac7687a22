--------------------------- MODULE UHGSearchProofs ---------------------------
(***************************************************************************)
(* PropOptimized and its search for every order N.                         *)
(*                                                                         *)
(* The propagator, for every graph and iteration order: its path and its   *)
(* degrees are what the pruning tests take them for, and an edge set to 0  *)
(* or a contradiction always has a second Hamiltonian cycle as its reason. *)
(*                                                                         *)
(* The search: its worlds are nested, it returns only when it has reported *)
(* every uniquely Hamiltonian graph, and it reports none twice and nothing *)
(* else; so it implements SetEnumeration.                                  *)
(***************************************************************************)
EXTENDS UHGSearch, HamGraphsProofs, SequenceTheorems

\* A nonempty set of positions has a first and a last one.
LEMMA MinMaxIn ==
    ASSUME NEW n \in Nat, NEW T, T \subseteq 1 .. n, T # {}
    PROVE  /\ Min(T) \in T /\ \A y \in T : Min(T) <= y
           /\ Max(T) \in T /\ \A y \in T : Max(T) >= y
<1>1. T \subseteq Nat
  OBVIOUS
<1>2. Min(T) \in T /\ \A y \in T : Min(T) <= y
  <2>1. \E x \in T : \A y \in T : x <= y
    BY <1>1, LeastNat
  <2>. QED
    BY <2>1 DEF Min
<1>3. Max(T) \in T /\ \A y \in T : Max(T) >= y
  <2>. DEFINE U == {k \in Nat : \A y \in T : y <= k}
  <2>1. n \in U
    OBVIOUS
  <2>2. PICK m \in U : \A k \in U : m <= k
    <3>. HIDE DEF U
    <3>1. U \subseteq Nat
      BY DEF U
    <3>. QED
      BY <2>1, <3>1, LeastNat
  <2>3. m \in T
    <3>1. SUFFICES ASSUME m \notin T  PROVE FALSE
      OBVIOUS
    <3>2. PICK y \in T : TRUE
      OBVIOUS
    <3>3. m - 1 \in U
      BY <1>1, <3>1, <3>2
    <3>. QED
      BY <2>2, <3>3
  <2>4. \E x \in T : \A y \in T : x >= y
    BY <2>2, <2>3
  <2>. QED
    BY <2>4 DEF Max
<1>. QED
  BY <1>2, <1>3

\* The elements of the sequence s are those of S, each of them once.
Lists(s, S) ==
    /\ s \in Seq(S) /\ {s[k] : k \in 1 .. Len(s)} = S
    /\ \A j, k \in 1 .. Len(s) : s[j] = s[k] => j = k

\* sortByDegrees permutes: the sorted list has each neighbour once.
LEMMA SortedEnumerates ==
    ASSUME NEW S, S \subseteq V, NEW d \in [V -> Nat], NEW o \in IterationOrders
    PROVE  Lists(SortedByDegrees(S, d, o), S)
<1>. DEFINE n == Cardinality(S)
            s == SortedByDegrees(S, d, o)
            pre(x) == {y \in S : Before(d, o, y, x)}
            R(x) == Rank(S, d, o, x)
            rank == [x \in S |-> R(x) + 1]
<1>1. IsFiniteSet(S) /\ n \in Nat
  BY VFacts, FS_Subset, FS_CardinalityType
<1>2. o \in [V -> Nat] /\ \A u, w \in V : o[u] = o[w] => u = w
  BY IterationOrdersAssumption
<1>3. \A x \in S : IsFiniteSet(pre(x)) /\ R(x) \in Nat
  <2>1. \A x \in S : IsFiniteSet(pre(x))
    BY <1>1, FS_Subset
  <2>. QED
    BY <2>1, FS_CardinalityType DEF Rank
<1>4. \A x \in S : R(x) <= n - 1
  <2>1. TAKE x \in S
  <2>2. x \notin pre(x)
    BY <1>2 DEF Before
  <2>3. pre(x) \subseteq S \ {x}
    BY <2>2
  <2>4. IsFiniteSet(S \ {x}) /\ Cardinality(S \ {x}) = n - 1
    BY <1>1, FS_RemoveElement
  <2>. QED
    BY <1>1, <2>3, <2>4, FS_Subset DEF Rank
<1>5. \A x, y \in S : Before(d, o, x, y) => R(x) < R(y)
  <2>1. SUFFICES ASSUME NEW x \in S, NEW y \in S, Before(d, o, x, y)
                 PROVE  Cardinality(pre(x)) < Cardinality(pre(y))
    BY DEF Rank
  <2>2. pre(x) \subseteq pre(y)
    BY <1>2, <2>1 DEF Before
  <2>3. x \in pre(y) /\ x \notin pre(x)
    BY <1>2, <2>1 DEF Before
  <2>4. Cardinality(pre(x)) \in Nat /\ Cardinality(pre(y)) \in Nat
    BY <1>3, FS_CardinalityType
  <2>. QED
    BY <1>3, <2>2, <2>3, <2>4, FS_Subset
<1>6. \A x, y \in S : x # y => Before(d, o, x, y) \/ Before(d, o, y, x)
  BY <1>2 DEF Before
<1>. HIDE DEF R, pre
<1>7. rank \in Injection(S, 1 .. n)
  <2>1. rank \in [S -> 1 .. n]
    BY <1>1, <1>3, <1>4
  <2>2. \A x, y \in S : rank[x] = rank[y] => x = y
    BY <1>3, <1>5, <1>6
  <2>. HIDE DEF rank
  <2>. QED
    BY <2>1, <2>2, Fun_IsInj
<1>8. \A k \in 1 .. n : \E x \in S : rank[x] = k
  <2>1. IsFiniteSet(1 .. n) /\ Cardinality(1 .. n) = n
    BY <1>1, FS_Interval
  <2>. HIDE DEF rank
  <2>2. rank \in Surjection(S, 1 .. n)
    BY <1>7, <2>1, FS_Injection
  <2>. QED
    BY <2>2, Fun_SurjectionProperties
<1>9. \A k \in 1 .. n : s[k] \in S /\ R(s[k]) = k - 1
  <2>1. TAKE k \in 1 .. n
  <2>2. PICK x \in S : rank[x] = k
    BY <1>8
  <2>3. R(x) = k - 1
    BY <1>3, <2>2
  <2>4. s[k] = CHOOSE y \in S : R(y) = k - 1
    BY DEF SortedByDegrees, R
  <2>. QED
    BY <2>3, <2>4
<1>10. s \in Seq(S) /\ Len(s) = n
  <2>1. s = [k \in 1 .. n |-> s[k]]
    BY DEF SortedByDegrees
  <2>2. s \in [1 .. n -> S]
    BY <1>9, <2>1
  <2>. QED
    BY <1>1, <2>2
<1>11. \A x \in S : \E k \in 1 .. n : s[k] = x
  <2>1. TAKE x \in S
  <2>2. rank[x] \in 1 .. n /\ R(x) = rank[x] - 1
    BY <1>3, <1>4, <1>1
  <2>3. s[rank[x]] \in S /\ R(s[rank[x]]) = R(x)
    BY <1>9, <2>2
  <2>4. s[rank[x]] = x
    BY <1>3, <1>5, <1>6, <2>3
  <2>. QED
    BY <2>2, <2>4
<1>12. \A j, k \in 1 .. n : s[j] = s[k] => j = k
  <2>1. TAKE j \in 1 .. n, k \in 1 .. n
  <2>2. R(s[j]) = j - 1 /\ R(s[k]) = k - 1
    BY <1>9
  <2>. HIDE DEF s
  <2>. QED
    BY <1>1, <2>2
<1>. HIDE DEF s
<1>13. Lists(s, S)
  BY <1>9, <1>10, <1>11, <1>12 DEF Lists
<1>. QED
  BY <1>13 DEF s

(***************************************************************************)
(* The inductive invariant.                                                *)
(***************************************************************************)
LEMMA FreeDegreeFacts ==
    ASSUME NEW x, NEW vis, NEW u
    PROVE  /\ FreeDegree(x, vis) \in Nat
           /\ u \in Nbrs(graph, x) \ vis => FreeDegree(x, vis) >= 1
           /\ FreeDegree(x, vis \cup {u}) =
                IF u \in Nbrs(graph, x) \ vis THEN FreeDegree(x, vis) - 1
                ELSE FreeDegree(x, vis)
<1>. DEFINE F == Nbrs(graph, x) \ vis
<1>1. IsFiniteSet(F) /\ Cardinality(F) \in Nat
  BY NbrsFacts, FS_Subset, FS_CardinalityType
<1>2. Nbrs(graph, x) \ (vis \cup {u}) = F \ {u}
  OBVIOUS
<1>3. IsFiniteSet(F \ {u})
      /\ Cardinality(F \ {u}) = IF u \in F THEN Cardinality(F) - 1 ELSE Cardinality(F)
  BY <1>1, FS_RemoveElement
<1>4. Cardinality(F \ {u}) \in Nat
  BY <1>3, FS_CardinalityType
<1>5. FreeDegree(x, vis) = Cardinality(F) /\ FreeDegree(x, vis \cup {u}) = Cardinality(F \ {u})
  BY <1>2 DEF FreeDegree
<1>. HIDE DEF F
<1>6. u \in F => Cardinality(F) >= 1
  BY <1>1, <1>3, <1>4
<1>. QED
  BY <1>1, <1>3, <1>5, <1>6 DEF F

LEMMA DegreesNext ==
    ASSUME graph' = graph,
           \A x \in V \ visited' : degrees'[x] = FreeDegree(x, visited'),
           \A k \in 2 .. i' : degrees'[currentPath'[k]] =
                FreeDegree(currentPath'[k], {currentPath'[j] : j \in 0 .. k - 1})
    PROVE  DegreesAreFree'
BY DEF DegreesAreFree, FreeDegree

\* degrees[] as a call sets it up counts the neighbours off the chord.
LEMMA InitialDegreesFacts ==
    ASSUME NEW c \in Chords
    PROVE  /\ InitialDegrees(c) \in [V -> Nat]
           /\ \A x \in V \ ends(c) : InitialDegrees(c)[x] = FreeDegree(x, ends(c))
<1>1. ASSUME NEW x \in V
      PROVE  /\ Cardinality(Nbrs(graph, x)) \in Nat
             /\ Cardinality(Nbrs(graph, x)) - Cardinality(Nbrs(graph, x) \cap ends(c))
                  = Cardinality(Nbrs(graph, x) \ ends(c))
             /\ Cardinality(Nbrs(graph, x) \ ends(c)) \in Nat
  <2>. DEFINE S == Nbrs(graph, x)
              T == S \cap ends(c)
  <2>1. IsFiniteSet(S) /\ Cardinality(S) \in Nat
    BY NbrsFacts, FS_CardinalityType
  <2>2. IsFiniteSet(T) /\ Cardinality(T) \in Nat
    BY <2>1, FS_Subset, FS_CardinalityType
  <2>3. Cardinality(S \ T) = Cardinality(S) - Cardinality(S \cap T)
    BY <2>1, <2>2, FS_Difference
  <2>4. S \cap T = T /\ S \ T = S \ ends(c)
    OBVIOUS
  <2>5. Cardinality(S \ ends(c)) \in Nat
    BY <2>1, FS_Subset, FS_CardinalityType
  <2>. QED
    BY <2>1, <2>3, <2>4, <2>5
<1>. QED
  BY <1>1 DEF InitialDegrees, FreeDegree

LEMMA IInvInit == Init => IInv
<1>1. SUFFICES ASSUME Init  PROVE IInv
  OBVIOUS
<1>2. PICK cs \in SUBSET Chords : pending = cs /\ graph = Cycle \cup {ends(c) : c \in cs}
  BY <1>1 DEF Init
<1>3. Cycle \subseteq AllEdges
  <2>1. ASSUME NEW k \in V  PROVE Edge(k, Mod(k + 1)) \in AllEdges
    <3>1. k \in Nat /\ k < N /\ N \in Nat /\ N >= 3
      BY VFacts DEF V
    <3>2. Mod(k + 1) = IF k + 1 < N THEN k + 1 ELSE 0
      BY <3>1, ModFacts
    <3>3. Mod(k + 1) \in V /\ Mod(k + 1) # k
      BY <3>1, <3>2 DEF V
    <3>. QED
      BY <3>3, EdgeIn
  <2>. QED
    BY <2>1 DEF Cycle
<1>4. graph \subseteq AllEdges
  BY <1>2, <1>3, ChordFacts
<1>5. <<0, 0>> \in V \X V /\ [x \in V |-> 0] \in [V -> V] /\ 0 \in 0 .. N - 1
      /\ [x \in V |-> <<>>] \in [V -> Seq(V)] /\ [x \in V |-> 0] \in [V -> Nat]
  BY VFacts
<1>6. TypeOK
  BY <1>1, <1>2, <1>4, <1>5 DEF Init, InitArrays, TypeOK
<1>7. CallIsForChord /\ PathIsVisited /\ DegreesAreFree
  BY <1>1, <1>2 DEF Init, CallIsForChord, PathIsVisited, DegreesAreFree
<1>. QED
  BY <1>6, <1>7 DEF IInv

\* A rule's edges are edges.
LEMMA RuleEdgesType ==
    ASSUME NEW c \in Chords
    PROVE  RuleEdges(c) \subseteq AllEdges
<1>1. /\ c[1] \in Nat /\ c[2] \in Nat /\ c[1] < c[2] /\ c[2] < N /\ N \in Nat /\ N >= 3
      /\ c[2] - c[1] >= 2 /\ c[2] - c[1] <= N - 2
  BY ChordFacts, VFacts DEF V
<1>2. Mod(c[1] + 1) = c[1] + 1 /\ Mod(c[2] + 1) = IF c[2] = N - 1 THEN 0 ELSE c[2] + 1
  BY <1>1, ModFacts
<1>3. Mod(c[1] - 1) = IF c[1] = 0 THEN N - 1 ELSE c[1] - 1
  BY <1>1, ModFacts
<1>4. \A x \in Int : Mod(x) \in V
  BY <1>1 DEF Mod, V
<1>5. Rule1(c) \subseteq AllEdges
  <2>1. Mod(c[1] + 1) # Mod(c[2] + 1)
    BY <1>1, <1>2
  <2>. QED
    BY <1>1, <1>4, <2>1, EdgeIn DEF Rule1
<1>6. Rule2(c) \subseteq AllEdges
  <2>1. SUFFICES ASSUME NEW k \in Rule2Loop(c)
                 PROVE  Edge(Mod(c[1] + 1), Mod(c[2] + k + 1)) \in AllEdges
    BY DEF Rule2
  <2>2. k \in Nat /\ Mod(c[2] + k + 1) < c[1]
    BY <1>1, <2>1 DEF Rule2Loop
  <2>3. Mod(c[1] + 1) # Mod(c[2] + k + 1)
    BY <1>1, <1>2, <1>4, <2>2
  <2>. QED
    BY <1>1, <1>4, <2>2, <2>3, EdgeIn
<1>7. Rule3(c) \subseteq AllEdges
  <2>1. SUFFICES ASSUME NEW k \in Rule3Loop(c)
                 PROVE  Edge(Mod(c[1] - 1), Mod(c[2] - k - 1)) \in AllEdges
    BY DEF Rule3
  <2>2. k \in Nat /\ Mod(c[2] - k - 1) > c[1] /\ Mod(c[2] - 2) > c[1] /\ k <= N /\ k >= 1
    BY <1>1, <2>1 DEF Rule3Loop
  <2>3. Mod(c[2] - k - 1) # N - 1 \/ c[1] # 0
    <3>1. SUFFICES ASSUME Mod(c[2] - k - 1) = N - 1, c[1] = 0  PROVE FALSE
      OBVIOUS
    <3>2. Mod(c[2] - k - 1) = IF c[2] - k - 1 < 0 THEN c[2] - k - 1 + N ELSE c[2] - k - 1
      BY <1>1, <2>2, ModFacts
    <3>3. k = c[2]
      BY <1>1, <2>2, <3>1, <3>2
    <3>4. c[2] - 1 \in 1 .. k /\ Mod(c[2] - (c[2] - 1) - 1) = 0
      BY <1>1, <3>3, ModFacts
    <3>5. Mod(c[2] - (c[2] - 1) - 1) > c[1]
      BY <2>1, <3>4 DEF Rule3Loop
    <3>. QED
      BY <3>1, <3>4, <3>5
  <2>4. Mod(c[1] - 1) # Mod(c[2] - k - 1)
    BY <1>1, <1>3, <1>4, <2>2, <2>3
  <2>. QED
    BY <1>1, <1>4, <2>2, <2>4, EdgeIn
<1>. QED
  BY <1>5, <1>6, <1>7 DEF RuleEdges

LEMMA PropagateKeeps ==
    ASSUME IInv, NEW c \in pending, Propagate(c)
    PROVE  IInv'
<1>1. c \in Chords /\ ends(c) \in graph /\ graph' = graph
  BY DEF IInv, TypeOK, CallIsForChord, Propagate
<1>2. pending' \subseteq Chords /\ \A k \in pending' : ends(k) \in graph'
  BY <1>1 DEF IInv, TypeOK, CallIsForChord, Propagate
<1>3. CASE pc' = "failed"
  <2>1. UNCHANGED <<graph, removed, search>>
    BY <1>3 DEF Propagate
  <2>. QED
    BY <1>2, <1>3, <2>1 DEF IInv, TypeOK, CallIsForChord, PathIsVisited, DegreesAreFree, search
<1>4. CASE pc' # "failed"
  <2>1. pc' = "search" /\ removed' = removed \cup RuleEdges(c) /\ Start(c)
    BY <1>4 DEF Propagate
  <2>2. c[1] \in V /\ c[2] \in V /\ c[1] # c[2] /\ c = <<c[1], c[2]>>
    <3>1. c \in V \X V
      BY <1>1 DEF Chords
    <3>2. c[1] \in Nat /\ c[2] \in Nat /\ c[1] < c[2]
      BY <1>1, ChordFacts, VFacts
    <3>. QED
      BY <3>1, <3>2
  <2>3. degrees' \in [V -> Nat] /\ \A x \in V \ ends(c) : degrees'[x] = FreeDegree(x, ends(c))
    BY <1>1, <2>1, InitialDegreesFacts DEF Start
  <2>4. ASSUME NEW x \in V
        PROVE  /\ adjList'[x] \in Seq(V)
               /\ {adjList'[x][k] : k \in 1 .. Len(adjList'[x])} = Nbrs(graph, x)
    <3>1. PICK o \in IterationOrders :
            adjList' = [y \in V |-> SortedByDegrees(Nbrs(graph, y), degrees', o)]
      BY <2>1 DEF Start
    <3>2. adjList'[x] = SortedByDegrees(Nbrs(graph, x), degrees', o)
      BY <3>1
    <3>3. Nbrs(graph, x) \subseteq V
      BY NbrsFacts
    <3>. DEFINE l == SortedByDegrees(Nbrs(graph, x), degrees', o)
    <3>4. l \in Seq(Nbrs(graph, x)) /\ {l[k] : k \in 1 .. Len(l)} = Nbrs(graph, x)
      <4>1. Lists(l, Nbrs(graph, x))
        BY <2>3, <3>3, SortedEnumerates
      <4>. HIDE DEF l
      <4>. QED
        BY <4>1 DEF Lists
    <3>5. adjList'[x] = l
      BY <3>2
    <3>. HIDE DEF l
    <3>. QED
      BY <3>3, <3>4, <3>5
  <2>5. adjList' \in [V -> Seq(V)]
    <3>1. \E f : adjList' = [x \in V |-> f[x]]
      <4>1. PICK o \in IterationOrders :
              adjList' = [y \in V |-> SortedByDegrees(Nbrs(graph, y), degrees', o)]
        BY <2>1 DEF Start
      <4>2. adjList' = [x \in V |-> adjList'[x]]
        BY <4>1
      <4>. QED
        BY <4>2
    <3>. QED
      BY <2>4, <3>1
  <2>6. currentPath' = [k \in V |-> IF k = 0 THEN c[1] ELSE IF k = 1 THEN c[2] ELSE 0]
        /\ i' = 1 /\ e' = c /\ visited' = ends(c) /\ inds' = [x \in V |-> 0]
    BY <2>1 DEF Start
  <2>7. currentPath' \in [V -> V] /\ currentPath'[0] = c[1] /\ currentPath'[1] = c[2]
    BY <2>2, <2>6, VFacts
  <2>8. TypeOK'
    <3>1. removed' \subseteq AllEdges /\ graph' \subseteq AllEdges
      BY <1>1, <2>1, RuleEdgesType DEF IInv, TypeOK
    <3>2. visited' \subseteq V
      BY <2>2, <2>6 DEF ends, Edge
    <3>3. inds' \in [V -> Nat]
      BY <2>6
    <3>4. e' \in V \X V /\ i' \in 0 .. N - 1
      BY <2>2, <2>6, VFacts
    <3>. QED
      BY <1>2, <2>1, <2>3, <2>5, <2>7, <3>1, <3>2, <3>3, <3>4 DEF TypeOK
  <2>9. CallIsForChord'
    BY <1>1, <1>2, <2>1, <2>4, <2>6 DEF IInv, CallIsForChord
  <2>10. PathIsVisited'
    <3>1. 0 .. i' = {0, 1} /\ 1 .. i' = {1}
      BY <2>6
    <3>2. {currentPath'[k] : k \in 0 .. i'} = ends(c)
      BY <2>7, <3>1 DEF ends, Edge
    <3>. QED
      BY <1>1, <2>2, <2>6, <2>7, <3>1, <3>2 DEF PathIsVisited, ends
  <2>11. DegreesAreFree'
    BY <1>1, <2>3, <2>6 DEF DegreesAreFree, FreeDegree
  <2>. QED
    BY <2>8, <2>9, <2>10, <2>11 DEF IInv
<1>. QED
  BY <1>3, <1>4

\* What the inner loop picks from is a list of neighbours of v.
LEMMA NsIsNeighbours ==
    ASSUME IInv, pc = "search"
    PROVE  /\ v \in V
           /\ \A k \in Untried : k \in Nat /\ ns[k] \in Nbrs(graph, v) /\ ns[k] \notin visited
           /\ Len(ns) \in Nat /\ Len(adjList[v]) \in Nat
<1>1. v \in V
  BY DEF IInv, TypeOK, v, V
<1>2. adjList[v] \in Seq(V) /\ Len(adjList[v]) \in Nat
  BY <1>1 DEF IInv, TypeOK
<1>3. \A k \in 1 .. Len(adjList[v]) : adjList[v][k] \in Nbrs(graph, v)
  BY <1>1 DEF IInv, CallIsForChord
<1>4. /\ Len(ns) \in Nat
      /\ \A k \in 1 .. Len(ns) : ns[k] \in Nbrs(graph, v)
  <2>1. CASE Forced
    <3>1. FreeWith(v, 1) # {}
      BY <2>1, FS_EmptySet DEF Forced
    <3>2. PICK x : x \in FreeWith(v, 1)
      BY <3>1
    <3>3. x \in Nbrs(graph, v)
      BY <3>2 DEF FreeWith, Free
    <3>4. \E k \in 1 .. Len(adjList[v]) : adjList[v][k] = x
      BY <1>1, <3>3 DEF IInv, CallIsForChord
    <3>5. ForcedAt # {} /\ ForcedAt \subseteq 1 .. Len(adjList[v])
      BY <3>2, <3>4 DEF ForcedAt
    <3>6. Min(ForcedAt) \in 1 .. Len(adjList[v]) /\ Max(ForcedAt) \in 1 .. Len(adjList[v])
      BY <1>2, <3>5, MinMaxIn
    <3>7. ns = <<adjList[v][Min(ForcedAt)], adjList[v][Max(ForcedAt)]>>
      BY <2>1 DEF ns
    <3>. QED
      BY <1>3, <3>6, <3>7
  <2>2. CASE ~ Forced
    BY <1>2, <1>3, <2>2 DEF ns
  <2>. QED
    BY <2>1, <2>2
<1>5. inds[v] \in Nat
  BY <1>1 DEF IInv, TypeOK
<1>6. Untried \subseteq 1 .. Len(ns)
  BY <1>4, <1>5 DEF Untried
<1>7. \A k \in Untried : ns[k] \notin visited
  BY DEF Untried, Eligible
<1>. QED
  BY <1>1, <1>2, <1>4, <1>6, <1>7

\* Facts about a path in the middle of a walk.
LEMMA WalkFacts ==
    ASSUME IInv, pc = "search"
    PROVE  /\ i \in Nat /\ i >= 1 /\ i <= N - 1 /\ N \in Nat
           /\ 0 .. i \subseteq V
           /\ visited = {currentPath[k] : k \in 0 .. i}
           /\ v \in V /\ v \in visited
           /\ visited \ {v} = {currentPath[k] : k \in 0 .. i - 1}
<1>1. i \in Nat /\ i >= 1 /\ i <= N - 1 /\ N \in Nat /\ 0 .. i \subseteq V
  BY VFacts DEF IInv, TypeOK, PathIsVisited, V
<1>2. visited = {currentPath[k] : k \in 0 .. i}
      /\ \A j, k \in 0 .. i : currentPath[j] = currentPath[k] => j = k
  BY DEF IInv, PathIsVisited
<1>3. v \in V /\ v \in visited
  <2>1. i \in 0 .. i
    BY <1>1
  <2>2. i \in V /\ currentPath \in [V -> V]
    BY <1>1, <2>1 DEF IInv, TypeOK
  <2>. QED
    BY <1>2, <2>1, <2>2 DEF v
<1>4. visited \ {v} = {currentPath[k] : k \in 0 .. i - 1}
  <2>1. 0 .. i = (0 .. i - 1) \cup {i} /\ i \notin 0 .. i - 1
    BY <1>1
  <2>. QED
    BY <1>2, <2>1 DEF v
<1>. QED
  BY <1>1, <1>2, <1>3, <1>4

LEMMA AdvanceKeeps ==
    ASSUME IInv, Advance
    PROVE  IInv'
<1>1. pc = "search" /\ i < N - 1
  BY DEF Advance
<1>k. PICK k0 \in Untried : Extend(ns[k0], [inds EXCEPT ![ns[k0]] = 0, ![v] = k0])
  BY DEF Advance
<1>. DEFINE u == ns[k0]
<1>2. /\ Extend(u, [inds EXCEPT ![u] = 0, ![v] = k0])
      /\ pc' = pc /\ graph' = graph /\ removed' = removed /\ pending' = pending
      /\ e' = e /\ adjList' = adjList
  BY <1>k DEF Extend
<1>3. k0 \in Nat /\ u \in Nbrs(graph, v) /\ u \notin visited /\ v \in V
  BY <1>1, <1>k, NsIsNeighbours
<1>. HIDE DEF u
<1>4. /\ i' = i + 1 /\ visited' = visited \cup {u}
      /\ currentPath' = [currentPath EXCEPT ![i + 1] = u]
      /\ inds' = [inds EXCEPT ![u] = 0, ![v] = k0]
      /\ degrees' = [x \in V |-> IF x \in Free(u) THEN degrees[x] - 1 ELSE degrees[x]]
  BY <1>2 DEF Extend
<1>5. /\ i \in Nat /\ i >= 1 /\ N \in Nat /\ 0 .. i \subseteq V /\ i + 1 \in V
      /\ visited = {currentPath[k] : k \in 0 .. i}
  BY <1>1, WalkFacts, VFacts DEF V
<1>6. u \in V /\ Edge(u, v) \in graph
  BY <1>3, NbrsFacts DEF Nbrs
<1>7. currentPath \in [V -> V] /\ degrees \in [V -> Nat] /\ inds \in [V -> Nat] /\ visited \subseteq V
  BY DEF IInv, TypeOK
<1>8. currentPath' \in [V -> V] /\ currentPath'[i + 1] = u
      /\ \A k \in 0 .. i : currentPath'[k] = currentPath[k]
  BY <1>4, <1>5, <1>6, <1>7
<1>9. \A x \in V \ visited : degrees[x] = FreeDegree(x, visited)
  BY <1>1 DEF IInv, DegreesAreFree
<1>10. \A x \in V : x \in Free(u) <=> x \notin visited /\ u \in Nbrs(graph, x)
  BY <1>6, NbrsFacts DEF Free
<1>11. \A x \in V \ visited : degrees'[x] = FreeDegree(x, visited \cup {u}) /\ degrees'[x] \in Nat
  <2>1. TAKE x \in V \ visited
  <2>2. degrees'[x] = IF x \in Free(u) THEN degrees[x] - 1 ELSE degrees[x]
    BY <1>4
  <2>3. x \in Free(u) <=> u \in Nbrs(graph, x) \ visited
    BY <1>3, <1>10
  <2>4. /\ FreeDegree(x, visited) \in Nat
        /\ u \in Nbrs(graph, x) \ visited => FreeDegree(x, visited) >= 1
        /\ FreeDegree(x, visited \cup {u}) =
             IF u \in Nbrs(graph, x) \ visited THEN FreeDegree(x, visited) - 1
             ELSE FreeDegree(x, visited)
    BY FreeDegreeFacts
  <2>5. degrees[x] = FreeDegree(x, visited)
    BY <1>9
  <2>. QED
    BY <2>2, <2>3, <2>4, <2>5
<1>12. \A x \in visited : degrees'[x] = degrees[x] /\ degrees'[x] \in Nat
  BY <1>4, <1>7 DEF Free
<1>13. TypeOK'
  <2>1. degrees' \in [V -> Nat]
    BY <1>4, <1>11, <1>12
  <2>2. inds' \in [V -> Nat]
    BY <1>3, <1>4, <1>6, <1>7
  <2>3. visited' \subseteq V /\ i' \in 0 .. N - 1
    BY <1>1, <1>4, <1>5, <1>6, <1>7
  <2>. QED
    BY <1>2, <1>8, <2>1, <2>2, <2>3 DEF IInv, TypeOK
<1>14. CallIsForChord'
  BY <1>2 DEF IInv, CallIsForChord
<1>15. 0 .. i' = (0 .. i) \cup {i + 1} /\ 1 .. i' = (1 .. i) \cup {i + 1}
  BY <1>4, <1>5
<1>16. PathIsVisited'
  <2>1. /\ currentPath[0] = e[1] /\ currentPath[1] = e[2]
        /\ \A j, k \in 0 .. i : currentPath[j] = currentPath[k] => j = k
        /\ \A k \in 1 .. i : Edge(currentPath[k - 1], currentPath[k]) \in graph
    BY <1>1 DEF IInv, PathIsVisited
  <2>2. \A k \in 0 .. i : currentPath[k] # u
    BY <1>3, <1>5
  <2>3. \A j, k \in 0 .. i' : currentPath'[j] = currentPath'[k] => j = k
    BY <1>8, <1>15, <2>1, <2>2
  <2>4. Edge(currentPath'[i], currentPath'[i + 1]) \in graph
    BY <1>5, <1>6, <1>8 DEF v, Edge
  <2>5. \A k \in 1 .. i' : Edge(currentPath'[k - 1], currentPath'[k]) \in graph'
    BY <1>2, <1>5, <1>8, <1>15, <2>1, <2>4
  <2>6. visited' = {currentPath'[k] : k \in 0 .. i'}
    BY <1>4, <1>5, <1>8, <1>15
  <2>. QED
    BY <1>2, <1>4, <1>5, <1>8, <2>1, <2>3, <2>5, <2>6 DEF PathIsVisited
<1>17. DegreesAreFree'
  <2>1. \A x \in V \ visited' : degrees'[x] = FreeDegree(x, visited')
    BY <1>4, <1>11
  <2>2. ASSUME NEW k \in 2 .. i'
        PROVE  degrees'[currentPath'[k]] =
                 FreeDegree(currentPath'[k], {currentPath'[j] : j \in 0 .. k - 1})
    <3>1. \A j \in 0 .. k - 1 : currentPath'[j] = currentPath[j]
      BY <1>4, <1>5, <1>8, <2>2
    <3>2. {currentPath'[j] : j \in 0 .. k - 1} = {currentPath[j] : j \in 0 .. k - 1}
      BY <3>1
    <3>3. CASE k <= i
      <4>1. k \in 2 .. i /\ k \in 0 .. i
        BY <1>5, <2>2, <3>3
      <4>2. currentPath'[k] = currentPath[k] /\ currentPath[k] \in visited
        BY <1>5, <1>8, <4>1
      <4>3. degrees[currentPath[k]] = FreeDegree(currentPath[k], {currentPath[j] : j \in 0 .. k - 1})
        BY <1>1, <4>1 DEF IInv, DegreesAreFree
      <4>. QED
        BY <1>12, <3>2, <4>2, <4>3
    <3>4. CASE k = i + 1
      <4>1. currentPath'[k] = u /\ {currentPath[j] : j \in 0 .. k - 1} = visited
        BY <1>5, <1>8, <3>4
      <4>2. u \notin Free(u)
        BY NbrsFacts DEF Free
      <4>3. degrees'[u] = FreeDegree(u, visited)
        BY <1>3, <1>4, <1>6, <1>9, <4>2
      <4>. QED
        BY <3>2, <4>1, <4>3
    <3>. QED
      BY <1>4, <1>5, <2>2, <3>3, <3>4
  <2>. QED
    BY <1>2, <2>1, <2>2, DegreesNext
<1>. QED
  BY <1>13, <1>14, <1>16, <1>17 DEF IInv

\* A path one shorter: what Retreat and RecordPath leave, but for the degrees.
LEMMA ShorterPath ==
    ASSUME IInv, pc = "search", i' = i - 1, i >= 2, pc' = "search",
           visited' = visited \ {v}, graph' = graph, e' = e,
           \A k \in 0 .. i - 1 : currentPath'[k] = currentPath[k]
    PROVE  PathIsVisited'
<1>1. i \in Nat /\ 0 .. i' \subseteq 0 .. i /\ 1 .. i' \subseteq 1 .. i
      /\ 0 .. i' = 0 .. i - 1 /\ 0 \in 0 .. i' /\ 1 \in 0 .. i' /\ i' >= 1
  BY WalkFacts
<1>2. visited \ {v} = {currentPath[k] : k \in 0 .. i - 1}
  BY WalkFacts
<1>3. visited' = {currentPath'[k] : k \in 0 .. i'}
  BY <1>1, <1>2
<1>4. /\ currentPath[0] = e[1] /\ currentPath[1] = e[2]
      /\ \A j, k \in 0 .. i : currentPath[j] = currentPath[k] => j = k
      /\ \A k \in 1 .. i : Edge(currentPath[k - 1], currentPath[k]) \in graph
  BY DEF IInv, PathIsVisited
<1>5. \A k \in 1 .. i' : k - 1 \in 0 .. i' /\ k \in 0 .. i' /\ k \in 1 .. i
  BY <1>1
<1>6. \A k \in 1 .. i' : Edge(currentPath'[k - 1], currentPath'[k]) \in graph'
  BY <1>1, <1>4, <1>5
<1>7. \A j, k \in 0 .. i' : currentPath'[j] = currentPath'[k] => j = k
  BY <1>1, <1>4
<1>8. currentPath'[0] = e'[1] /\ currentPath'[1] = e'[2]
  BY <1>1, <1>4
<1>. QED
  BY <1>1, <1>3, <1>6, <1>7, <1>8 DEF PathIsVisited

LEMMA RetreatKeeps ==
    ASSUME IInv, Retreat
    PROVE  IInv'
<1>1. /\ pc = "search" /\ i < N - 1
      /\ Shrink([x \in V |-> IF x \in Free(v) THEN degrees[x] + 1 ELSE degrees[x]])
  BY DEF Retreat
<1>2. /\ visited' = visited \ {v} /\ i' = i - 1
      /\ currentPath' = [currentPath EXCEPT ![i] = 0]
      /\ inds' = [inds EXCEPT ![v] = IF Pruned THEN Len(adjList[v]) ELSE Len(ns)]
      /\ degrees' = [x \in V |-> IF x \in Free(v) THEN degrees[x] + 1 ELSE degrees[x]]
      /\ pc' = (IF i = 1 THEN "idle" ELSE pc)
      /\ graph' = graph /\ removed' = removed /\ pending' = pending /\ e' = e /\ adjList' = adjList
  BY <1>1 DEF Shrink
<1>3. /\ i \in Nat /\ i >= 1 /\ i \in V /\ N \in Nat /\ v \in V
      /\ visited = {currentPath[k] : k \in 0 .. i}
      /\ visited \ {v} = {currentPath[k] : k \in 0 .. i - 1}
  BY <1>1, WalkFacts
<1>4. currentPath \in [V -> V] /\ degrees \in [V -> Nat] /\ inds \in [V -> Nat] /\ visited \subseteq V
  BY DEF IInv, TypeOK
<1>5. currentPath' \in [V -> V] /\ \A k \in 0 .. i - 1 : currentPath'[k] = currentPath[k]
  <2>1. 0 \in V /\ 0 .. i - 1 \subseteq V /\ i \notin 0 .. i - 1
    BY <1>3, VFacts DEF V
  <2>. QED
    BY <1>2, <1>3, <1>4, <2>1
<1>6. TypeOK'
  <2>1. degrees' \in [V -> Nat]
    BY <1>2, <1>4
  <2>2. inds' \in [V -> Nat]
    BY <1>1, <1>2, <1>4, NsIsNeighbours
  <2>3. visited' \subseteq V /\ i' \in 0 .. N - 1 /\ pc' \in {"idle", "search"}
    BY <1>1, <1>2, <1>3, <1>4
  <2>. QED
    BY <1>2, <1>5, <2>1, <2>2, <2>3 DEF IInv, TypeOK
<1>7. CallIsForChord'
  BY <1>1, <1>2 DEF IInv, CallIsForChord
<1>8. CASE i = 1
  BY <1>2, <1>6, <1>7, <1>8 DEF IInv, PathIsVisited, DegreesAreFree
<1>9. CASE i >= 2
  <2>1. PathIsVisited'
    BY <1>1, <1>2, <1>5, <1>9, ShorterPath
  <2>2. \A x \in V : x \in Free(v) <=> x \notin visited /\ v \in Nbrs(graph, x)
    BY <1>3, NbrsFacts DEF Free
  <2>3. ASSUME NEW x \in V \ visited'
        PROVE  degrees'[x] = FreeDegree(x, visited \ {v})
    <3>1. CASE x = v
      <4>1. degrees'[v] = degrees[v]
        BY <1>2, <1>3, <1>4, NbrsFacts DEF Free
      <4>2. degrees[currentPath[i]] = FreeDegree(currentPath[i], {currentPath[j] : j \in 0 .. i - 1})
        <5>1. i \in 2 .. i
          BY <1>3, <1>9
        <5>. QED
          BY <1>1, <5>1 DEF IInv, DegreesAreFree
      <4>. QED
        BY <1>3, <3>1, <4>1, <4>2 DEF v
    <3>2. CASE x # v
      <4>1. x \in V \ visited
        BY <1>2, <2>3, <3>2
      <4>2. degrees[x] = FreeDegree(x, visited)
        BY <1>1, <4>1 DEF IInv, DegreesAreFree
      <4>3. (visited \ {v}) \cup {v} = visited
        BY <1>1, WalkFacts
      <4>4. FreeDegree(x, visited) =
              IF v \in Nbrs(graph, x) THEN FreeDegree(x, visited \ {v}) - 1
              ELSE FreeDegree(x, visited \ {v})
        BY <4>3, FreeDegreeFacts
      <4>5. FreeDegree(x, visited \ {v}) \in Nat
        BY FreeDegreeFacts
      <4>. QED
        BY <1>2, <2>2, <4>1, <4>2, <4>4, <4>5
    <3>. QED
      BY <3>1, <3>2
  <2>4. ASSUME NEW k \in 2 .. i'
        PROVE  degrees'[currentPath'[k]] =
                 FreeDegree(currentPath'[k], {currentPath'[j] : j \in 0 .. k - 1})
    <3>1. k \in 2 .. i /\ k \in 0 .. i /\ k \in 0 .. i - 1 /\ 0 .. k - 1 \subseteq 0 .. i - 1
      BY <1>2, <1>3, <2>4
    <3>2. {currentPath'[j] : j \in 0 .. k - 1} = {currentPath[j] : j \in 0 .. k - 1}
      BY <1>5, <3>1
    <3>3. currentPath'[k] = currentPath[k] /\ currentPath[k] \in visited
      BY <1>3, <1>5, <3>1
    <3>4. degrees'[currentPath[k]] = degrees[currentPath[k]]
      BY <1>2, <1>4, <3>3 DEF Free
    <3>5. degrees[currentPath[k]] = FreeDegree(currentPath[k], {currentPath[j] : j \in 0 .. k - 1})
      BY <1>1, <3>1 DEF IInv, DegreesAreFree
    <3>. QED
      BY <3>2, <3>3, <3>4, <3>5
  <2>5. DegreesAreFree'
    BY <1>2, <2>3, <2>4, DegreesNext
  <2>. QED
    BY <1>6, <1>7, <2>1, <2>5 DEF IInv
<1>. QED
  BY <1>3, <1>8, <1>9

\* A path of N vertices visits all of them.
LEMMA FullPath ==
    ASSUME IInv, pc = "search", i = N - 1
    PROVE  /\ \A j, k \in V : currentPath[j] = currentPath[k] => j = k
           /\ visited = V
<1>1. currentPath \in [V -> V] /\ V = 0 .. i
  BY DEF IInv, TypeOK, V
<1>2. \A j, k \in V : currentPath[j] = currentPath[k] => j = k
  BY <1>1 DEF IInv, PathIsVisited
<1>3. currentPath \in Injection(V, V)
  BY <1>1, <1>2, Fun_IsInj
<1>4. currentPath \in Surjection(V, V)
  BY <1>3, VFacts, FS_Injection
<1>5. \A x \in V : \E k \in V : currentPath[k] = x
  BY <1>4, Fun_SurjectionProperties
<1>6. visited = {currentPath[k] : k \in V} /\ \A k \in V : currentPath[k] \in V
  BY <1>1 DEF IInv, PathIsVisited
<1>7. visited = V
  BY <1>5, <1>6
<1>. QED
  BY <1>2, <1>7

LEMMA RecordPathKeeps ==
    ASSUME IInv, RecordPath
    PROVE  IInv'
<1>1. pc = "search" /\ i = N - 1
  BY DEF RecordPath
<1>2. CASE Edge(currentPath[0], v) \in graph
  <2>1. pc' = "failed" /\ UNCHANGED <<graph, removed, pending, search>>
    BY <1>2 DEF RecordPath
  <2>. QED
    BY <2>1 DEF IInv, TypeOK, CallIsForChord, PathIsVisited, DegreesAreFree, search
<1>3. CASE Edge(currentPath[0], v) \notin graph
  <2>1. /\ removed' = removed \cup {Edge(currentPath[0], v)}
        /\ visited' = visited \ {v} /\ i' = i - 1
        /\ graph' = graph /\ pending' = pending /\ pc' = pc /\ e' = e
        /\ currentPath' = currentPath /\ degrees' = degrees /\ inds' = inds /\ adjList' = adjList
    BY <1>3 DEF RecordPath
  <2>2. /\ i \in Nat /\ i >= 2 /\ i \in V /\ N \in Nat /\ v \in V
        /\ visited \ {v} = {currentPath[k] : k \in 0 .. i - 1}
    BY <1>1, WalkFacts, VFacts
  <2>3. Edge(currentPath[0], v) \in AllEdges
    <3>1. currentPath[0] # v /\ currentPath[0] \in V
      BY <1>1, <2>2, FullPath, VFacts DEF v, IInv, TypeOK
    <3>. QED
      BY <2>2, <3>1, EdgeIn
  <2>4. TypeOK'
    <3>1. removed' \subseteq AllEdges
      BY <2>1, <2>3 DEF IInv, TypeOK
    <3>2. i' \in 0 .. N - 1 /\ visited' \subseteq V
      BY <1>1, <2>1, <2>2 DEF IInv, TypeOK
    <3>. QED
      BY <2>1, <3>1, <3>2 DEF IInv, TypeOK
  <2>5. CallIsForChord'
    BY <2>1 DEF IInv, CallIsForChord
  <2>6. PathIsVisited'
    BY <1>1, <2>1, <2>2, ShorterPath
  <2>7. \A x \in V \ visited' : degrees'[x] = FreeDegree(x, visited')
    <3>1. \A x \in V \ visited' : x = v
      BY <1>1, <2>1, FullPath
    <3>2. degrees[currentPath[i]] = FreeDegree(currentPath[i], {currentPath[j] : j \in 0 .. i - 1})
      <4>1. i \in 2 .. i
        BY <2>2
      <4>. QED
        BY <1>1, <4>1 DEF IInv, DegreesAreFree
    <3>3. degrees[v] = FreeDegree(v, visited \ {v})
      BY <2>2, <3>2 DEF v
    <3>. QED
      BY <2>1, <3>1, <3>3
  <2>8. DegreesAreFree'
    <3>1. 2 .. i' \subseteq 2 .. i
      BY <2>1, <2>2
    <3>2. \A k \in 2 .. i : degrees[currentPath[k]] =
                FreeDegree(currentPath[k], {currentPath[j] : j \in 0 .. k - 1})
      BY <1>1 DEF IInv, DegreesAreFree
    <3>3. \A k \in 2 .. i' : degrees'[currentPath'[k]] =
                FreeDegree(currentPath'[k], {currentPath'[j] : j \in 0 .. k - 1})
      <4>. SUFFICES ASSUME NEW k \in 2 .. i'
                    PROVE  degrees[currentPath[k]] =
                             FreeDegree(currentPath[k], {currentPath[j] : j \in 0 .. k - 1})
        BY <2>1
      <4>. QED
        BY <3>1, <3>2
    <3>. QED
      BY <2>1, <2>7, <3>3, DegreesNext
  <2>. QED
    BY <2>4, <2>5, <2>6, <2>8 DEF IInv
<1>. QED
  BY <1>2, <1>3

LEMMA IInvStep == IInv /\ [Next]_vars => IInv'
<1>1. ASSUME IInv, NextCall  PROVE IInv'
  BY <1>1, PropagateKeeps DEF NextCall, Propagate
<1>2. ASSUME IInv, Walk  PROVE IInv'
  BY <1>2, AdvanceKeeps, RetreatKeeps, RecordPathKeeps DEF Walk
<1>3. ASSUME IInv, UNCHANGED vars  PROVE IInv'
  <2>1. /\ graph' = graph /\ removed' = removed /\ pending' = pending /\ pc' = pc
        /\ e' = e /\ i' = i /\ currentPath' = currentPath /\ visited' = visited
        /\ degrees' = degrees /\ inds' = inds /\ adjList' = adjList
    BY <1>3 DEF vars, search
  <2>2. TypeOK'
    BY <1>3, <2>1 DEF IInv, TypeOK
  <2>3. CallIsForChord'
    BY <1>3, <2>1 DEF IInv, CallIsForChord
  <2>4. PathIsVisited'
    BY <1>3, <2>1 DEF IInv, PathIsVisited
  <2>5. DegreesAreFree'
    BY <1>3, <2>1 DEF IInv, DegreesAreFree, FreeDegree
  <2>. QED
    BY <2>2, <2>3, <2>4, <2>5 DEF IInv
<1>. QED
  BY <1>1, <1>2, <1>3 DEF Next

\* The walk of propagate(vIdx, mask): its arrays have their types, currentPath
\* is a path of visited vertices from the chord, degrees counts free neighbours.
THEOREM WalkInvariant == Spec => []IInv
<1>1. Init => IInv
  BY IInvInit
<1>2. IInv /\ [Next]_vars => IInv'
  BY IInvStep
<1>. QED
  BY <1>1, <1>2, PTL DEF Spec

THEOREM TypeCorrect == Spec => []TypeOK
<1>1. IInv => TypeOK
  BY DEF IInv
<1>. QED
  BY <1>1, WalkInvariant, PTL

\* What sortByDegrees, makesNeighborUnreachable and the pruning read in
\* degrees[] is right at every step of every call.
THEOREM DegreesCorrect == Spec => []DegreesAreFree
<1>1. IInv => DegreesAreFree
  BY DEF IInv
<1>. QED
  BY <1>1, WalkInvariant, PTL

THEOREM PathCorrect == Spec => []PathIsVisited
<1>1. IInv => PathIsVisited
  BY DEF IInv
<1>. QED
  BY <1>1, WalkInvariant, PTL

(***************************************************************************)
(* The reasons of what a call sets to 0.                                   *)
(***************************************************************************)
LEMMA RuleReason ==
    ASSUME IInv, NEW c \in pending, NEW d \in RuleEdges(c)
    PROVE  HasSecondCycle(graph \cup {d})
<1>. DEFINE g == graph \cup {d}
<1>1. c \in Chords /\ Cycle \subseteq g /\ ends(c) \in g /\ d \in g
  BY DEF IInv, TypeOK, CallIsForChord
<1>2. CASE d \in Rule1(c)
  <2>1. Edge(Mod(c[1] + 1), Mod(c[2] + 1)) \in g
    BY <1>1, <1>2 DEF Rule1
  <2>. HIDE DEF g
  <2>2. HasSecondCycle(g)
    BY <1>1, <2>1, Rule1Closes
  <2>. QED
    BY <2>2 DEF g
<1>3. CASE d \in Rule2(c)
  <2>1. PICK k \in Rule2Loop(c) :
          /\ Edge(Mod(c[2] + k), Mod(c[2] - 1)) \in graph
          /\ d = Edge(Mod(c[1] + 1), Mod(c[2] + k + 1))
    BY <1>3 DEF Rule2
  <2>2. k \in 1 .. N /\ \A j \in 1 .. k : Mod(c[2] + j + 1) < c[1]
    BY <2>1 DEF Rule2Loop
  <2>3. Edge(Mod(c[2] + k), Mod(c[2] - 1)) \in g /\ Edge(Mod(c[1] + 1), Mod(c[2] + k + 1)) \in g
    BY <2>1
  <2>. HIDE DEF g
  <2>4. HasSecondCycle(g)
    BY <1>1, <2>2, <2>3, Rule2Closes
  <2>. QED
    BY <2>4 DEF g
<1>4. CASE d \in Rule3(c)
  <2>1. PICK k \in Rule3Loop(c) :
          /\ Edge(Mod(c[2] - k), Mod(c[2] + 1)) \in graph
          /\ d = Edge(Mod(c[1] - 1), Mod(c[2] - k - 1))
    BY <1>4 DEF Rule3
  <2>2. k \in 1 .. N /\ \A j \in 1 .. k : Mod(c[2] - j - 1) > c[1]
    BY <2>1 DEF Rule3Loop
  <2>3. Edge(Mod(c[2] - k), Mod(c[2] + 1)) \in g /\ Edge(Mod(c[1] - 1), Mod(c[2] - k - 1)) \in g
    BY <2>1
  <2>. HIDE DEF g
  <2>4. HasSecondCycle(g)
    BY <1>1, <2>2, <2>3, Rule3Closes
  <2>. QED
    BY <2>4 DEF g
<1>. QED
  BY <1>2, <1>3, <1>4 DEF RuleEdges

LEMMA PathReason ==
    ASSUME IInv, pc = "search", i = N - 1
    PROVE  HasSecondCycle(graph \cup {Edge(currentPath[0], v)})
<1>. DEFINE g == graph \cup {Edge(currentPath[0], v)}
<1>1. /\ currentPath \in [V -> V] /\ currentPath[0] = e[1] /\ currentPath[1] = e[2]
      /\ \A k \in 1 .. i : Edge(currentPath[k - 1], currentPath[k]) \in graph
      /\ e \in Chords /\ ends(e) \in graph
  BY VFacts DEF IInv, TypeOK, PathIsVisited, CallIsForChord
<1>2. \A j, k \in V : currentPath[j] = currentPath[k] => j = k
  BY FullPath
<1>3. ASSUME NEW k \in V  PROVE Edge(currentPath[k], currentPath[Mod(k + 1)]) \in g
  <2>1. k \in Nat /\ k < N /\ N \in Nat /\ N >= 3
    BY VFacts DEF V
  <2>2. CASE k = N - 1
    <3>1. Mod(k + 1) = 0 /\ v = currentPath[k]
      BY <2>1, <2>2, ModFacts DEF v
    <3>2. Edge(currentPath[k], currentPath[Mod(k + 1)]) = Edge(currentPath[0], v)
      BY <3>1 DEF Edge
    <3>. QED
      BY <3>2
  <2>3. CASE k < N - 1
    <3>1. Mod(k + 1) = k + 1 /\ k + 1 \in 1 .. i /\ k + 1 - 1 = k
      BY <2>1, <2>3, ModFacts
    <3>2. PICK m \in 1 .. i : m = k + 1
      BY <3>1
    <3>3. Edge(currentPath[k], currentPath[k + 1]) \in graph
      <4>1. Edge(currentPath[m - 1], currentPath[m]) \in graph
        BY <1>1
      <4>2. m - 1 = k
        BY <2>1, <3>2
      <4>. QED
        BY <3>2, <4>1, <4>2
    <3>. QED
      BY <3>1, <3>3
  <2>. QED
    BY <2>1, <2>2, <2>3
<1>4. ends(e) = Edge(currentPath[0], currentPath[Mod(0 + 1)]) /\ 0 \in V
  <2>1. Mod(0 + 1) = 1
    BY VFacts, ModFacts
  <2>. QED
    BY <1>1, <2>1, VFacts DEF ends
<1>. HIDE DEF g
<1>5. HasSecondCycle(g)
  BY <1>1, <1>2, <1>3, <1>4, SecondCycle
<1>. QED
  BY <1>5 DEF g

LEMMA ReasonsStep ==
    IInv /\ RemovedCloses /\ FailureJustified /\ [Next]_vars
        => RemovedCloses' /\ FailureJustified'
<1>1. ASSUME IInv, RemovedCloses, NEW c \in pending, Propagate(c)
      PROVE  RemovedCloses' /\ FailureJustified'
  <2>1. graph' = graph /\ removed' \subseteq removed \cup RuleEdges(c)
    BY <1>1 DEF Propagate
  <2>2. RemovedCloses'
    BY <1>1, <2>1, RuleReason DEF RemovedCloses
  <2>3. ASSUME pc' = "failed"  PROVE HasSecondCycle(graph)
    <3>1. PICK d \in RuleEdges(c) : d \in graph
      BY <1>1, <2>3 DEF Propagate
    <3>2. graph \cup {d} = graph
      BY <3>1
    <3>. QED
      BY <1>1, <3>2, RuleReason
  <2>. QED
    BY <2>1, <2>2, <2>3 DEF FailureJustified
<1>2. ASSUME IInv, RemovedCloses, RecordPath
      PROVE  RemovedCloses' /\ FailureJustified'
  <2>1. HasSecondCycle(graph \cup {Edge(currentPath[0], v)})
    BY <1>2, PathReason DEF RecordPath
  <2>2. CASE Edge(currentPath[0], v) \in graph
    <3>1. graph \cup {Edge(currentPath[0], v)} = graph
      BY <2>2
    <3>2. graph' = graph /\ removed' = removed
      BY <1>2, <2>2 DEF RecordPath
    <3>. QED
      BY <1>2, <2>1, <3>1, <3>2 DEF RemovedCloses, FailureJustified
  <2>3. CASE Edge(currentPath[0], v) \notin graph
    <3>1. graph' = graph /\ removed' = removed \cup {Edge(currentPath[0], v)} /\ pc' = "search"
      BY <1>2, <2>3 DEF RecordPath
    <3>. QED
      BY <1>2, <2>1, <3>1 DEF RemovedCloses, FailureJustified
  <2>. QED
    BY <2>2, <2>3
<1>3. ASSUME RemovedCloses, Advance \/ Retreat
      PROVE  RemovedCloses' /\ FailureJustified'
  <2>1. graph' = graph /\ removed' = removed /\ pc' # "failed"
    BY <1>3 DEF Advance, Retreat, Extend, Shrink
  <2>. QED
    BY <1>3, <2>1 DEF RemovedCloses, FailureJustified
<1>4. ASSUME RemovedCloses, FailureJustified, UNCHANGED vars
      PROVE  RemovedCloses' /\ FailureJustified'
  BY <1>4 DEF RemovedCloses, FailureJustified, vars
<1>. QED
  BY <1>1, <1>2, <1>3, <1>4 DEF Next, NextCall, Propagate, Walk

LEMMA ReasonsInvariant == Spec => [](RemovedCloses /\ FailureJustified)
<1>1. Init => RemovedCloses /\ FailureJustified
  BY DEF Init, RemovedCloses, FailureJustified
<1>. QED
  BY <1>1, ReasonsStep, WalkInvariant, PTL DEF Spec

\* propagate sets an edge to 0 only if, with it, the graph has a second
\* Hamiltonian cycle: no uniquely Hamiltonian graph is lost, for any order.
THEOREM ExclusionsSound == Spec => []RemovedCloses
BY ReasonsInvariant, PTL

\* propagate raises a contradiction only on a graph with a second cycle.
THEOREM FailuresSound == Spec => []FailureJustified
BY ReasonsInvariant, PTL

-----------------------------------------------------------------------------
(***************************************************************************)
(* The walk loses nothing: it meets each Hamiltonian path that starts with *)
(* its chord, or has excluded the edge that would close it already.        *)
(***************************************************************************)
(***************************************************************************)
(* Hamiltonian paths.  p visits every vertex, along edges at 1.            *)
(***************************************************************************)
HamPath(p) == p \in Orders /\ \A k \in 1 .. N - 1 : Edge(p[k - 1], p[k]) \in graph

Prefix(p, j) == {p[k] : k \in 0 .. j}

\* Beyond a prefix of the path, the vertices are those the prefix does not have.
LEMMA Beyond ==
    ASSUME NEW p, HamPath(p), NEW j \in V
    PROVE  /\ \A x \in V \ Prefix(p, j) : \E k \in V : k > j /\ p[k] = x
           /\ \A k \in V : k > j => p[k] \in V /\ p[k] \notin Prefix(p, j)
<1>1. /\ p \in [V -> V] /\ \A m, k \in V : p[m] = p[k] => m = k
      /\ \A x \in V : \E k \in V : p[k] = x
  BY OrderOnto DEF HamPath
<1>2. j \in Nat /\ 0 .. j \subseteq V /\ \A k \in V : k \in Nat /\ (k \in 0 .. j <=> ~ (k > j))
  BY VFacts DEF V
<1>3. ASSUME NEW x \in V \ Prefix(p, j)  PROVE \E k \in V : k > j /\ p[k] = x
  <2>1. PICK k \in V : p[k] = x
    BY <1>1
  <2>2. k \notin 0 .. j
    BY <2>1 DEF Prefix
  <2>. QED
    BY <1>2, <2>1, <2>2
<1>4. ASSUME NEW k \in V, k > j  PROVE p[k] \in V /\ p[k] \notin Prefix(p, j)
  <2>1. k \notin 0 .. j
    BY <1>2, <1>4
  <2>2. \A m \in 0 .. j : p[m] # p[k]
    BY <1>1, <1>2, <2>1
  <2>. QED
    BY <1>1, <2>2 DEF Prefix
<1>. QED
  BY <1>3, <1>4

\* A vertex beyond the prefix has its successor and its predecessor on the path
\* as neighbours, which are beyond the prefix too.
LEMMA WayOn ==
    ASSUME NEW p, HamPath(p), NEW j \in V, NEW k \in V, k > j
    PROVE  /\ k < N - 1 => k + 1 \in V /\ p[k + 1] \in Nbrs(graph, p[k]) \ Prefix(p, j)
           /\ k > j + 1 => k - 1 \in V /\ p[k - 1] \in Nbrs(graph, p[k]) \ Prefix(p, j)
           /\ k < N - 1 /\ k > j + 1 => p[k + 1] # p[k - 1]
<1>1. /\ p \in [V -> V] /\ \A m, n \in V : p[m] = p[n] => m = n
      /\ \A n \in 1 .. N - 1 : Edge(p[n - 1], p[n]) \in graph
  BY OrderOnto DEF HamPath
<1>2. k \in Nat /\ j \in Nat /\ N \in Nat /\ N >= 3 /\ k <= N - 1 /\ V = 0 .. N - 1
  BY VFacts DEF V
<1>3. ASSUME NEW n \in V, n - 1 \in V
      PROVE  p[n] \in Nbrs(graph, p[n - 1]) /\ p[n - 1] \in Nbrs(graph, p[n])
  <2>1. n \in 1 .. N - 1 /\ n # n - 1
    BY <1>2, <1>3
  <2>2. Edge(p[n - 1], p[n]) \in graph /\ p[n - 1] # p[n] /\ p[n] \in V /\ p[n - 1] \in V
    BY <1>1, <1>3, <2>1
  <2>. QED
    BY <2>2 DEF Nbrs, Edge
<1>4. ASSUME k < N - 1
      PROVE  k + 1 \in V /\ p[k + 1] \in Nbrs(graph, p[k]) \ Prefix(p, j)
  <2>1. k + 1 \in V /\ k + 1 > j /\ k + 1 - 1 = k
    BY <1>2, <1>4
  <2>2. p[k + 1] \notin Prefix(p, j)
    BY <2>1, Beyond
  <2>3. PICK n \in V : n = k + 1
    BY <2>1
  <2>4. n - 1 = k
    BY <1>2, <2>3
  <2>. QED
    BY <1>3, <2>1, <2>2, <2>3, <2>4
<1>5. ASSUME k > j + 1
      PROVE  k - 1 \in V /\ p[k - 1] \in Nbrs(graph, p[k]) \ Prefix(p, j)
  <2>1. k - 1 \in V /\ k - 1 > j
    BY <1>2, <1>5
  <2>2. p[k - 1] \notin Prefix(p, j)
    BY <2>1, Beyond
  <2>. QED
    BY <1>3, <2>1, <2>2
<1>6. ASSUME k < N - 1, k > j + 1  PROVE p[k + 1] # p[k - 1]
  <2>1. k + 1 \in V /\ k - 1 \in V /\ k + 1 # k - 1
    BY <1>2, <1>4, <1>5, <1>6
  <2>. QED
    BY <1>1, <2>1
<1>. QED
  BY <1>4, <1>5, <1>6

LEMMA TwoOf ==
    ASSUME NEW S, IsFiniteSet(S), NEW x \in S
    PROVE  /\ Cardinality(S) \in Nat /\ Cardinality(S) >= 1
           /\ \A y \in S : x # y => Cardinality(S) >= 2
<1>1. Cardinality(S) \in Nat
  BY FS_CardinalityType
<1>2. IsFiniteSet(S \ {x}) /\ Cardinality(S \ {x}) = Cardinality(S) - 1
  BY FS_RemoveElement
<1>3. Cardinality(S \ {x}) \in Nat
  BY <1>2, FS_CardinalityType
<1>4. ASSUME NEW y \in S, x # y  PROVE Cardinality(S) >= 2
  <2>1. S \ {x} # {}
    BY <1>4
  <2>2. Cardinality(S \ {x}) # 0
    BY <1>2, <2>1, FS_EmptySet
  <2>. QED
    BY <1>1, <1>2, <1>3, <2>2
<1>. QED
  BY <1>1, <1>2, <1>3, <1>4

\* So the number of ways on tells where a vertex comes on the path.
LEMMA WaysOn ==
    ASSUME NEW p, HamPath(p), NEW j \in V, NEW k \in V, k > j
    PROVE  /\ FreeDegree(p[k], Prefix(p, j)) = 0 => k = j + 1 /\ k = N - 1
           /\ FreeDegree(p[k], Prefix(p, j)) < 2 => k = j + 1 \/ k = N - 1
<1>. DEFINE S == Nbrs(graph, p[k]) \ Prefix(p, j)
<1>1. IsFiniteSet(S)
  BY NbrsFacts, FS_Subset
<1>2. k \in Nat /\ j \in Nat /\ N \in Nat /\ N >= 3 /\ k <= N - 1
  BY VFacts DEF V
<1>3. FreeDegree(p[k], Prefix(p, j)) = Cardinality(S)
  BY DEF FreeDegree
<1>4. /\ k < N - 1 => p[k + 1] \in S
      /\ k > j + 1 => p[k - 1] \in S
      /\ k < N - 1 /\ k > j + 1 => p[k + 1] # p[k - 1]
  BY WayOn
<1>. HIDE DEF S
<1>5. Cardinality(S) \in Nat
  BY <1>1, FS_CardinalityType
<1>6. k < N - 1 => Cardinality(S) >= 1
  BY <1>1, <1>4, TwoOf
<1>7. k > j + 1 => Cardinality(S) >= 1
  BY <1>1, <1>4, TwoOf
<1>8. k < N - 1 /\ k > j + 1 => Cardinality(S) >= 2
  BY <1>1, <1>4, TwoOf
<1>. QED
  BY <1>2, <1>3, <1>5, <1>6, <1>7, <1>8

(***************************************************************************)
(* The three tests of the pruning.  The prefix ends at j, u comes next.    *)
(***************************************************************************)
Onces(x, S) == {u \in Nbrs(graph, x) \ S : FreeDegree(u, S) = 1}

LEMMA NoDeadEnd ==
    ASSUME NEW p, HamPath(p), NEW j \in V, j < N - 2, NEW u \in V \ Prefix(p, j)
    PROVE  FreeDegree(u, Prefix(p, j)) # 0
<1>1. PICK k \in V : k > j /\ p[k] = u
  BY Beyond
<1>2. j \in Nat /\ N \in Nat
  BY VFacts
<1>. QED
  BY <1>1, <1>2, WaysOn

\* A vertex with one way on comes next or last.
LEMMA NextOrLast ==
    ASSUME NEW p, HamPath(p), NEW j \in V, NEW x, NEW u \in Onces(x, Prefix(p, j))
    PROVE  u \in {p[j + 1], p[N - 1]}
<1>1. u \in V \ Prefix(p, j) /\ FreeDegree(u, Prefix(p, j)) = 1
  BY NbrsFacts DEF Onces
<1>2. PICK k \in V : k > j /\ p[k] = u
  BY <1>1, Beyond
<1>3. k = j + 1 \/ k = N - 1
  BY <1>1, <1>2, WaysOn
<1>. QED
  BY <1>2, <1>3

LEMMA PairCardinality ==
    ASSUME NEW a, NEW b
    PROVE  IsFiniteSet({a, b}) /\ Cardinality({a, b}) \in Nat /\ Cardinality({a, b}) <= 2
<1>1. IsFiniteSet({a}) /\ Cardinality({a}) = 1
  BY FS_Singleton
<1>2. {a, b} = {a} \cup {b}
  OBVIOUS
<1>3. IsFiniteSet({a} \cup {b}) /\ Cardinality({a} \cup {b}) \in {1, 2}
  BY <1>1, FS_AddElement
<1>. QED
  BY <1>2, <1>3

LEMMA AtMostTwoOnces ==
    ASSUME NEW p, HamPath(p), NEW j \in V, NEW x
    PROVE  LET O == Onces(x, Prefix(p, j)) IN
           /\ Cardinality(O) \in Nat /\ Cardinality(O) <= 2
           /\ Cardinality(O) = 2 => p[j + 1] \in O
<1>. DEFINE O == Onces(x, Prefix(p, j))
<1>1. O \subseteq {p[j + 1], p[N - 1]}
  BY NextOrLast
<1>2. /\ IsFiniteSet({p[j + 1], p[N - 1]}) /\ Cardinality({p[j + 1], p[N - 1]}) \in Nat
      /\ Cardinality({p[j + 1], p[N - 1]}) <= 2
  BY PairCardinality
<1>. HIDE DEF O
<1>3. IsFiniteSet(O) /\ Cardinality(O) <= Cardinality({p[j + 1], p[N - 1]})
  BY <1>1, <1>2, FS_Subset
<1>4. Cardinality(O) \in Nat
  BY <1>3, FS_CardinalityType
<1>5. ASSUME Cardinality(O) = 2  PROVE p[j + 1] \in O
  <2>1. Cardinality(O) = Cardinality({p[j + 1], p[N - 1]})
    BY <1>2, <1>3, <1>5
  <2>2. O = {p[j + 1], p[N - 1]}
    BY <1>1, <1>2, <2>1, FS_Subset
  <2>. QED
    BY <2>2
<1>. QED
  BY <1>2, <1>3, <1>4, <1>5 DEF O

\* The vertex that comes next cuts none of its neighbours off.
LEMMA NextCutsNoneOff ==
    ASSUME NEW p, HamPath(p), NEW j \in V, j < N - 3, NEW w \in V \ Prefix(p, j),
           p[j + 1] \in Nbrs(graph, w), FreeDegree(w, Prefix(p, j)) < 2
    PROVE  FALSE
<1>1. PICK k \in V : k > j /\ p[k] = w
  BY Beyond
<1>2. k \in Nat /\ j \in Nat /\ N \in Nat /\ N >= 3 /\ k <= N - 1 /\ V = 0 .. N - 1
  BY VFacts DEF V
<1>3. k # j + 1
  BY <1>1, NbrsFacts
<1>4. k = N - 1
  BY <1>1, <1>3, WaysOn
<1>. DEFINE S == Nbrs(graph, w) \ Prefix(p, j)
<1>5. j + 1 \in V /\ j + 1 > j /\ k > j + 1 /\ k - 1 \in V /\ k - 1 # j + 1
  BY <1>2, <1>4
<1>6. p[k - 1] \in S
  BY <1>1, <1>5, WayOn
<1>7. p[j + 1] \in S
  BY <1>5, Beyond
<1>8. p[k - 1] # p[j + 1]
  BY <1>5, OrderOnto DEF HamPath
<1>9. IsFiniteSet(S)
  BY NbrsFacts, FS_Subset
<1>10. Cardinality(S) < 2
  BY DEF FreeDegree
<1>. HIDE DEF S
<1>. QED
  BY <1>6, <1>7, <1>8, <1>9, <1>10, TwoOf

(***************************************************************************)
(* What the walk has behind it.  NsAt(j) is the list the inner loop runs   *)
(* over when the path ends at its jth vertex; Walked(j, m) says that every *)
(* Hamiltonian path that goes on from there by the mth entry is accounted  *)
(* for.                                                                    *)
(***************************************************************************)
OncePositions(j) ==
    {k \in 1 .. Len(adjList[currentPath[j]]) :
        adjList[currentPath[j]][k] \in Onces(currentPath[j], Prefix(currentPath, j))}

NsAt(j) ==
    IF j < N - 2 /\ Cardinality(Onces(currentPath[j], Prefix(currentPath, j))) = 2
    THEN << adjList[currentPath[j]][Min(OncePositions(j))],
            adjList[currentPath[j]][Max(OncePositions(j))] >>
    ELSE adjList[currentPath[j]]

Begins(p, j) == \A k \in 0 .. j : p[k] = currentPath[k]

Walked(j, m) ==
    \A p : HamPath(p) /\ Begins(p, j) /\ p[j + 1] = NsAt(j)[m]
           => Edge(p[0], p[N - 1]) \in removed

Behind(j, m) == m < inds[currentPath[j]] \/ (j = i /\ m = inds[currentPath[j]])

ListsOnce ==
    \A x \in V : \A j, k \in 1 .. Len(adjList[x]) : adjList[x][j] = adjList[x][k] => j = k

WalkedInv ==
    pc = "search" =>
        /\ ListsOnce
        /\ \A j \in 1 .. i - 1 :
              /\ inds[currentPath[j]] \in 1 .. Len(NsAt(j))
              /\ currentPath[j + 1] = NsAt(j)[inds[currentPath[j]]]
        /\ \A j \in 1 .. i : \A m \in 1 .. Len(NsAt(j)) : Behind(j, m) => Walked(j, m)

\* At the end of the path, the degrees are right and the list is ns.
LEMMA NsHere ==
    ASSUME IInv, pc = "search"
    PROVE  /\ Prefix(currentPath, i) = visited /\ i \in V /\ currentPath[i] = v
           /\ \A x, d : x \in FreeWith(v, d) <=>
                  x \in V \ visited /\ x \in Nbrs(graph, v) /\ FreeDegree(x, visited) = d
           /\ FreeWith(v, 1) = Onces(v, Prefix(currentPath, i))
           /\ NsAt(i) = ns
<1>1. Prefix(currentPath, i) = visited /\ i \in V /\ v \in V
  BY WalkFacts, VFacts DEF Prefix, V
<1>2. currentPath[i] = v
  BY DEF v
<1>3. \A x \in V \ visited : degrees[x] = FreeDegree(x, visited)
  BY DEF IInv, DegreesAreFree
<1>4. \A x, d : x \in FreeWith(v, d) <=>
           x \in V \ visited /\ x \in Nbrs(graph, v) /\ FreeDegree(x, visited) = d
  BY <1>3, NbrsFacts DEF FreeWith, Free
<1>5. FreeWith(v, 1) = Onces(v, visited)
  <2>1. Nbrs(graph, v) \subseteq V
    BY NbrsFacts
  <2>2. \A x : x \in Onces(v, visited) <=>
           x \in V \ visited /\ x \in Nbrs(graph, v) /\ FreeDegree(x, visited) = 1
    BY <2>1 DEF Onces
  <2>. QED
    BY <1>4, <2>2
<1>6. OncePositions(i) = ForcedAt
  BY <1>1, <1>2, <1>5 DEF OncePositions, ForcedAt
<1>7. NsAt(i) = ns
  BY <1>1, <1>2, <1>5, <1>6 DEF NsAt, ns, Forced
<1>. QED
  BY <1>1, <1>2, <1>4, <1>5, <1>7

\* The first and the last of two elements of a list are the two.
LEMMA BothListed ==
    ASSUME NEW S, NEW l, Lists(l, S), NEW O, O \subseteq S, Cardinality(O) = 2, IsFiniteSet(O),
           NEW u \in O
    PROVE  LET P == {k \in 1 .. Len(l) : l[k] \in O} IN u \in {l[Min(P)], l[Max(P)]}
<1>. DEFINE P == {k \in 1 .. Len(l) : l[k] \in O}
<1>1. /\ l \in Seq(S) /\ {l[k] : k \in 1 .. Len(l)} = S
      /\ \A j, k \in 1 .. Len(l) : l[j] = l[k] => j = k
  BY DEF Lists
<1>2. Len(l) \in Nat
  BY <1>1
<1>3. PICK w \in O : w # u
  <2>1. IsFiniteSet(O \ {u}) /\ Cardinality(O \ {u}) = 1
    BY FS_RemoveElement
  <2>2. O \ {u} # {}
    BY <2>1, FS_EmptySet
  <2>. QED
    BY <2>2
<1>4. \A x \in O : x = u \/ x = w
  <2>1. SUFFICES ASSUME NEW x \in O, x # u, x # w  PROVE FALSE
    OBVIOUS
  <2>2. IsFiniteSet(O \ {u}) /\ Cardinality(O \ {u}) = 1
    BY FS_RemoveElement
  <2>3. Cardinality(O \ {u}) >= 2
    BY <1>3, <2>1, <2>2, TwoOf
  <2>. QED
    BY <2>2, <2>3
<1>5. PICK a \in 1 .. Len(l) : l[a] = u
  BY <1>1
<1>6. PICK b \in 1 .. Len(l) : l[b] = w
  BY <1>1
<1>7. a \in P /\ b \in P /\ P \subseteq 1 .. Len(l) /\ a # b
  BY <1>3, <1>5, <1>6
<1>8. \A k \in P : k = a \/ k = b
  <2>1. TAKE k \in P
  <2>2. l[k] = u \/ l[k] = w
    BY <1>4
  <2>. QED
    BY <1>1, <1>5, <1>6, <2>2
<1>. HIDE DEF P
<1>9. /\ Min(P) \in P /\ \A y \in P : Min(P) <= y
      /\ Max(P) \in P /\ \A y \in P : Max(P) >= y
  BY <1>2, <1>7, MinMaxIn
<1>10. Min(P) = a \/ Max(P) = a
  <2>1. Min(P) <= a /\ Min(P) <= b /\ Max(P) >= a /\ Max(P) >= b
    BY <1>7, <1>9
  <2>2. a \in Nat /\ b \in Nat
    BY <1>2
  <2>. QED
    <3>1. Min(P) = a \/ Min(P) = b
      BY <1>8, <1>9
    <3>2. Max(P) = a \/ Max(P) = b
      BY <1>8, <1>9
    <3>. QED
      BY <1>7, <2>1, <2>2, <3>1, <3>2
<1>11. u \in {l[Min(P)], l[Max(P)]}
  BY <1>5, <1>10
<1>. QED
  BY <1>11 DEF P

\* The vertex that a Hamiltonian path goes on to is in the list.
LEMMA NextListed ==
    ASSUME IInv, pc = "search", ListsOnce, NEW j \in 1 .. i, j < N - 1,
           NEW p, HamPath(p), Begins(p, j)
    PROVE  \E m \in 1 .. Len(NsAt(j)) : p[j + 1] = NsAt(j)[m]
<1>. DEFINE x == currentPath[j]
            S == Prefix(currentPath, j)
            O == Onces(x, S)
            l == adjList[x]
<1>1. j \in V /\ j + 1 \in V /\ j + 1 > j /\ j \in Nat /\ N \in Nat /\ j + 1 \in 1 .. N - 1 /\ j + 1 - 1 = j
  BY WalkFacts, VFacts DEF V
<1>2. x \in V
  BY <1>1 DEF IInv, TypeOK
<1>3. Prefix(p, j) = S /\ p[j] = x
  BY <1>1 DEF Begins, Prefix
<1>4. p[j + 1] \in Nbrs(graph, x)
  <2>1. PICK n \in 1 .. N - 1 : n = j + 1
    BY <1>1
  <2>2. Edge(p[n - 1], p[n]) \in graph
    BY DEF HamPath
  <2>3. n - 1 = j
    BY <1>1, <2>1
  <2>4. p[j + 1] # p[j] /\ p[j + 1] \in V
    BY <1>1, OrderOnto DEF HamPath
  <2>. QED
    BY <1>3, <2>1, <2>2, <2>3, <2>4 DEF Nbrs, Edge
<1>5. Lists(l, Nbrs(graph, x))
  <2>1. l \in Seq(V) /\ {l[k] : k \in 1 .. Len(l)} = Nbrs(graph, x)
    BY <1>2 DEF IInv, TypeOK, CallIsForChord
  <2>. HIDE DEF l
  <2>2. \A k \in 1 .. Len(l) : l[k] \in Nbrs(graph, x)
    BY <2>1
  <2>3. l \in Seq(Nbrs(graph, x))
    <3>1. Len(l) \in Nat /\ l = [k \in 1 .. Len(l) |-> l[k]]
      BY <2>1
    <3>. QED
      BY <2>2, <3>1
  <2>4. \A m, k \in 1 .. Len(l) : l[m] = l[k] => m = k
    BY <1>2 DEF ListsOnce, l
  <2>. QED
    BY <2>1, <2>3, <2>4 DEF Lists
<1>6. CASE j < N - 2 /\ Cardinality(O) = 2
  <2>1. p[j + 1] \in O
    BY <1>1, <1>3, <1>6, AtMostTwoOnces
  <2>2. O \subseteq Nbrs(graph, x) /\ IsFiniteSet(O)
    <3>1. O \subseteq Nbrs(graph, x)
      BY DEF Onces
    <3>. QED
      BY <3>1, NbrsFacts, FS_Subset
  <2>. DEFINE P == {k \in 1 .. Len(l) : l[k] \in O}
  <2>3. p[j + 1] \in {l[Min(P)], l[Max(P)]}
    <3>. HIDE DEF O, l, x
    <3>. QED
      BY <1>5, <1>6, <2>1, <2>2, BothListed
  <2>4. OncePositions(j) = P
    BY DEF OncePositions
  <2>5. NsAt(j) = <<l[Min(P)], l[Max(P)]>>
    BY <1>6, <2>4 DEF NsAt
  <2>. HIDE DEF P, l
  <2>. QED
    BY <2>3, <2>5
<1>7. CASE ~ (j < N - 2 /\ Cardinality(O) = 2)
  <2>1. NsAt(j) = l
    BY <1>7 DEF NsAt
  <2>. HIDE DEF l
  <2>. QED
    BY <1>4, <1>5, <2>1 DEF Lists
<1>. QED
  BY <1>6, <1>7

\* No test skips the vertex that a Hamiltonian path goes on to.
LEMMA NextUntried ==
    ASSUME IInv, pc = "search", i < N - 1, NEW p, HamPath(p), Begins(p, i),
           NEW m \in 1 .. Len(ns), m > inds[v], p[i + 1] = ns[m]
    PROVE  m \in Untried
<1>1. /\ i \in V /\ i + 1 \in V /\ i + 1 > i /\ i \in Nat /\ N \in Nat
      /\ Prefix(currentPath, i) = visited /\ currentPath[i] = v
  BY WalkFacts, NsHere, VFacts DEF V
<1>2. Prefix(p, i) = visited
  BY <1>1 DEF Begins, Prefix
<1>3. ~ Pruned
  <2>1. SUFFICES ASSUME Pruned  PROVE FALSE
    OBVIOUS
  <2>2. i < N - 2
    BY <2>1 DEF Pruned
  <2>3. CASE FreeWith(v, 0) # {}
    <3>1. PICK u : u \in FreeWith(v, 0)
      BY <2>3
    <3>2. u \in V \ Prefix(p, i) /\ FreeDegree(u, Prefix(p, i)) = 0
      BY <1>2, <3>1, NsHere
    <3>. QED
      BY <1>1, <2>2, <3>2, NoDeadEnd
  <2>4. CASE Cardinality(FreeWith(v, 1)) >= 3
    <3>1. FreeWith(v, 1) = Onces(v, Prefix(p, i))
      BY <1>1, <1>2, NsHere
    <3>2. Cardinality(FreeWith(v, 1)) \in Nat /\ Cardinality(FreeWith(v, 1)) <= 2
      BY <1>1, <3>1, AtMostTwoOnces
    <3>. QED
      BY <2>4, <3>2
  <2>. QED
    BY <2>1, <2>3, <2>4 DEF Pruned
<1>4. Eligible(ns[m])
  <2>1. p[i + 1] \in V /\ p[i + 1] \notin visited
    BY <1>1, <1>2, Beyond
  <2>2. ASSUME i < N - 3, makesNeighborUnreachable(p[i + 1])  PROVE FALSE
    <3>1. PICK w \in Free(p[i + 1]) : degrees[w] < 2
      BY <2>2 DEF makesNeighborUnreachable
    <3>2. w \in V \ visited /\ p[i + 1] \in Nbrs(graph, w)
      BY <2>1, <3>1, NbrsFacts DEF Free
    <3>3. degrees[w] = FreeDegree(w, visited)
      BY <3>2 DEF IInv, DegreesAreFree
    <3>. QED
      BY <1>1, <1>2, <2>2, <3>1, <3>2, <3>3, NextCutsNoneOff
  <2>3. i >= N - 3 \/ ~ makesNeighborUnreachable(p[i + 1])
    BY <1>1, <2>2
  <2>. QED
    BY <2>1, <2>3 DEF Eligible
<1>5. m \in inds[v] + 1 .. Len(ns)
  <2>1. inds[v] \in Nat /\ Len(ns) \in Nat
    BY NsIsNeighbours DEF IInv, TypeOK
  <2>. QED
    BY <2>1
<1>. QED
  BY <1>3, <1>4, <1>5 DEF Untried

\* With nothing left to try, every Hamiltonian path that begins like the current
\* one is accounted for.
LEMMA Exhausted ==
    ASSUME IInv, WalkedInv, pc = "search", i < N - 1, Untried = {},
           NEW p, HamPath(p), Begins(p, i)
    PROVE  Edge(p[0], p[N - 1]) \in removed
<1>1. i \in Nat /\ i >= 1 /\ i \in 1 .. i /\ NsAt(i) = ns /\ currentPath[i] = v
  BY WalkFacts, NsHere
<1>2. PICK m \in 1 .. Len(NsAt(i)) : p[i + 1] = NsAt(i)[m]
  BY <1>1, NextListed DEF WalkedInv
<1>3. ~ (m > inds[v])
  <2>1. m \in 1 .. Len(ns) /\ p[i + 1] = ns[m]
    BY <1>1, <1>2
  <2>. QED
    BY <2>1, NextUntried
<1>4. inds[v] \in Nat /\ m \in Nat
  <2>1. v \in V /\ Len(NsAt(i)) \in Nat
    BY <1>1, NsIsNeighbours
  <2>. QED
    BY <2>1 DEF IInv, TypeOK
<1>5. Behind(i, m)
  BY <1>1, <1>3, <1>4 DEF Behind
<1>6. Walked(i, m)
  BY <1>1, <1>5 DEF WalkedInv
<1>. QED
  BY <1>2, <1>6 DEF Walked

\* What is behind stays behind while the path stays the same up to there.
LEMMA BehindKept ==
    ASSUME NEW j \in Nat, graph' = graph, adjList' = adjList, removed \subseteq removed',
           \A k \in 0 .. j : currentPath'[k] = currentPath[k]
    PROVE  /\ NsAt(j)' = NsAt(j) /\ currentPath'[j] = currentPath[j]
           /\ \A m : Walked(j, m) => Walked(j, m)'
<1>1. currentPath'[j] = currentPath[j]
  OBVIOUS
<1>2. Prefix(currentPath, j)' = Prefix(currentPath, j)
  BY DEF Prefix
<1>3. \A x, S : Onces(x, S)' = Onces(x, S)
  BY DEF Onces, FreeDegree
<1>4. OncePositions(j)' = OncePositions(j)
  BY <1>1, <1>2, <1>3 DEF OncePositions
<1>5. NsAt(j)' = NsAt(j)
  BY <1>1, <1>2, <1>3, <1>4 DEF NsAt
<1>6. \A p : (HamPath(p)' <=> HamPath(p)) /\ (Begins(p, j)' <=> Begins(p, j))
  BY DEF HamPath, Begins
<1>7. ASSUME NEW m, Walked(j, m)  PROVE Walked(j, m)'
  BY <1>5, <1>6, <1>7 DEF Walked
<1>. QED
  BY <1>1, <1>5, <1>7

LEMMA PropagateWalked ==
    ASSUME IInv, NEW c \in pending, Propagate(c)
    PROVE  WalkedInv'
<1>1. SUFFICES ASSUME pc' = "search"  PROVE WalkedInv'
  BY DEF WalkedInv
<1>2. graph' = graph /\ Start(c) /\ c \in Chords
  BY <1>1 DEF Propagate, IInv, TypeOK
<1>3. i' = 1 /\ inds' = [x \in V |-> 0] /\ degrees' = InitialDegrees(c)
  BY <1>2 DEF Start
<1>4. degrees' \in [V -> Nat]
  BY <1>2, <1>3, InitialDegreesFacts
<1>5. ListsOnce'
  <2>1. PICK o \in IterationOrders :
          adjList' = [y \in V |-> SortedByDegrees(Nbrs(graph, y), degrees', o)]
    BY <1>2 DEF Start
  <2>2. ASSUME NEW x \in V
        PROVE  \A j, k \in 1 .. Len(adjList'[x]) : adjList'[x][j] = adjList'[x][k] => j = k
    <3>. DEFINE l == SortedByDegrees(Nbrs(graph, x), degrees', o)
    <3>1. Lists(l, Nbrs(graph, x))
      BY <1>4, NbrsFacts, SortedEnumerates
    <3>2. adjList'[x] = l
      BY <2>1
    <3>. HIDE DEF l
    <3>. QED
      BY <3>1, <3>2 DEF Lists
  <2>. QED
    BY <2>2 DEF ListsOnce
<1>6. currentPath' = [k \in V |-> IF k = 0 THEN c[1] ELSE IF k = 1 THEN c[2] ELSE 0]
  BY <1>2 DEF Start
<1>7. currentPath'[1] \in V
  BY <1>2, <1>6, ChordFacts, VFacts
<1>8. ASSUME NEW j \in 1 .. i', NEW m \in 1 .. Len(NsAt(j)'), Behind(j, m)'
      PROVE  FALSE
  <2>1. j = 1 /\ inds'[currentPath'[j]] = 0
    BY <1>3, <1>7
  <2>2. m \in Int /\ m >= 1
    OBVIOUS
  <2>3. m < 0 \/ m = 0
    BY <1>8, <2>1 DEF Behind
  <2>. QED
    BY <2>2, <2>3
<1>9. 1 .. i' - 1 = {}
  BY <1>3
<1>. QED
  BY <1>5, <1>8, <1>9 DEF WalkedInv

LEMMA AdvanceWalked ==
    ASSUME IInv, WalkedInv, Advance
    PROVE  WalkedInv'
<1>1. pc = "search" /\ i < N - 1
  BY DEF Advance
<1>2. PICK k0 \in Untried : /\ \A j \in Untried : k0 <= j
                            /\ Extend(ns[k0], [inds EXCEPT ![ns[k0]] = 0, ![v] = k0])
  BY DEF Advance
<1>. DEFINE u == ns[k0]
<1>3. u \in V /\ u \notin visited /\ v \in V /\ v \in visited
  BY <1>1, NsIsNeighbours, WalkFacts, NbrsFacts
<1>. HIDE DEF u
<1>4. /\ i' = i + 1 /\ currentPath' = [currentPath EXCEPT ![i + 1] = u]
      /\ inds' = [inds EXCEPT ![u] = 0, ![v] = k0]
      /\ graph' = graph /\ removed' = removed /\ adjList' = adjList /\ pc' = pc
  BY <1>2 DEF Extend, u
<1>5. /\ i \in Nat /\ i >= 1 /\ N \in Nat /\ 0 .. i \subseteq V /\ i + 1 \in V /\ i \in V
      /\ visited = {currentPath[k] : k \in 0 .. i}
  BY <1>1, WalkFacts DEF V
<1>6. currentPath \in [V -> V] /\ inds \in [V -> Nat]
      /\ \A j, k \in 0 .. i : currentPath[j] = currentPath[k] => j = k
  BY <1>1 DEF IInv, TypeOK, PathIsVisited
<1>7. currentPath'[i + 1] = u /\ \A k \in 0 .. i : currentPath'[k] = currentPath[k]
  <2>1. i + 1 \notin 0 .. i
    BY <1>5
  <2>. QED
    BY <1>4, <1>5, <1>6, <2>1
<1>8. inds'[u] = 0 /\ inds'[v] = k0 /\ \A x \in visited \ {v} : inds'[x] = inds[x]
  BY <1>3, <1>4, <1>5, <1>6
<1>9. NsAt(i) = ns /\ currentPath[i] = v
  BY <1>1, NsHere
<1>10. k0 \in Nat /\ k0 \in 1 .. Len(ns)
  <2>1. inds[v] \in Nat /\ Len(ns) \in Nat
    BY <1>1, <1>3, <1>6, NsIsNeighbours
  <2>2. k0 \in inds[v] + 1 .. Len(ns)
    BY DEF Untried
  <2>. QED
    BY <2>1, <2>2
<1>11. ASSUME NEW j \in 1 .. i
       PROVE  /\ NsAt(j)' = NsAt(j) /\ currentPath'[j] = currentPath[j] /\ j \in 0 .. i
              /\ \A m : Walked(j, m) => Walked(j, m)'
  <2>1. j \in Nat /\ 0 .. j \subseteq 0 .. i /\ j \in 0 .. i
    BY <1>5
  <2>. QED
    BY <1>4, <1>7, <2>1, BehindKept
<1>12. ASSUME NEW j \in 1 .. i, j # i
       PROVE  inds'[currentPath'[j]] = inds[currentPath[j]]
  <2>1. j \in 0 .. i /\ i \in 0 .. i
    BY <1>5
  <2>2. currentPath[j] \in visited \ {v}
    BY <1>5, <1>6, <1>9, <1>12, <2>1
  <2>. QED
    BY <1>8, <1>11, <2>2
<1>13. ASSUME NEW j \in 1 .. i' - 1
       PROVE  /\ inds'[currentPath'[j]] \in 1 .. Len(NsAt(j)')
              /\ currentPath'[j + 1] = NsAt(j)'[inds'[currentPath'[j]]]
  <2>1. j \in 1 .. i
    BY <1>4, <1>5
  <2>2. CASE j = i
    BY <1>5, <1>7, <1>8, <1>9, <1>10, <1>11, <2>1, <2>2 DEF u
  <2>3. CASE j # i
    <3>1. j \in 1 .. i - 1 /\ j + 1 \in 0 .. i
      BY <1>5, <2>1, <2>3
    <3>2. /\ inds[currentPath[j]] \in 1 .. Len(NsAt(j))
          /\ currentPath[j + 1] = NsAt(j)[inds[currentPath[j]]]
      BY <1>1, <3>1 DEF WalkedInv
    <3>. QED
      BY <1>7, <1>11, <1>12, <2>1, <2>3, <3>1, <3>2
  <2>. QED
    BY <2>2, <2>3
<1>14. ASSUME NEW j \in 1 .. i', NEW m \in 1 .. Len(NsAt(j)'), Behind(j, m)'
       PROVE  Walked(j, m)'
  <2>1. CASE j = i + 1
    <3>1. inds'[currentPath'[j]] = 0
      BY <1>7, <1>8, <2>1
    <3>2. m \in Int /\ m >= 1
      OBVIOUS
    <3>3. m < 0 \/ m = 0
      BY <1>14, <3>1 DEF Behind
    <3>. QED
      BY <3>2, <3>3
  <2>2. CASE j # i + 1
    <3>1. j \in 1 .. i /\ j # i'
      BY <1>4, <1>5, <2>2
    <3>2. m < inds'[currentPath'[j]] /\ m \in 1 .. Len(NsAt(j))
      BY <1>11, <1>14, <3>1 DEF Behind
    <3>3. CASE j = i
      <4>1. m < k0 /\ m \in 1 .. Len(ns)
        BY <1>7, <1>8, <1>9, <1>11, <3>1, <3>2, <3>3
      <4>2. m \notin Untried
        <5>1. m \in Nat /\ ~ (k0 <= m)
          BY <1>10, <4>1
        <5>. QED
          BY <1>2, <5>1
      <4>3. CASE m > inds[v]
        <5>1. \A p : HamPath(p) /\ Begins(p, i) => p[i + 1] # ns[m]
          BY <1>1, <4>1, <4>2, <4>3, NextUntried
        <5>2. Walked(i, m)
          BY <1>9, <5>1 DEF Walked
        <5>. QED
          BY <1>11, <3>1, <3>3, <5>2
      <4>4. CASE ~ (m > inds[v])
        <5>1. inds[v] \in Nat /\ m \in Nat
          BY <1>3, <1>6, <4>1
        <5>2. Behind(i, m)
          BY <1>9, <4>4, <5>1 DEF Behind
        <5>3. Walked(i, m)
          BY <1>1, <3>1, <3>2, <3>3, <5>2 DEF WalkedInv
        <5>. QED
          BY <1>11, <3>1, <3>3, <5>3
      <4>. QED
        BY <4>3, <4>4
    <3>4. CASE j # i
      <4>1. Behind(j, m)
        BY <1>12, <3>1, <3>2, <3>4 DEF Behind
      <4>2. Walked(j, m)
        BY <1>1, <3>1, <3>2, <4>1 DEF WalkedInv
      <4>. QED
        BY <1>11, <3>1, <4>2
    <3>. QED
      BY <3>3, <3>4
  <2>. QED
    BY <2>1, <2>2
<1>15. ListsOnce'
  BY <1>1, <1>4 DEF WalkedInv, ListsOnce
<1>. QED
  BY <1>13, <1>14, <1>15 DEF WalkedInv

\* A path one shorter, when its last vertex has nothing left.
LEMMA ShorterWalked ==
    ASSUME IInv, WalkedInv, pc = "search", i >= 2, i' = i - 1,
           graph' = graph, adjList' = adjList, removed \subseteq removed',
           \A k \in 0 .. i - 1 : currentPath'[k] = currentPath[k],
           \A x \in visited \ {v} : inds'[x] = inds[x],
           \A p : HamPath(p) /\ Begins(p, i) => Edge(p[0], p[N - 1]) \in removed'
    PROVE  WalkedInv'
<1>1. /\ i \in Nat /\ N \in Nat /\ visited = {currentPath[k] : k \in 0 .. i}
      /\ \A j, k \in 0 .. i : currentPath[j] = currentPath[k] => j = k
      /\ currentPath[i] = v
  BY WalkFacts, NsHere DEF IInv, PathIsVisited
<1>2. ASSUME NEW j \in 1 .. i - 1
      PROVE  /\ NsAt(j)' = NsAt(j) /\ currentPath'[j] = currentPath[j]
             /\ inds'[currentPath'[j]] = inds[currentPath[j]]
             /\ \A m : Walked(j, m) => Walked(j, m)'
  <2>1. j \in Nat /\ 0 .. j \subseteq 0 .. i - 1 /\ j \in 0 .. i /\ i \in 0 .. i /\ j # i
    BY <1>1
  <2>2. /\ NsAt(j)' = NsAt(j) /\ currentPath'[j] = currentPath[j]
        /\ \A m : Walked(j, m) => Walked(j, m)'
    BY <2>1, BehindKept
  <2>3. currentPath[j] \in visited \ {v}
    BY <1>1, <2>1
  <2>. QED
    BY <2>2, <2>3
<1>3. ASSUME NEW j \in 1 .. i' - 1
      PROVE  /\ inds'[currentPath'[j]] \in 1 .. Len(NsAt(j)')
             /\ currentPath'[j + 1] = NsAt(j)'[inds'[currentPath'[j]]]
  <2>1. j \in 1 .. i - 1 /\ j + 1 \in 0 .. i - 1
    BY <1>1
  <2>2. /\ inds[currentPath[j]] \in 1 .. Len(NsAt(j))
        /\ currentPath[j + 1] = NsAt(j)[inds[currentPath[j]]]
    BY <2>1 DEF WalkedInv
  <2>. QED
    BY <1>2, <2>1, <2>2
<1>4. ASSUME NEW j \in 1 .. i', NEW m \in 1 .. Len(NsAt(j)'), Behind(j, m)'
      PROVE  Walked(j, m)'
  <2>1. j \in 1 .. i - 1 /\ j \in 1 .. i /\ j # i
    BY <1>1
  <2>2. m \in 1 .. Len(NsAt(j)) /\ (m < inds[currentPath[j]] \/ (j = i - 1 /\ m = inds[currentPath[j]]))
    BY <1>2, <1>4, <2>1 DEF Behind
  <2>3. CASE m < inds[currentPath[j]]
    <3>1. Walked(j, m)
      BY <2>1, <2>2, <2>3 DEF WalkedInv, Behind
    <3>. QED
      BY <1>2, <2>1, <3>1
  <2>4. CASE j = i - 1 /\ m = inds[currentPath[j]]
    <3>1. j + 1 = i /\ NsAt(j)[m] = v
      BY <1>1, <2>1, <2>4 DEF WalkedInv
    <3>2. ASSUME NEW p, HamPath(p)', Begins(p, j)', p[j + 1] = NsAt(j)'[m]
          PROVE  Edge(p[0], p[N - 1]) \in removed'
      <4>1. HamPath(p)
        BY <3>2 DEF HamPath
      <4>2. p[i] = v
        BY <1>2, <2>1, <3>1, <3>2
      <4>3. \A k \in 0 .. i : k \in 0 .. i - 1 \/ k = i
        BY <1>1
      <4>4. \A k \in 0 .. i - 1 : p[k] = currentPath[k]
        BY <2>4, <3>2 DEF Begins
      <4>5. Begins(p, i)
        BY <1>1, <4>2, <4>3, <4>4 DEF Begins
      <4>. QED
        BY <4>1, <4>5
    <3>. QED
      BY <3>2 DEF Walked
  <2>. QED
    BY <2>2, <2>3, <2>4
<1>5. ListsOnce'
  BY DEF WalkedInv, ListsOnce
<1>. QED
  BY <1>3, <1>4, <1>5 DEF WalkedInv

LEMMA RetreatWalked ==
    ASSUME IInv, WalkedInv, Retreat
    PROVE  WalkedInv'
<1>1. pc = "search" /\ i < N - 1 /\ Untried = {}
      /\ Shrink([x \in V |-> IF x \in Free(v) THEN degrees[x] + 1 ELSE degrees[x]])
  BY DEF Retreat
<1>2. /\ i' = i - 1 /\ currentPath' = [currentPath EXCEPT ![i] = 0]
      /\ inds' = [inds EXCEPT ![v] = IF Pruned THEN Len(adjList[v]) ELSE Len(ns)]
      /\ pc' = (IF i = 1 THEN "idle" ELSE pc)
      /\ graph' = graph /\ removed' = removed /\ adjList' = adjList
  BY <1>1 DEF Shrink
<1>3. CASE i = 1
  BY <1>2, <1>3 DEF WalkedInv
<1>4. CASE i # 1
  <2>1. i \in Nat /\ i >= 2 /\ i \in V /\ visited \subseteq V /\ 0 .. i - 1 \subseteq V /\ i \notin 0 .. i - 1
    <3>1. i \in Nat /\ i >= 1 /\ N \in Nat /\ visited \subseteq V
      BY <1>1, WalkFacts DEF IInv, TypeOK
    <3>. QED
      BY <1>1, <1>4, <3>1 DEF V
  <2>2. \A k \in 0 .. i - 1 : currentPath'[k] = currentPath[k]
    BY <1>2, <2>1 DEF IInv, TypeOK
  <2>3. \A x \in visited \ {v} : inds'[x] = inds[x]
    BY <1>2, <2>1 DEF IInv, TypeOK
  <2>4. \A p : HamPath(p) /\ Begins(p, i) => Edge(p[0], p[N - 1]) \in removed'
    BY <1>1, <1>2, Exhausted
  <2>. QED
    BY <1>1, <1>2, <2>1, <2>2, <2>3, <2>4, ShorterWalked
<1>. QED
  BY <1>3, <1>4

LEMMA RecordWalked ==
    ASSUME IInv, WalkedInv, RecordPath
    PROVE  WalkedInv'
<1>1. pc = "search" /\ i = N - 1
  BY DEF RecordPath
<1>2. CASE Edge(currentPath[0], v) \in graph
  BY <1>2 DEF RecordPath, WalkedInv
<1>3. CASE Edge(currentPath[0], v) \notin graph
  <2>1. /\ removed' = removed \cup {Edge(currentPath[0], v)} /\ i' = i - 1
        /\ graph' = graph /\ currentPath' = currentPath /\ inds' = inds /\ adjList' = adjList
    BY <1>3 DEF RecordPath
  <2>2. i \in Nat /\ i >= 2 /\ N \in Nat /\ currentPath[i] = v /\ 0 \in 0 .. i /\ i \in 0 .. i
    BY <1>1, WalkFacts, VFacts, NsHere
  <2>3. ASSUME NEW p, Begins(p, i)  PROVE Edge(p[0], p[N - 1]) \in removed'
    <3>1. p[0] = currentPath[0] /\ p[N - 1] = v
      BY <1>1, <2>2, <2>3 DEF Begins
    <3>. QED
      BY <2>1, <3>1
  <2>. QED
    BY <1>1, <2>1, <2>2, <2>3, ShorterWalked
<1>. QED
  BY <1>2, <1>3

LEMMA WalkedStep == IInv /\ WalkedInv /\ [Next]_vars => WalkedInv'
<1>1. ASSUME IInv, WalkedInv, Next  PROVE WalkedInv'
  BY <1>1, PropagateWalked, AdvanceWalked, RetreatWalked, RecordWalked
     DEF Next, NextCall, Walk, Propagate
<1>2. ASSUME WalkedInv, UNCHANGED vars  PROVE WalkedInv'
  <2>1. UNCHANGED <<graph, removed, pc, i, currentPath, inds, adjList>>
    BY <1>2 DEF vars, search
  <2>2. \A j : NsAt(j)' = NsAt(j)
    BY <2>1 DEF NsAt, OncePositions, Onces, FreeDegree
  <2>3. \A j, m : (Walked(j, m)' <=> Walked(j, m)) /\ (Behind(j, m)' <=> Behind(j, m))
    BY <2>1, <2>2 DEF Walked, Behind, HamPath, Begins
  <2>. QED
    BY <1>2, <2>1, <2>2, <2>3 DEF WalkedInv, ListsOnce
<1>. QED
  BY <1>1, <1>2

\* What a call of propagate that returns has excluded.
LEMMA WalkFinished ==
    ASSUME IInv, WalkedInv, Next, pc = "search", pc' = "idle",
           NEW c \in HamCycles, NEW d \in c \ {ends(e)},
           ends(e) \in c, e[1] \in d, c \ {d} \subseteq graph
    PROVE  d \in removed'
<1>1. Retreat
  <2>1. ~ NextCall
    BY DEF NextCall, Propagate
  <2>2. ~ RecordPath
    BY DEF RecordPath
  <2>3. ~ Advance
    BY DEF Advance, Extend
  <2>. QED
    BY <2>1, <2>2, <2>3 DEF Next, Walk
<1>2. i < N - 1 /\ Untried = {} /\ i = 1 /\ removed' = removed
  BY <1>1 DEF Retreat, Shrink
<1>3. /\ e \in Chords /\ currentPath[0] = e[1] /\ currentPath[1] = e[2]
      /\ e[1] \in V /\ e[2] \in V /\ e[1] # e[2]
  <2>1. e \in Chords /\ currentPath[0] = e[1] /\ currentPath[1] = e[2]
    BY DEF IInv, CallIsForChord, PathIsVisited
  <2>2. e[1] \in V /\ e[2] \in V /\ e[1] < e[2]
    BY <2>1, ChordFacts
  <2>3. \A j, k \in V : j < k => j # k
    BY VFacts DEF V
  <2>. QED
    BY <2>1, <2>2, <2>3
<1>4. PICK p \in Orders : p[0] = e[1] /\ p[1] = e[2] /\ c = CycleOf(p)
  BY <1>3, ReadFrom DEF ends
<1>5. /\ d = Edge(p[0], p[N - 1])
      /\ \A k \in 1 .. N - 1 : Edge(p[k - 1], p[k]) \in CycleOf(p) \ {d}
  BY <1>4, ClosingEdge DEF ends
<1>6. HamPath(p)
  BY <1>4, <1>5 DEF HamPath
<1>7. Begins(p, i)
  BY <1>2, <1>3, <1>4 DEF Begins
<1>. QED
  BY <1>2, <1>5, <1>6, <1>7, Exhausted

\* A call of propagate that returns has excluded the edge that would close each of
\* the Hamiltonian paths of its chord: the pruning cuts none of them off.
THEOREM WalksComplete == Spec => Exhaustive
<1>1. IInv /\ WalkedInv /\ [Next]_vars =>
        [pc = "search" /\ pc' = "idle" =>
           \A c \in HamCycles : \A d \in c \ {ends(e)} :
              ends(e) \in c /\ e[1] \in d /\ c \ {d} \subseteq graph => d \in removed']_vars
  BY WalkFinished
<1>2. Init => WalkedInv
  BY DEF Init, WalkedInv
<1>. QED
  BY <1>1, <1>2, WalkedStep, WalkInvariant, PTL DEF Spec, Exhaustive

-----------------------------------------------------------------------------
(***************************************************************************)
(* The search that calls it.                                               *)
(***************************************************************************)
(***************************************************************************)
(* Types.  Between calls the arrays are whatever the last call left.       *)
(***************************************************************************)
Arrays ==
    /\ e \in V \X V /\ i \in 0 .. N - 1
    /\ currentPath \in [V -> V] /\ visited \subseteq V
    /\ degrees \in [V -> Nat] /\ inds \in [V -> Nat] /\ adjList \in [V -> Seq(V)]

World ==
    {w \in [graph : SUBSET AllEdges, removed : SUBSET AllEdges, chord : Chords] :
        Cycle \subseteq w.graph}

UTypes ==
    /\ pc \in {"idle", "search", "failed", "solved", "done"}
    /\ Arrays
    /\ graph \subseteq AllEdges /\ removed \subseteq AllEdges /\ Cycle \subseteq graph
    /\ pending \subseteq Chords /\ \A c \in pending : ends(c) \in graph
    /\ trail \in Seq(World)
    /\ pc = "search" => IInv

LEMMA WalkHolds ==
    ASSUME UTypes, pc \in {"idle", "search", "failed"}
    PROVE  IInv
BY DEF UTypes, Arrays, IInv, TypeOK, CallIsForChord, PathIsVisited, DegreesAreFree

LEMMA ChordEnds ==
    ASSUME NEW c \in Chords
    PROVE  ends(c) \in AllEdges
BY ChordFacts

\* The last world is taken off the trail.
LEMMA PopFacts ==
    ASSUME NEW S, NEW s \in Seq(S), s # <<>>
    PROVE  /\ Len(s) \in Nat \ {0} /\ s[Len(s)] \in S
           /\ SubSeq(s, 1, Len(s) - 1) \in Seq(S) /\ Len(SubSeq(s, 1, Len(s) - 1)) = Len(s) - 1
           /\ \A j \in 1 .. Len(s) - 1 : SubSeq(s, 1, Len(s) - 1)[j] = s[j]
<1>. DEFINE n == Len(s) - 1
<1>1. n \in Nat /\ Len(s) \in Nat \ {0} /\ s[Len(s)] \in S /\ \A j \in 1 .. n : s[j] \in S
  OBVIOUS
<1>. HIDE DEF n
<1>2. /\ SubSeq(s, 1, n) \in Seq(S)
      /\ Len(SubSeq(s, 1, n)) = IF 1 <= n THEN n - 1 + 1 ELSE 0
      /\ \A j \in 1 .. n - 1 + 1 : SubSeq(s, 1, n)[j] = s[1 + j - 1]
  BY <1>1, SubSeqProperties
<1>3. Len(SubSeq(s, 1, n)) = n /\ \A j \in 1 .. n : SubSeq(s, 1, n)[j] = s[j]
  BY <1>1, <1>2
<1>. QED
  BY <1>1, <1>2, <1>3 DEF n

LEMMA UTypesInit == UInit => UTypes
<1>1. SUFFICES ASSUME UInit  PROVE UTypes
  OBVIOUS
<1>2. Cycle \subseteq AllEdges
  <2>1. ASSUME NEW k \in V  PROVE Edge(k, Mod(k + 1)) \in AllEdges
    <3>1. k \in Nat /\ k < N /\ N \in Nat /\ N >= 3
      BY VFacts DEF V
    <3>2. Mod(k + 1) = IF k + 1 < N THEN k + 1 ELSE 0
      BY <3>1, ModFacts
    <3>3. Mod(k + 1) \in V /\ Mod(k + 1) # k
      BY <3>1, <3>2 DEF V
    <3>. QED
      BY <3>3, EdgeIn
  <2>. QED
    BY <2>1 DEF Cycle
<1>3. <<0, 0>> \in V \X V /\ [x \in V |-> 0] \in [V -> V] /\ 0 \in 0 .. N - 1
      /\ [x \in V |-> <<>>] \in [V -> Seq(V)] /\ [x \in V |-> 0] \in [V -> Nat]
  BY VFacts
<1>4. Arrays
  BY <1>1, <1>3 DEF UInit, InitArrays, Arrays
<1>5. trail \in Seq(World)
  BY <1>1 DEF UInit
<1>. QED
  BY <1>1, <1>2, <1>4, <1>5 DEF UInit, UTypes

LEMMA PropagationTypes ==
    ASSUME UTypes, Propagation
    PROVE  UTypes'
<1>1. pc \in {"idle", "search"}
  BY DEF Propagation, NextCall, Propagate, Walk, RecordPath, Advance, Retreat
<1>2. IInv
  BY <1>1, WalkHolds
<1>3. [Next]_vars
  BY DEF Propagation, Next
<1>4. IInv'
  BY <1>2, <1>3, IInvStep
<1>. QED
  BY <1>4 DEF UTypes, Arrays, IInv, TypeOK, CallIsForChord, Propagation

LEMMA SearchTypes ==
    ASSUME UTypes, Decide \/ Solved \/ Refute
    PROVE  UTypes'
<1>1. UNCHANGED <<e, i, currentPath, visited, degrees, inds, adjList>> /\ pc' # "search"
  BY DEF Decide, Solved, Refute, Restore, Idle, search
<1>2. Arrays'
  BY <1>1 DEF UTypes, Arrays
<1>3. CASE Decide
  <2>1. PICK c \in Undefined :
          /\ trail' = Append(trail, [graph |-> graph, removed |-> removed, chord |-> c])
          /\ graph' = graph \cup {ends(c)} /\ pending' = {c}
    BY <1>3 DEF Decide
  <2>2. c \in Chords /\ ends(c) \in AllEdges
    BY ChordEnds DEF Undefined
  <2>3. [graph |-> graph, removed |-> removed, chord |-> c] \in World
    BY <2>2 DEF UTypes, World
  <2>4. trail' \in Seq(World)
    BY <2>1, <2>3 DEF UTypes
  <2>5. pc' = "idle" /\ removed' = removed
    BY <1>3 DEF Decide, Idle
  <2>. QED
    BY <1>1, <1>2, <2>1, <2>2, <2>4, <2>5 DEF UTypes
<1>4. CASE Solved
  BY <1>1, <1>2, <1>4 DEF UTypes, Solved
<1>5. CASE Refute
  <2>1. CASE trail = <<>>
    BY <1>1, <1>2, <1>5, <2>1 DEF UTypes, Refute
  <2>2. CASE trail # <<>>
    <3>. DEFINE w == trail[Len(trail)]
    <3>1. /\ graph' = w.graph /\ removed' = w.removed \cup {ends(w.chord)} /\ pc' = "idle"
          /\ pending' = {} /\ trail' = SubSeq(trail, 1, Len(trail) - 1)
      BY <1>5, <2>2 DEF Refute, Restore
    <3>2. w \in World /\ trail' \in Seq(World)
      BY <2>2, <3>1, PopFacts DEF UTypes
    <3>. HIDE DEF w
    <3>3. w.graph \subseteq AllEdges /\ w.removed \subseteq AllEdges /\ Cycle \subseteq w.graph
          /\ ends(w.chord) \in AllEdges
      BY <3>2, ChordEnds DEF World
    <3>. QED
      BY <1>1, <1>2, <3>1, <3>2, <3>3 DEF UTypes
  <2>. QED
    BY <2>1, <2>2
<1>. QED
  BY <1>3, <1>4, <1>5

(***************************************************************************)
(* The worlds.                                                             *)
(***************************************************************************)
Ones(k) == IF k > Len(trail) THEN graph ELSE trail[k].graph
Zeros(k) == IF k > Len(trail) THEN removed ELSE trail[k].removed

Nested ==
    /\ graph \cap removed = {}
    /\ \A k \in 1 .. Len(trail) :
          /\ trail[k].graph \cap trail[k].removed = {}
          /\ ends(trail[k].chord) \notin trail[k].graph \cup trail[k].removed
          /\ Ones(k + 1) = trail[k].graph \cup {ends(trail[k].chord)}
          /\ trail[k].removed \subseteq Zeros(k + 1)

\* What a call of the propagator does to the world it is called in.
LEMMA PropagationFacts ==
    ASSUME UTypes, Propagation, graph \cap removed = {}
    PROVE  /\ graph' = graph /\ UNCHANGED <<trail, solutions, cnt>>
           /\ removed \subseteq removed' /\ graph \cap removed' = {}
           /\ \A d \in removed' \ removed : HasSecondCycle(graph \cup {d})
           /\ pc' = "failed" => HasSecondCycle(graph)
           /\ {pc, pc'} \cap {"solved", "done"} = {}
<1>1. pc \in {"idle", "search"}
  BY DEF Propagation, NextCall, Propagate, Walk, RecordPath, Advance, Retreat
<1>2. IInv
  BY <1>1, WalkHolds
<1>3. UNCHANGED <<trail, solutions, cnt>>
  BY DEF Propagation
<1>4. ASSUME NEW c \in pending, Propagate(c)
      PROVE  /\ graph' = graph /\ pc' \notin {"solved", "done"} /\ removed \subseteq removed' /\ graph \cap removed' = {}
             /\ \A d \in removed' \ removed : HasSecondCycle(graph \cup {d})
             /\ pc' = "failed" => HasSecondCycle(graph)
  <2>1. CASE RuleEdges(c) \cap graph # {}
    <3>1. PICK d \in RuleEdges(c) : d \in graph
      BY <2>1
    <3>2. graph \cup {d} = graph /\ HasSecondCycle(graph \cup {d})
      BY <1>2, <3>1, RuleReason
    <3>3. HasSecondCycle(graph)
      BY <3>2
    <3>. QED
      BY <1>4, <2>1, <3>3 DEF Propagate
  <2>2. CASE RuleEdges(c) \cap graph = {}
    <3>1. graph' = graph /\ pc' = "search" /\ removed' = removed \cup RuleEdges(c)
      BY <1>4, <2>2 DEF Propagate
    <3>2. \A d \in RuleEdges(c) : HasSecondCycle(graph \cup {d})
      BY <1>2, RuleReason
    <3>. QED
      BY <2>2, <3>1, <3>2
  <2>. QED
    BY <2>1, <2>2
<1>5. ASSUME RecordPath
      PROVE  /\ graph' = graph /\ pc' \notin {"solved", "done"} /\ removed \subseteq removed' /\ graph \cap removed' = {}
             /\ \A d \in removed' \ removed : HasSecondCycle(graph \cup {d})
             /\ pc' = "failed" => HasSecondCycle(graph)
  <2>. DEFINE d == Edge(currentPath[0], v)
  <2>1. HasSecondCycle(graph \cup {d})
    BY <1>2, <1>5, PathReason DEF RecordPath
  <2>2. CASE d \in graph
    <3>1. graph \cup {d} = graph
      BY <2>2
    <3>2. HasSecondCycle(graph)
      BY <2>1, <3>1
    <3>3. UNCHANGED <<graph, removed>> /\ pc' = "failed"
      BY <1>5, <2>2 DEF RecordPath
    <3>. QED
      BY <3>2, <3>3
  <2>3. CASE d \notin graph
    <3>1. graph' = graph /\ removed' = removed \cup {d} /\ pc' = pc /\ pc = "search"
      BY <1>5, <2>3 DEF RecordPath
    <3>. QED
      BY <2>1, <2>3, <3>1
  <2>. QED
    BY <2>2, <2>3
<1>6. ASSUME Advance \/ Retreat
      PROVE  UNCHANGED <<graph, removed>> /\ pc' \in {"idle", "search"}
  BY <1>1, <1>6 DEF Advance, Retreat, Extend, Shrink
<1>. QED
  BY <1>1, <1>3, <1>4, <1>5, <1>6 DEF Propagation, NextCall, Propagate, Walk

LEMMA NestedKept ==
    ASSUME UTypes, pc # "done" => Nested, UNext
    PROVE  pc' # "done" => Nested'
<1>. DEFINE n == Len(trail)
<1>1. n \in Nat /\ trail \in Seq(World) /\ \A k \in 1 .. n : trail[k] \in World
  BY DEF UTypes
<1>2. CASE Propagation
  <2>1. pc # "done"
    BY <1>2 DEF Propagation, NextCall, Propagate, Walk, RecordPath, Advance, Retreat
  <2>2. /\ graph' = graph /\ trail' = trail /\ removed \subseteq removed' /\ graph \cap removed' = {}
    BY <1>2, <2>1, PropagationFacts DEF Nested
  <2>. QED
    BY <2>1, <2>2 DEF Nested, Ones, Zeros
<1>3. CASE Decide
  <2>1. PICK c \in Undefined :
          /\ trail' = Append(trail, [graph |-> graph, removed |-> removed, chord |-> c])
          /\ graph' = graph \cup {ends(c)} /\ removed' = removed
    BY <1>3 DEF Decide
  <2>2. Nested /\ ends(c) \notin graph \cup removed
    BY <1>3, <2>1 DEF Decide, Idle, Undefined
  <2>. DEFINE w == [graph |-> graph, removed |-> removed, chord |-> c]
  <2>3. w.graph = graph /\ w.removed = removed /\ w.chord = c /\ trail' = Append(trail, w)
    BY <2>1
  <2>. HIDE DEF w
  <2>4. /\ Len(trail') = n + 1 /\ trail'[n + 1] = w
        /\ \A k \in 1 .. n : trail'[k] = trail[k]
    BY <1>1, <2>3
  <2>5. graph' \cap removed' = {}
    BY <2>1, <2>2 DEF Nested
  <2>6. \A k \in 1 .. n : Ones(k + 1)' = Ones(k + 1) /\ Zeros(k + 1)' = Zeros(k + 1)
    <3>1. TAKE k \in 1 .. n
    <3>2. CASE k = n
      BY <1>1, <2>3, <2>4, <3>2 DEF Ones, Zeros
    <3>3. CASE k # n
      <4>1. k + 1 \in 1 .. n
        BY <1>1, <3>3
      <4>. QED
        BY <1>1, <2>4, <4>1 DEF Ones, Zeros
    <3>. QED
      BY <3>2, <3>3
  <2>7. ASSUME NEW k \in 1 .. n
        PROVE  /\ trail'[k].graph \cap trail'[k].removed = {}
               /\ ends(trail'[k].chord) \notin trail'[k].graph \cup trail'[k].removed
               /\ Ones(k + 1)' = trail'[k].graph \cup {ends(trail'[k].chord)}
               /\ trail'[k].removed \subseteq Zeros(k + 1)'
    BY <2>2, <2>4, <2>6 DEF Nested
  <2>8. ASSUME NEW k, k = n + 1
        PROVE  /\ trail'[k].graph \cap trail'[k].removed = {}
               /\ ends(trail'[k].chord) \notin trail'[k].graph \cup trail'[k].removed
               /\ Ones(k + 1)' = trail'[k].graph \cup {ends(trail'[k].chord)}
               /\ trail'[k].removed \subseteq Zeros(k + 1)'
    <3>1. k + 1 > Len(trail')
      BY <1>1, <2>4, <2>8
    <3>2. Ones(k + 1)' = graph' /\ Zeros(k + 1)' = removed'
      BY <3>1 DEF Ones, Zeros
    <3>. QED
      BY <2>1, <2>2, <2>3, <2>4, <2>8, <3>2 DEF Nested
  <2>9. \A k \in 1 .. Len(trail') : k \in 1 .. n \/ k = n + 1
    BY <1>1, <2>4
  <2>. QED
    BY <2>5, <2>7, <2>8, <2>9 DEF Nested
<1>4. CASE Solved
  <2>1. Nested /\ UNCHANGED <<graph, removed, trail>>
    BY <1>4 DEF Solved, Idle
  <2>. QED
    BY <2>1 DEF Nested, Ones, Zeros
<1>5. CASE Refute /\ trail # <<>>
  <2>. DEFINE w == trail[n]
  <2>1. /\ graph' = w.graph /\ removed' = w.removed \cup {ends(w.chord)}
        /\ trail' = SubSeq(trail, 1, n - 1) /\ Nested
    BY <1>5 DEF Refute, Restore
  <2>2. /\ n \in Nat \ {0} /\ Len(trail') = n - 1
        /\ \A k \in 1 .. n - 1 : trail'[k] = trail[k]
    BY <1>1, <1>5, <2>1, PopFacts
  <2>3. w.graph \cap w.removed = {} /\ ends(w.chord) \notin w.graph
    BY <2>1, <2>2 DEF Nested
  <2>4. graph' \cap removed' = {}
    BY <2>1, <2>3
  <2>5. ASSUME NEW k \in 1 .. n - 1
        PROVE  Ones(k + 1)' = Ones(k + 1) /\ Zeros(k + 1) \subseteq Zeros(k + 1)'
    <3>1. CASE k = n - 1
      <4>1. k + 1 = n /\ k + 1 > Len(trail') /\ ~ (k + 1 > Len(trail))
        BY <2>2, <3>1
      <4>2. Ones(k + 1)' = graph' /\ Zeros(k + 1)' = removed'
        BY <4>1 DEF Ones, Zeros
      <4>3. Ones(k + 1) = w.graph /\ Zeros(k + 1) = w.removed
        BY <4>1 DEF Ones, Zeros
      <4>. QED
        BY <2>1, <4>2, <4>3
    <3>2. CASE k # n - 1
      <4>1. k + 1 \in 1 .. n - 1 /\ ~ (k + 1 > Len(trail')) /\ ~ (k + 1 > Len(trail))
        BY <2>2, <3>2
      <4>2. trail'[k + 1] = trail[k + 1]
        BY <2>2, <4>1
      <4>. QED
        BY <4>1, <4>2 DEF Ones, Zeros
    <3>. QED
      BY <3>1, <3>2
  <2>6. ASSUME NEW k \in 1 .. n - 1
        PROVE  /\ trail'[k].graph \cap trail'[k].removed = {}
               /\ ends(trail'[k].chord) \notin trail'[k].graph \cup trail'[k].removed
               /\ Ones(k + 1)' = trail'[k].graph \cup {ends(trail'[k].chord)}
               /\ trail'[k].removed \subseteq Zeros(k + 1)'
    <3>1. k \in 1 .. n /\ trail'[k] = trail[k]
      BY <2>2
    <3>2. /\ trail[k].graph \cap trail[k].removed = {}
          /\ ends(trail[k].chord) \notin trail[k].graph \cup trail[k].removed
          /\ Ones(k + 1) = trail[k].graph \cup {ends(trail[k].chord)}
          /\ trail[k].removed \subseteq Zeros(k + 1)
      BY <2>1, <3>1 DEF Nested
    <3>3. Ones(k + 1)' = Ones(k + 1) /\ Zeros(k + 1) \subseteq Zeros(k + 1)'
      BY <2>5
    <3>. QED
      BY <3>1, <3>2, <3>3
  <2>. QED
    BY <2>2, <2>4, <2>6 DEF Nested
<1>6. CASE Refute /\ trail = <<>>
  BY <1>6 DEF Refute
<1>. QED
  BY <1>2, <1>3, <1>4, <1>5, <1>6 DEF UNext

UInv == UTypes /\ (pc # "done" => Nested)

LEMMA UInvStep == UInv /\ [UNext]_uvars => UInv'
<1>1. CASE UNext
  BY <1>1, PropagationTypes, SearchTypes, NestedKept DEF UInv, UNext
<1>2. ASSUME UInv, UNCHANGED uvars  PROVE UInv'
  <2>1. UNCHANGED <<vars, trail>>
    BY <1>2 DEF uvars
  <2>2. IInv => IInv'
    BY <2>1, IInvStep
  <2>3. UNCHANGED <<graph, removed, pending, pc, e, i, currentPath, visited, degrees, inds, adjList, trail>>
    BY <2>1 DEF vars, search
  <2>4. UTypes'
    BY <1>2, <2>2, <2>3 DEF UInv, UTypes, Arrays
  <2>. QED
    BY <1>2, <2>3, <2>4 DEF UInv, Nested, Ones, Zeros
<1>. QED
  BY <1>1, <1>2

\* The search and the propagator it calls keep each other's invariants: a call that
\* runs sees one graph, and a world that is left takes its exclusions with it.
THEOREM SearchInvariant == USpec => []UInv
<1>1. UInit => UInv
  <2>1. UInit => trail = <<>> /\ removed = {}
    BY DEF UInit
  <2>. QED
    BY <2>1, UTypesInit DEF UInv, Nested
<1>. QED
  BY <1>1, UInvStep, PTL DEF USpec

\* Whatever the propagator excludes and wherever the search backtracks, the edges
\* at 1 and those at 0 are the ones of the same world, and worlds are nested.
THEOREM WorldsStayNested == USpec => []WorldsNested
<1>1. UInv => WorldsNested
  <2>1. SUFFICES ASSUME UInv, pc # "done"  PROVE WorldsNested
    BY DEF WorldsNested
  <2>2. Nested
    BY <2>1 DEF UInv
  <2>. DEFINE Node(k) == IF k > Len(trail) THEN [graph |-> graph, removed |-> removed]
                                          ELSE trail[k]
  <2>3. \A k : Node(k).graph = Ones(k) /\ Node(k).removed = Zeros(k)
    BY DEF Ones, Zeros
  <2>4. ASSUME NEW k \in 1 .. Len(trail)
        PROVE  /\ ends(trail[k].chord) \notin trail[k].graph \cup trail[k].removed
               /\ Node(k + 1).graph = trail[k].graph \cup {ends(trail[k].chord)}
               /\ trail[k].removed \subseteq Node(k + 1).removed
    <3>. HIDE DEF Node
    <3>. QED
      BY <2>2, <2>3 DEF Nested
  <2>. QED
    BY <2>2, <2>4 DEF WorldsNested, Nested
<1>. QED
  BY <1>1, SearchInvariant, PTL

(***************************************************************************)
(* What is still to come.  A graph is allowed by a world if it has the     *)
(* edges at 1 and none of those at 0.                                      *)
(***************************************************************************)
Allows(ones, zeros, g) == ones \subseteq g /\ g \cap zeros = {}
Refuted(k, g) == Allows(trail[k].graph, trail[k].removed \cup {ends(trail[k].chord)}, g)
Ahead(g) == Allows(graph, removed, g) \/ \E k \in 1 .. Len(trail) : Refuted(k, g)

Reasons ==
    /\ pc = "failed" => HasSecondCycle(graph)
    /\ pc = "solved" => graph \in solutions /\ Undefined = {}

AllAhead == \A g \in UHGs : g \in solutions \/ (pc # "done" /\ Ahead(g))

LEMMA SecondCycleStays ==
    ASSUME NEW h, NEW g, HasSecondCycle(h), h \subseteq g
    PROVE  g \notin UHGs
BY DEF HasSecondCycle, UHGs, UniquelyHamiltonian

LEMMA SolvedGraph ==
    ASSUME UTypes, Undefined = {}, NEW g \in SUBSET AllEdges, Allows(graph, removed, g)
    PROVE  g = graph
<1>1. SUFFICES ASSUME NEW d \in g  PROVE d \in graph
  BY DEF Allows
<1>2. CASE d \in Cycle
  BY <1>2 DEF UTypes
<1>3. CASE d \notin Cycle
  <2>1. PICK c \in Chords : d = ends(c)
    BY <1>3, CycleOrChord
  <2>2. d \in graph \cup removed
    BY <2>1 DEF Undefined
  <2>. QED
    BY <1>1, <2>2 DEF Allows
<1>. QED
  BY <1>2, <1>3

LEMMA ReasonsKept ==
    ASSUME UInv, Reasons, UNext
    PROVE  Reasons'
<1>1. CASE Propagation
  <2>1. pc # "done"
    BY <1>1 DEF Propagation, NextCall, Propagate, Walk, RecordPath, Advance, Retreat
  <2>. QED
    BY <1>1, <2>1, PropagationFacts DEF UInv, Nested, Reasons
<1>2. CASE Decide
  BY <1>2 DEF Decide, Idle, Reasons
<1>3. CASE Solved
  <2>1. pc' = "solved" /\ graph' = graph /\ removed' = removed /\ graph \in solutions' /\ Undefined = {}
    BY <1>3 DEF Solved
  <2>2. Undefined' = Undefined
    BY <2>1 DEF Undefined
  <2>. QED
    BY <2>1, <2>2 DEF Reasons
<1>4. CASE Refute
  BY <1>4 DEF Refute, Restore, Reasons
<1>. QED
  BY <1>1, <1>2, <1>3, <1>4 DEF UNext

LEMMA AllAheadKept ==
    ASSUME UInv, Reasons, AllAhead, UNext
    PROVE  AllAhead'
<1>. DEFINE n == Len(trail)
<1>1. n \in Nat /\ trail \in Seq(World) /\ UTypes
  BY DEF UInv, UTypes
<1>2. SUFFICES ASSUME NEW g \in UHGs, g \notin solutions'
               PROVE  pc' # "done" /\ Ahead(g)'
  BY DEF AllAhead, UHGs
<1>3. solutions \subseteq solutions'
  BY DEF UNext, Propagation, Decide, Solved, Refute
<1>4. pc # "done" /\ Ahead(g)
  BY <1>2, <1>3 DEF AllAhead
<1>5. Nested
  BY <1>4 DEF UInv
<1>6. CASE Propagation
  <2>1. /\ graph' = graph /\ trail' = trail /\ pc' # "done"
        /\ \A d \in removed' \ removed : HasSecondCycle(graph \cup {d})
    BY <1>1, <1>5, <1>6, PropagationFacts DEF Nested
  <2>2. CASE Allows(graph, removed, g)
    <3>1. ASSUME NEW d \in g, d \in removed'  PROVE FALSE
      <4>1. d \in removed' \ removed
        BY <2>2, <3>1 DEF Allows
      <4>2. graph \cup {d} \subseteq g
        BY <2>2, <3>1 DEF Allows
      <4>. QED
        BY <2>1, <4>1, <4>2, SecondCycleStays
    <3>2. Allows(graph', removed', g)
      BY <2>1, <2>2, <3>1 DEF Allows
    <3>. QED
      BY <2>1, <3>2 DEF Ahead
  <2>3. CASE ~ Allows(graph, removed, g)
    <3>1. PICK k \in 1 .. n : Refuted(k, g)
      BY <1>4, <2>3 DEF Ahead
    <3>. QED
      BY <2>1, <3>1 DEF Ahead, Refuted
  <2>. QED
    BY <2>2, <2>3
<1>7. CASE Decide
  <2>1. PICK c \in Undefined :
          /\ trail' = Append(trail, [graph |-> graph, removed |-> removed, chord |-> c])
          /\ graph' = graph \cup {ends(c)} /\ removed' = removed /\ pc' = pc
    BY <1>7 DEF Decide
  <2>. DEFINE w == [graph |-> graph, removed |-> removed, chord |-> c]
  <2>2. w.graph = graph /\ w.removed = removed /\ w.chord = c /\ trail' = Append(trail, w)
    BY <2>1
  <2>. HIDE DEF w
  <2>3. /\ Len(trail') = n + 1 /\ trail'[n + 1] = w
        /\ \A k \in 1 .. n : trail'[k] = trail[k]
    BY <1>1, <2>2
  <2>4. CASE Allows(graph, removed, g) /\ ends(c) \in g
    <3>1. Allows(graph', removed', g)
      BY <2>1, <2>4 DEF Allows
    <3>. QED
      BY <1>4, <2>1, <3>1 DEF Ahead
  <2>5. CASE Allows(graph, removed, g) /\ ends(c) \notin g
    <3>1. Allows(w.graph, w.removed \cup {ends(w.chord)}, g)
      BY <2>2, <2>5 DEF Allows
    <3>2. PICK k \in 1 .. Len(trail') : k = n + 1
      BY <1>1, <2>3
    <3>3. Refuted(k, g)'
      BY <2>3, <3>1, <3>2 DEF Refuted
    <3>. QED
      BY <1>4, <2>1, <3>2, <3>3 DEF Ahead
  <2>6. CASE ~ Allows(graph, removed, g)
    <3>1. PICK k \in 1 .. n : Refuted(k, g)
      BY <1>4, <2>6 DEF Ahead
    <3>2. k \in 1 .. Len(trail') /\ trail'[k] = trail[k]
      <4>1. k \in 1 .. n + 1
        BY <1>1
      <4>. QED
        BY <2>3, <4>1
    <3>3. Refuted(k, g)'
      BY <3>1, <3>2 DEF Refuted
    <3>. QED
      BY <1>4, <2>1, <3>2, <3>3 DEF Ahead
  <2>. QED
    BY <2>4, <2>5, <2>6
<1>8. CASE Solved
  <2>1. UNCHANGED <<graph, removed, trail>> /\ pc' = "solved"
    BY <1>8 DEF Solved
  <2>. QED
    BY <1>4, <2>1 DEF Ahead, Refuted, Allows
<1>9. CASE Refute
  <2>1. ~ Allows(graph, removed, g)
    <3>1. SUFFICES ASSUME Allows(graph, removed, g)  PROVE FALSE
      OBVIOUS
    <3>2. CASE pc = "failed"
      BY <1>2, <3>1, <3>2, SecondCycleStays DEF Reasons, Allows
    <3>3. CASE pc = "solved"
      <4>1. g \in SUBSET AllEdges
        BY DEF UHGs
      <4>. QED
        BY <1>1, <1>2, <1>3, <3>1, <3>3, <4>1, SolvedGraph DEF Reasons
    <3>. QED
      BY <1>9, <3>2, <3>3 DEF Refute
  <2>2. PICK k \in 1 .. n : Refuted(k, g)
    BY <1>4, <2>1 DEF Ahead
  <2>3. trail # <<>>
    BY <2>2
  <2>4. /\ graph' = trail[n].graph /\ removed' = trail[n].removed \cup {ends(trail[n].chord)}
        /\ trail' = SubSeq(trail, 1, n - 1) /\ pc' = "idle"
    BY <1>9, <2>3 DEF Refute, Restore
  <2>5. n \in Nat \ {0} /\ Len(trail') = n - 1 /\ \A j \in 1 .. n - 1 : trail'[j] = trail[j]
    BY <1>1, <2>3, <2>4, PopFacts
  <2>6. CASE k = n
    <3>1. Allows(graph', removed', g)
      BY <2>2, <2>4, <2>6 DEF Refuted
    <3>. QED
      BY <2>4, <3>1 DEF Ahead
  <2>7. CASE k # n
    <3>1. k \in 1 .. n - 1
      BY <2>5, <2>7
    <3>2. k \in 1 .. Len(trail') /\ Refuted(k, g)'
      BY <2>2, <2>5, <3>1 DEF Refuted
    <3>. QED
      BY <2>4, <3>2 DEF Ahead
  <2>. QED
    BY <2>6, <2>7
<1>. QED
  BY <1>6, <1>7, <1>8, <1>9 DEF UNext

\* solveAll returns only when every uniquely Hamiltonian graph has been reported:
\* neither the propagator nor the search loses one.
NothingMissed == pc = "done" => UHGs \subseteq solutions

THEOREM SearchComplete == USpec => []NothingMissed
<1>. DEFINE Inv == Reasons /\ AllAhead
<1>1. UInit => Inv
  <2>1. SUFFICES ASSUME UInit, NEW g \in UHGs  PROVE Inv /\ Ahead(g)
    BY DEF AllAhead, UInit, Reasons
  <2>. QED
    BY <2>1 DEF UInit, Reasons, AllAhead, Ahead, Allows, UHGs, UniquelyHamiltonian
<1>2. UInv /\ Inv /\ [UNext]_uvars => Inv'
  <2>1. CASE UNext
    BY <2>1, ReasonsKept, AllAheadKept
  <2>2. CASE UNCHANGED uvars
    BY <2>2 DEF uvars, vars, Reasons, AllAhead, Ahead, Refuted, Undefined
  <2>. QED
    BY <2>1, <2>2
<1>3. Inv => NothingMissed
  BY DEF AllAhead, NothingMissed
<1>. HIDE DEF Inv
<1>. QED
  BY <1>1, <1>2, <1>3, SearchInvariant, PTL DEF USpec

(***************************************************************************)
(* No graph twice: a graph that has been found is allowed by no world that *)
(* is still to be explored.                                                *)
(***************************************************************************)
Decided ==
    \A k \in 1 .. Len(trail) :
        /\ ends(trail[k].chord) \in graph
        /\ \A m \in k + 1 .. Len(trail) : ends(trail[k].chord) \in trail[m].graph

NoneAhead ==
    \A g \in solutions :
        /\ pc \in {"idle", "search"} => ~ Allows(graph, removed, g)
        /\ \A k \in 1 .. Len(trail) : ~ Refuted(k, g)

LEMMA DecidedKept ==
    ASSUME UInv, pc # "done" => Decided, UNext
    PROVE  pc' # "done" => Decided'
<1>. DEFINE n == Len(trail)
<1>1. n \in Nat /\ trail \in Seq(World)
  BY DEF UInv, UTypes
<1>2. CASE Propagation
  <2>1. pc # "done"
    BY <1>2 DEF Propagation, NextCall, Propagate, Walk, RecordPath, Advance, Retreat
  <2>2. graph' = graph /\ trail' = trail
    BY <1>2, <2>1, PropagationFacts DEF UInv, Nested
  <2>. QED
    BY <2>1, <2>2 DEF Decided
<1>3. CASE Decide
  <2>1. PICK c \in Undefined :
          /\ trail' = Append(trail, [graph |-> graph, removed |-> removed, chord |-> c])
          /\ graph' = graph \cup {ends(c)}
    BY <1>3 DEF Decide
  <2>2. Decided
    BY <1>3 DEF Decide, Idle
  <2>. DEFINE w == [graph |-> graph, removed |-> removed, chord |-> c]
  <2>3. w.graph = graph /\ w.chord = c /\ trail' = Append(trail, w)
    BY <2>1
  <2>. HIDE DEF w
  <2>4. /\ Len(trail') = n + 1 /\ trail'[n + 1] = w
        /\ \A k \in 1 .. n : trail'[k] = trail[k]
    BY <1>1, <2>3
  <2>5. ASSUME NEW k \in 1 .. n
        PROVE  /\ ends(trail'[k].chord) \in graph'
               /\ \A m \in k + 1 .. n + 1 : ends(trail'[k].chord) \in trail'[m].graph
    <3>1. ends(trail'[k].chord) \in graph /\ \A m \in k + 1 .. n : ends(trail'[k].chord) \in trail[m].graph
      BY <2>2, <2>4 DEF Decided
    <3>2. ASSUME NEW m \in k + 1 .. n + 1  PROVE ends(trail'[k].chord) \in trail'[m].graph
      <4>1. CASE m = n + 1
        BY <2>3, <2>4, <3>1, <4>1
      <4>2. CASE m # n + 1
        <5>1. m \in k + 1 .. n /\ m \in 1 .. n
          BY <1>1, <4>2
        <5>. QED
          BY <2>4, <3>1, <5>1
      <4>. QED
        BY <4>1, <4>2
    <3>. QED
      BY <2>1, <3>1, <3>2
  <2>6. ASSUME NEW k, k = n + 1
        PROVE  /\ ends(trail'[k].chord) \in graph'
               /\ \A m \in k + 1 .. n + 1 : ends(trail'[k].chord) \in trail'[m].graph
    <3>1. k + 1 .. n + 1 = {}
      BY <1>1, <2>6
    <3>. QED
      BY <2>1, <2>3, <2>4, <2>6, <3>1
  <2>7. \A k \in 1 .. Len(trail') : k \in 1 .. n \/ k = n + 1
    BY <1>1, <2>4
  <2>. QED
    BY <2>4, <2>5, <2>6, <2>7 DEF Decided
<1>4. CASE Solved
  BY <1>4 DEF Solved, Idle, Decided
<1>5. CASE Refute /\ trail # <<>>
  <2>1. /\ graph' = trail[n].graph /\ trail' = SubSeq(trail, 1, n - 1) /\ Decided
    BY <1>5 DEF Refute, Restore
  <2>2. /\ n \in Nat \ {0} /\ Len(trail') = n - 1
        /\ \A k \in 1 .. n - 1 : trail'[k] = trail[k]
    BY <1>1, <1>5, <2>1, PopFacts
  <2>3. ASSUME NEW k \in 1 .. n - 1
        PROVE  /\ ends(trail'[k].chord) \in graph'
               /\ \A m \in k + 1 .. n - 1 : ends(trail'[k].chord) \in trail'[m].graph
    <3>1. k \in 1 .. n /\ n \in k + 1 .. n /\ \A m \in k + 1 .. n - 1 : m \in k + 1 .. n /\ m \in 1 .. n - 1
      BY <2>2
    <3>2. \A m \in k + 1 .. n : ends(trail[k].chord) \in trail[m].graph
      BY <2>1, <3>1 DEF Decided
    <3>. QED
      BY <2>1, <2>2, <3>1, <3>2
  <2>. QED
    BY <2>2, <2>3 DEF Decided
<1>6. CASE Refute /\ trail = <<>>
  BY <1>6 DEF Refute
<1>. QED
  BY <1>2, <1>3, <1>4, <1>5, <1>6 DEF UNext

LEMMA NoneAheadKept ==
    ASSUME UInv, pc # "done" => Decided, NoneAhead, UNext
    PROVE  NoneAhead'
<1>. DEFINE n == Len(trail)
<1>1. n \in Nat /\ trail \in Seq(World) /\ UTypes
  BY DEF UInv, UTypes
<1>2. CASE Propagation
  <2>1. pc # "done"
    BY <1>2 DEF Propagation, NextCall, Propagate, Walk, RecordPath, Advance, Retreat
  <2>2. graph' = graph /\ trail' = trail /\ solutions' = solutions /\ removed \subseteq removed'
    BY <1>1, <1>2, <2>1, PropagationFacts DEF UInv, Nested
  <2>3. pc \in {"idle", "search"}
    BY <1>2 DEF Propagation, NextCall, Propagate, Walk, RecordPath, Advance, Retreat
  <2>4. ASSUME NEW g \in solutions
        PROVE  ~ Allows(graph, removed', g) /\ \A k \in 1 .. n : ~ Refuted(k, g)
    BY <2>2, <2>3, <2>4 DEF NoneAhead, Allows
  <2>5. \A g, k : Refuted(k, g)' = Refuted(k, g)
    BY <2>2 DEF Refuted
  <2>. QED
    BY <2>2, <2>4, <2>5 DEF NoneAhead
<1>3. CASE Decide
  <2>1. PICK c \in Undefined :
          /\ trail' = Append(trail, [graph |-> graph, removed |-> removed, chord |-> c])
          /\ graph' = graph \cup {ends(c)} /\ removed' = removed
          /\ solutions' = solutions /\ pc = "idle"
    BY <1>3 DEF Decide, Idle
  <2>. DEFINE w == [graph |-> graph, removed |-> removed, chord |-> c]
  <2>2. w.graph = graph /\ w.removed = removed /\ w.chord = c /\ trail' = Append(trail, w)
    BY <2>1
  <2>. HIDE DEF w
  <2>3. /\ Len(trail') = n + 1 /\ trail'[n + 1] = w
        /\ \A k \in 1 .. n : trail'[k] = trail[k]
    BY <1>1, <2>2
  <2>4. SUFFICES ASSUME NEW g \in solutions
                 PROVE  ~ Allows(graph', removed', g) /\ \A k \in 1 .. Len(trail') : ~ Refuted(k, g)'
    BY <2>1 DEF NoneAhead
  <2>5. ~ Allows(graph, removed, g) /\ \A k \in 1 .. n : ~ Refuted(k, g)
    BY <2>1 DEF NoneAhead
  <2>6. ~ Allows(graph', removed', g)
    BY <2>1, <2>5 DEF Allows
  <2>7. ASSUME NEW k \in 1 .. n  PROVE ~ Refuted(k, g)'
    <3>1. trail'[k] = trail[k] /\ ~ Refuted(k, g)
      BY <2>3, <2>5
    <3>. QED
      BY <3>1 DEF Refuted
  <2>8. ASSUME NEW k, k = n + 1  PROVE ~ Refuted(k, g)'
    <3>1. ~ Allows(w.graph, w.removed \cup {ends(w.chord)}, g)
      BY <2>2, <2>5 DEF Allows
    <3>. QED
      BY <2>3, <2>8, <3>1 DEF Refuted
  <2>9. \A k \in 1 .. Len(trail') : k \in 1 .. n \/ k = n + 1
    BY <1>1, <2>3
  <2>. QED
    BY <2>6, <2>7, <2>8, <2>9
<1>4. CASE Solved
  <2>1. /\ UNCHANGED <<graph, removed, trail>> /\ pc = "idle" /\ pc' = "solved"
        /\ solutions' = solutions \cup {graph} /\ Decided
    BY <1>4 DEF Solved, Idle
  <2>2. ASSUME NEW k \in 1 .. n  PROVE ~ Refuted(k, graph)
    BY <2>1 DEF Decided, Refuted, Allows
  <2>3. ASSUME NEW g \in solutions', NEW k \in 1 .. n  PROVE ~ Refuted(k, g)
    BY <2>1, <2>2 DEF NoneAhead
  <2>4. \A g, k : Refuted(k, g)' = Refuted(k, g)
    BY <2>1 DEF Refuted
  <2>. QED
    BY <2>1, <2>3, <2>4 DEF NoneAhead
<1>5. CASE Refute /\ trail # <<>>
  <2>1. /\ graph' = trail[n].graph /\ removed' = trail[n].removed \cup {ends(trail[n].chord)}
        /\ trail' = SubSeq(trail, 1, n - 1) /\ solutions' = solutions
    BY <1>5 DEF Refute, Restore
  <2>2. /\ n \in Nat \ {0} /\ Len(trail') = n - 1
        /\ \A k \in 1 .. n - 1 : trail'[k] = trail[k]
    BY <1>1, <1>5, <2>1, PopFacts
  <2>3. SUFFICES ASSUME NEW g \in solutions
                 PROVE  ~ Allows(graph', removed', g) /\ \A k \in 1 .. Len(trail') : ~ Refuted(k, g)'
    BY <2>1 DEF NoneAhead
  <2>4. \A k \in 1 .. n : ~ Refuted(k, g)
    BY DEF NoneAhead
  <2>5. ~ Allows(graph', removed', g)
    <3>1. n \in 1 .. n
      BY <2>2
    <3>. QED
      BY <2>1, <2>4, <3>1 DEF Refuted
  <2>6. ASSUME NEW k \in 1 .. n - 1  PROVE ~ Refuted(k, g)'
    <3>1. k \in 1 .. n /\ trail'[k] = trail[k]
      BY <2>2
    <3>2. ~ Refuted(k, g)
      BY <2>4, <3>1
    <3>. QED
      BY <3>1, <3>2 DEF Refuted
  <2>. QED
    BY <2>2, <2>5, <2>6
<1>6. CASE Refute /\ trail = <<>>
  <2>1. pc' = "done" /\ UNCHANGED <<trail, solutions>>
    BY <1>6 DEF Refute
  <2>. QED
    BY <2>1 DEF NoneAhead, Refuted
<1>. QED
  BY <1>2, <1>3, <1>4, <1>5, <1>6 DEF UNext

\* The number solveAll returns is that of the different graphs it has reported:
\* a graph that a world was left with is never met again.
CountsEachOnce == IsFiniteSet(solutions) /\ cnt = Cardinality(solutions)

THEOREM NoGraphTwice == USpec => []CountsEachOnce
<1>. DEFINE Inv == (pc # "done" => Decided) /\ NoneAhead /\ CountsEachOnce
<1>1. UInit => Inv
  <2>1. UInit => trail = <<>> /\ solutions = {} /\ cnt = 0
    BY DEF UInit
  <2>2. UInit => Decided /\ NoneAhead
    BY <2>1 DEF Decided, NoneAhead
  <2>. QED
    BY <2>1, <2>2, FS_EmptySet DEF CountsEachOnce
<1>2. UInv /\ Inv /\ [UNext]_uvars => Inv'
  <2>1. ASSUME UInv, Inv, UNext  PROVE CountsEachOnce'
    <3>1. CASE Solved
      <4>1. pc = "idle" /\ solutions' = solutions \cup {graph} /\ cnt' = cnt + 1
        BY <3>1 DEF Solved, Idle
      <4>2. Allows(graph, removed, graph)
        BY <2>1, <4>1 DEF UInv, Nested, Allows
      <4>3. graph \notin solutions
        BY <2>1, <4>1, <4>2 DEF NoneAhead
      <4>4. IsFiniteSet(solutions) /\ cnt = Cardinality(solutions)
        BY <2>1 DEF CountsEachOnce
      <4>5. IsFiniteSet(solutions') /\ Cardinality(solutions') = Cardinality(solutions) + 1
        BY <4>1, <4>3, <4>4, FS_AddElement
      <4>. QED
        BY <4>1, <4>4, <4>5 DEF CountsEachOnce
    <3>2. CASE Propagation \/ Decide \/ Refute
      BY <2>1, <3>2 DEF Propagation, Decide, Refute, CountsEachOnce
    <3>. QED
      BY <2>1, <3>1, <3>2 DEF UNext
  <2>2. CASE UNext
    BY <2>1, <2>2, DecidedKept, NoneAheadKept
  <2>3. CASE UNCHANGED uvars
    BY <2>3 DEF uvars, vars, Decided, NoneAhead, Refuted, CountsEachOnce
  <2>. QED
    BY <2>2, <2>3
<1>3. Inv => CountsEachOnce
  OBVIOUS
<1>. HIDE DEF Inv
<1>. QED
  BY <1>1, <1>2, <1>3, SearchInvariant, PTL DEF USpec

(***************************************************************************)
(* No second cycle: between calls the graph has none, and neither has any  *)
(* world; a chord whose call is to come or runs is the only doubt.         *)
(***************************************************************************)
OneCycle ==
    /\ \A k \in 1 .. Len(trail) : ~ HasSecondCycle(trail[k].graph)
    /\ pc = "idle" =>
          \/ pending = {} /\ ~ HasSecondCycle(graph)
          \/ \E c \in Chords : pending = {c} /\ ~ HasSecondCycle(graph \ {ends(c)})
    /\ pc = "search" => pending = {} /\ ~ HasSecondCycle(graph \ {ends(e)})

\* A call that returns leaves no second cycle: one through the chord would have
\* been closed by an edge that is 0.
LEMMA NoneThroughChord ==
    ASSUME IInv, WalkedInv, Next, pc = "search", pc' = "idle", graph' = graph,
           graph \cap removed' = {}, ~ HasSecondCycle(graph \ {ends(e)})
    PROVE  ~ HasSecondCycle(graph)
<1>1. SUFFICES ASSUME NEW c \in HamCycles, c # Cycle, c \subseteq graph  PROVE FALSE
  BY DEF HasSecondCycle
<1>2. ends(e) \in c
  BY <1>1 DEF HasSecondCycle
<1>3. e \in Chords /\ e[1] \in V /\ e[2] \in V /\ e[1] # e[2]
  <2>1. e \in Chords
    BY DEF IInv, CallIsForChord
  <2>2. \A j, k \in V : j < k => j # k
    BY VFacts DEF V
  <2>. QED
    BY <2>1, <2>2, ChordFacts
<1>4. PICK p \in Orders : p[0] = e[1] /\ p[1] = e[2] /\ c = CycleOf(p)
  BY <1>2, <1>3, ReadFrom DEF ends
<1>. DEFINE d == Edge(p[0], p[N - 1])
<1>5. d \in c /\ d # ends(e) /\ e[1] \in d
  <2>1. N \in Nat /\ N >= 3 /\ N - 1 \in V /\ 1 \in V /\ 0 \in V /\ Mod(N - 1 + 1) = 0 /\ N - 1 # 1
    BY VFacts, ModFacts
  <2>2. Edge(p[N - 1], p[0]) \in c
    BY <1>4, <2>1 DEF CycleOf
  <2>3. p[N - 1] # p[1]
    BY <2>1 DEF Orders
  <2>. QED
    BY <1>3, <1>4, <2>2, <2>3 DEF Edge, ends
<1>. HIDE DEF d
<1>6. d \in removed'
  BY <1>1, <1>2, <1>5, WalkFinished
<1>. QED
  BY <1>1, <1>5, <1>6

LEMMA OneCycleKept ==
    ASSUME UInv, WalkedInv, OneCycle, UNext
    PROVE  OneCycle'
<1>. DEFINE n == Len(trail)
<1>1. n \in Nat /\ trail \in Seq(World) /\ UTypes
  BY DEF UInv, UTypes
<1>2. CASE Propagation
  <2>1. pc \in {"idle", "search"} /\ Nested
    BY <1>2 DEF UInv, Propagation, NextCall, Propagate, Walk, RecordPath, Advance, Retreat
  <2>2. IInv /\ Next
    BY <1>1, <1>2, <2>1, WalkHolds DEF Propagation, Next
  <2>3. graph' = graph /\ trail' = trail /\ graph \cap removed' = {}
    BY <1>1, <1>2, <2>1, PropagationFacts DEF Nested
  <2>4. CASE pc = "idle"
    <3>1. NextCall
      BY <1>2, <2>4 DEF Propagation, Walk, RecordPath, Advance, Retreat
    <3>2. FirstPending \in pending /\ Propagate(FirstPending)
      BY <3>1 DEF NextCall, Propagate
    <3>3. pending = {FirstPending} /\ ~ HasSecondCycle(graph \ {ends(FirstPending)})
      BY <2>4, <3>2 DEF OneCycle
    <3>. HIDE DEF FirstPending
    <3>4. pending' = {} /\ (pc' = "search" => e' = FirstPending) /\ pc' \in {"search", "failed"}
      BY <3>2, <3>3 DEF Propagate, Start
    <3>. QED
      BY <2>3, <3>3, <3>4 DEF OneCycle
  <2>5. CASE pc = "search"
    <3>1. Walk
      BY <1>2, <2>5 DEF Propagation, NextCall, Propagate
    <3>2. pending' = pending /\ e' = e /\ pending = {} /\ ~ HasSecondCycle(graph \ {ends(e)})
      BY <2>5, <3>1 DEF Walk, RecordPath, Advance, Retreat, Extend, Shrink, OneCycle, search
    <3>3. pc' = "idle" => ~ HasSecondCycle(graph)
      BY <2>2, <2>3, <2>5, <3>2, NoneThroughChord
    <3>. QED
      BY <2>3, <3>2, <3>3 DEF OneCycle
  <2>. QED
    BY <2>1, <2>4, <2>5
<1>3. CASE Decide
  <2>1. PICK c \in Undefined :
          /\ trail' = Append(trail, [graph |-> graph, removed |-> removed, chord |-> c])
          /\ graph' = graph \cup {ends(c)} /\ pending' = {c}
    BY <1>3 DEF Decide
  <2>2. pc = "idle" /\ pc' = "idle" /\ pending = {} /\ ~ HasSecondCycle(graph)
    BY <1>3 DEF Decide, Idle, OneCycle
  <2>3. c \in Chords /\ graph' \ {ends(c)} = graph
    BY <2>1 DEF Undefined
  <2>. DEFINE w == [graph |-> graph, removed |-> removed, chord |-> c]
  <2>4. w.graph = graph /\ trail' = Append(trail, w)
    BY <2>1
  <2>. HIDE DEF w
  <2>5. /\ Len(trail') = n + 1 /\ trail'[n + 1] = w
        /\ \A k \in 1 .. n : trail'[k] = trail[k]
    BY <1>1, <2>4
  <2>6. ASSUME NEW k \in 1 .. Len(trail')  PROVE ~ HasSecondCycle(trail'[k].graph)
    <3>1. CASE k \in 1 .. n
      BY <2>5, <3>1 DEF OneCycle
    <3>2. CASE k \notin 1 .. n
      <4>1. k = n + 1
        BY <1>1, <2>5, <3>2
      <4>. QED
        BY <2>2, <2>4, <2>5, <4>1
    <3>. QED
      BY <3>1, <3>2
  <2>. QED
    BY <2>1, <2>2, <2>3, <2>6 DEF OneCycle
<1>4. CASE Solved
  BY <1>4 DEF Solved, OneCycle
<1>5. CASE Refute /\ trail # <<>>
  <2>1. /\ graph' = trail[n].graph /\ trail' = SubSeq(trail, 1, n - 1)
        /\ pc' = "idle" /\ pending' = {}
    BY <1>5 DEF Refute, Restore
  <2>2. n \in Nat \ {0} /\ Len(trail') = n - 1 /\ \A k \in 1 .. n - 1 : trail'[k] = trail[k]
    BY <1>1, <1>5, <2>1, PopFacts
  <2>3. n \in 1 .. n /\ \A k \in 1 .. n - 1 : k \in 1 .. n
    BY <2>2
  <2>. QED
    BY <2>1, <2>2, <2>3 DEF OneCycle
<1>6. CASE Refute /\ trail = <<>>
  BY <1>6 DEF Refute, OneCycle
<1>. QED
  BY <1>2, <1>3, <1>4, <1>5, <1>6 DEF UNext

(***************************************************************************)
(* The search implements the enumeration of the uniquely Hamiltonian       *)
(* graphs.                                                                 *)
(***************************************************************************)
RInv ==
    /\ UInv /\ WalkedInv /\ OneCycle
    /\ Reasons /\ AllAhead
    /\ pc # "done" => Decided
    /\ NoneAhead
    /\ solutions \subseteq UHGs

LEMMA SearchWalked == UInv /\ WalkedInv /\ [UNext]_uvars => WalkedInv'
<1>1. ASSUME UInv, WalkedInv, Propagation  PROVE WalkedInv'
  <2>1. pc \in {"idle", "search"}
    BY <1>1 DEF Propagation, NextCall, Propagate, Walk, RecordPath, Advance, Retreat
  <2>2. IInv /\ Next
    BY <1>1, <2>1, WalkHolds DEF Propagation, Next, UInv
  <2>. QED
    BY <1>1, <2>2, WalkedStep
<1>2. ASSUME Decide \/ Solved \/ Refute  PROVE WalkedInv'
  <2>1. pc' # "search"
    BY <1>2 DEF Decide, Solved, Refute, Restore, Idle
  <2>. QED
    BY <2>1 DEF WalkedInv
<1>3. ASSUME UInv, WalkedInv, UNCHANGED uvars  PROVE WalkedInv'
  <2>1. UNCHANGED vars
    BY <1>3 DEF uvars
  <2>2. CASE pc = "search"
    <3>1. IInv
      BY <1>3, <2>2 DEF UInv, UTypes
    <3>. QED
      BY <1>3, <2>1, <3>1, WalkedStep
  <2>3. CASE pc # "search"
    BY <2>1, <2>3 DEF WalkedInv, vars
  <2>. QED
    BY <2>2, <2>3
<1>. QED
  BY <1>1, <1>2, <1>3 DEF UNext

\* What the search reports has the fixed cycle and no other.
LEMMA ReportsSought ==
    ASSUME UInv, OneCycle, Solved
    PROVE  graph \in UHGs
<1>1. ~ HasSecondCycle(graph)
  BY DEF OneCycle, Solved, Idle
<1>. QED
  BY <1>1 DEF UInv, UTypes, UHGs, UniquelyHamiltonian

LEMMA RInvInit == UInit => RInv
<1>1. SUFFICES ASSUME UInit  PROVE RInv
  OBVIOUS
<1>2. /\ graph = Cycle /\ removed = {} /\ pending = {} /\ pc = "idle"
      /\ trail = <<>> /\ solutions = {}
  BY <1>1 DEF UInit
<1>3. UInv
  BY <1>1, <1>2, UTypesInit DEF UInv, Nested
<1>4. WalkedInv /\ OneCycle
  BY <1>2, OnlyCycle DEF WalkedInv, OneCycle
<1>5. Reasons /\ AllAhead
  BY <1>2 DEF Reasons, AllAhead, Ahead, Allows, UHGs, UniquelyHamiltonian
<1>6. Decided /\ NoneAhead /\ solutions \subseteq UHGs
  BY <1>2 DEF Decided, NoneAhead
<1>. QED
  BY <1>3, <1>4, <1>5, <1>6 DEF RInv

LEMMA RInvStep == RInv /\ [UNext]_uvars => RInv'
<1>1. ASSUME RInv, UNext  PROVE RInv'
  <2>1. UInv' /\ WalkedInv'
    BY <1>1, UInvStep, SearchWalked DEF RInv
  <2>2. OneCycle' /\ Reasons' /\ AllAhead' /\ (pc' # "done" => Decided') /\ NoneAhead'
    BY <1>1, OneCycleKept, ReasonsKept, AllAheadKept, DecidedKept, NoneAheadKept DEF RInv
  <2>3. (solutions \subseteq UHGs)'
    <3>1. CASE Solved
      <4>1. graph \in UHGs /\ solutions' = solutions \cup {graph}
        BY <1>1, <3>1, ReportsSought DEF RInv, Solved
      <4>2. UHGs' = UHGs
        BY DEF UHGs, UniquelyHamiltonian, HasSecondCycle
      <4>. QED
        BY <1>1, <4>1, <4>2 DEF RInv
    <3>2. CASE Propagation \/ Decide \/ Refute
      BY <1>1, <3>2 DEF RInv, Propagation, Decide, Refute
    <3>. QED
      BY <1>1, <3>1, <3>2 DEF UNext
  <2>. QED
    BY <2>1, <2>2, <2>3 DEF RInv
<1>2. ASSUME RInv, UNCHANGED uvars  PROVE RInv'
  <2>1. UInv' /\ WalkedInv'
    BY <1>2, UInvStep, SearchWalked DEF RInv
  <2>2. UNCHANGED <<graph, removed, pending, pc, e, trail, solutions>>
    BY <1>2 DEF uvars, vars, search
  <2>3. OneCycle' /\ Reasons' /\ (pc' # "done" => Decided')
    BY <1>2, <2>2 DEF RInv, OneCycle, Reasons, Decided, Undefined
  <2>4. AllAhead' /\ NoneAhead' /\ (solutions \subseteq UHGs)'
    BY <1>2, <2>2 DEF RInv, AllAhead, Ahead, NoneAhead, Refuted, Allows
  <2>. QED
    BY <2>1, <2>3, <2>4 DEF RInv
<1>. QED
  BY <1>1, <1>2

\* Every step of the search reports a graph that is sought and not yet found, ends
\* the enumeration when all have been found, or changes nothing of it.
LEMMA SearchSteps ==
    RInv /\ RInv' /\ [UNext]_uvars =>
        [E!Report \/ E!Finish]_<<solutions, cnt, pc = "done">>
<1>1. ASSUME RInv, RInv', Solved  PROVE E!Report
  <2>1. /\ pc = "idle" /\ pc' = "solved" /\ cnt' = cnt + 1
        /\ solutions' = solutions \cup {graph}
    BY <1>1 DEF Solved, Idle
  <2>2. graph \in UHGs
    BY <1>1, ReportsSought DEF RInv
  <2>3. graph \notin solutions
    BY <1>1, <2>1 DEF RInv, UInv, Nested, NoneAhead, Allows
  <2>4. graph \in solutions' \ solutions
    BY <2>1, <2>3
  <2>5. (pc = "done") = FALSE /\ (pc' = "done") = FALSE
    BY <2>1
  <2>. QED
    BY <2>1, <2>2, <2>4, <2>5 DEF E!Report
<1>2. ASSUME RInv, RInv', Refute, trail = <<>>  PROVE E!Finish
  <2>1. pc # "done" /\ pc' = "done" /\ UNCHANGED <<solutions, cnt>>
    BY <1>2 DEF Refute
  <2>2. solutions = UHGs
    <3>1. AllAhead' /\ solutions' \subseteq UHGs'
      BY <1>2 DEF RInv
    <3>2. UHGs' = UHGs
      BY DEF UHGs, UniquelyHamiltonian, HasSecondCycle
    <3>3. \A g \in UHGs : g \in solutions'
      BY <2>1, <3>1, <3>2 DEF AllAhead
    <3>. QED
      BY <2>1, <3>1, <3>2, <3>3
  <2>. QED
    BY <2>1, <2>2 DEF E!Finish
<1>3. ASSUME Propagation \/ Decide \/ (Refute /\ trail # <<>>)
      PROVE  UNCHANGED <<solutions, cnt, pc = "done">>
  <2>1. UNCHANGED <<solutions, cnt>>
    BY <1>3 DEF Propagation, Decide, Refute
  <2>2. pc # "done" /\ pc' # "done"
    <3>1. CASE Propagation
      BY <3>1 DEF Propagation, NextCall, Propagate, Walk, RecordPath, Advance, Retreat, Extend, Shrink
    <3>2. CASE Decide
      BY <3>2 DEF Decide, Idle
    <3>3. CASE Refute /\ trail # <<>>
      BY <3>3 DEF Refute, Restore
    <3>. QED
      BY <1>3, <3>1, <3>2, <3>3
  <2>. QED
    BY <2>1, <2>2
<1>4. ASSUME UNCHANGED uvars  PROVE UNCHANGED <<solutions, cnt, pc = "done">>
  BY <1>4 DEF uvars, vars
<1>. QED
  BY <1>1, <1>2, <1>3, <1>4 DEF UNext

\* solveAll implements the enumeration of a set: for every order, it reports the
\* uniquely Hamiltonian graphs with the fixed cycle and no others, none twice,
\* counts them, and returns only when it has reported them all.
THEOREM SearchEnumerates == USpec => Enumerates
<1>1. UInit => E!Init
  BY DEF UInit, E!Init
<1>. QED
  BY <1>1, RInvInit, RInvStep, SearchSteps, PTL DEF USpec, Enumerates, E!Spec
=============================================================================
