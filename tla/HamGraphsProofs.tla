--------------------------- MODULE HamGraphsProofs ---------------------------
(***************************************************************************)
(* Facts about vertices, edges and cycles, for every order N.              *)
(***************************************************************************)
EXTENDS HamGraphs, FiniteSetTheorems, FunctionTheorems, WellFoundedInduction, TLAPS

\* The vertices are 0, .., N-1, finitely many.
LEMMA VFacts ==
    /\ N \in Nat /\ N >= 3
    /\ 0 \in V /\ 1 \in V /\ N - 1 \in V
    /\ V \subseteq Nat
    /\ IsFiniteSet(V) /\ Cardinality(V) = N
<1>1. N \in Nat /\ N >= 3
  BY NAssumption
<1>2. IsFiniteSet(V) /\ Cardinality(V) = N
  BY <1>1, FS_Interval DEF V
<1>. QED
  BY <1>1, <1>2 DEF V

\* Mod is Utils.mod: the residue in 0 .. N-1, for arguments within N of that.
LEMMA ModFacts ==
    ASSUME NEW x \in Int, x >= - N, x < 2 * N
    PROVE  Mod(x) = IF x < 0 THEN x + N ELSE IF x < N THEN x ELSE x - N
<1>1. N \in Nat /\ N >= 3
  BY VFacts
<1>. QED
  BY <1>1 DEF Mod

\* A nonempty set of naturals has a least element.
LEMMA LeastNat ==
    ASSUME NEW T, T \subseteq Nat, T # {}
    PROVE  \E x \in T : \A y \in T : x <= y
<1>1. PICK x \in T : \A y \in T : ~ (<<y, x>> \in OpToRel(<, Nat))
  BY WFMin, NatLessThanWellFounded
<1>2. \A y \in T : ~ (y < x)
  BY <1>1 DEF OpToRel
<1>. QED
  BY <1>2

\* Equal edges have the same two ends.
LEMMA EdgeEnds ==
    ASSUME NEW a, NEW b, NEW c, NEW d, Edge(a, b) = Edge(c, d)
    PROVE  (a = c /\ b = d) \/ (a = d /\ b = c)
BY DEF Edge

LEMMA EdgeIn ==
    ASSUME NEW a \in V, NEW b \in V, a # b
    PROVE  Edge(a, b) \in AllEdges /\ Edge(a, b) = Edge(b, a)
BY DEF Edge, AllEdges

\* The neighbours of a vertex form a finite set that it is not in.
LEMMA NbrsFacts ==
    ASSUME NEW g, NEW x
    PROVE  /\ Nbrs(g, x) \subseteq V /\ x \notin Nbrs(g, x)
           /\ IsFiniteSet(Nbrs(g, x))
           /\ \A y : y \in Nbrs(g, x) /\ x \in V => x \in Nbrs(g, y)
<1>1. Nbrs(g, x) \subseteq V /\ x \notin Nbrs(g, x)
  BY DEF Nbrs
<1>2. IsFiniteSet(Nbrs(g, x))
  BY <1>1, VFacts, FS_Subset
<1>3. \A y : y \in Nbrs(g, x) /\ x \in V => x \in Nbrs(g, y)
  BY DEF Nbrs, Edge
<1>. QED
  BY <1>1, <1>2, <1>3

\* A chord joins two different vertices and is not on the fixed cycle.
LEMMA ChordFacts ==
    ASSUME NEW c \in Chords
    PROVE  /\ c[1] \in V /\ c[2] \in V /\ c[1] < c[2]
           /\ c[2] - c[1] >= 2 /\ c[2] - c[1] <= N - 2
           /\ ends(c) \in AllEdges
           /\ ends(c) \notin Cycle
<1>1. c[1] \in V /\ c[2] \in V /\ c[1] < c[2] /\ cycleDist(c[1], c[2]) # 1
  BY DEF Chords, Chord
<1>2. c[1] \in Nat /\ c[2] \in Nat /\ c[1] < N /\ c[2] < N /\ N \in Nat /\ N >= 3
  BY <1>1, VFacts DEF V
<1>3. Mod(c[1] - c[2]) = c[1] - c[2] + N /\ Mod(c[2] - c[1]) = c[2] - c[1]
  BY <1>1, <1>2, ModFacts
<1>4. c[2] - c[1] >= 2 /\ c[2] - c[1] <= N - 2
  BY <1>1, <1>2, <1>3 DEF cycleDist
<1>5. ends(c) \in AllEdges
  BY <1>1, <1>2, EdgeIn DEF ends
<1>6. ends(c) \notin Cycle
  <2>1. SUFFICES ASSUME NEW k \in V, Edge(c[1], c[2]) = Edge(k, Mod(k + 1))
                 PROVE  FALSE
    BY DEF ends, Cycle
  <2>2. k \in Nat /\ k < N
    BY VFacts DEF V
  <2>3. Mod(k + 1) = IF k + 1 < N THEN k + 1 ELSE k + 1 - N
    BY <1>2, <2>2, ModFacts
  <2>4. (c[1] = k /\ c[2] = Mod(k + 1)) \/ (c[1] = Mod(k + 1) /\ c[2] = k)
    BY <2>1, EdgeEnds
  <2>. QED
    BY <1>2, <1>4, <2>2, <2>3, <2>4
<1>. QED
  BY <1>1, <1>4, <1>5, <1>6

\* An order of the vertices along a chord closes to a second cycle: if its
\* edges are all in g, then g is not uniquely Hamiltonian.
LEMMA SecondCycle ==
    ASSUME NEW g, NEW p \in [V -> V], \A j, k \in V : p[j] = p[k] => j = k,
           \A k \in V : Edge(p[k], p[Mod(k + 1)]) \in g,
           NEW c \in Chords, NEW m \in V, ends(c) = Edge(p[m], p[Mod(m + 1)])
    PROVE  HasSecondCycle(g)
<1>1. p \in Orders
  BY DEF Orders
<1>2. CycleOf(p) \in HamCycles /\ CycleOf(p) \subseteq g
  BY <1>1 DEF HamCycles, CycleOf
<1>3. ends(c) \in CycleOf(p)
  BY DEF CycleOf
<1>. QED
  BY <1>2, <1>3, ChordFacts DEF HasSecondCycle

LEMMA CycleEdge ==
    ASSUME NEW a \in V, NEW b \in V,
           b = a + 1 \/ a = b + 1 \/ (a = N - 1 /\ b = 0) \/ (a = 0 /\ b = N - 1)
    PROVE  Edge(a, b) \in Cycle
<1>1. a \in Nat /\ a < N /\ b \in Nat /\ b < N
  BY VFacts DEF V
<1>2. \A k \in V : Edge(k, Mod(k + 1)) \in Cycle
  BY DEF Cycle
<1>3. Mod(a + 1) = (IF a + 1 < N THEN a + 1 ELSE a + 1 - N)
      /\ Mod(b + 1) = (IF b + 1 < N THEN b + 1 ELSE b + 1 - N)
  BY <1>1, ModFacts, VFacts
<1>4. b = Mod(a + 1) \/ a = Mod(b + 1)
  BY <1>1, <1>3, VFacts
<1>5. Edge(a, b) = Edge(b, a)
  BY DEF Edge
<1>. QED
  BY <1>2, <1>4, <1>5

(***************************************************************************)
(* Rules 1, 2 and 3 of PropOptimized.propagate: with the chord (x,y), the  *)
(* edges a rule asks for and the edge it excludes, a graph that contains   *)
(* the fixed cycle has a second one.  Each proof gives that cycle.         *)
(***************************************************************************)

\* x+1, .., y, then x, x-1, .., y+1.
LEMMA Rule1Closes ==
    ASSUME NEW g, Cycle \subseteq g, NEW c \in Chords, ends(c) \in g,
           Edge(Mod(c[1] + 1), Mod(c[2] + 1)) \in g
    PROVE  HasSecondCycle(g)
<1>. DEFINE x == c[1]
            y == c[2]
            p == [k \in V |-> IF k < y - x THEN x + 1 + k
                              ELSE IF k <= y THEN y - k ELSE y - k + N]
<1>1. x \in Nat /\ y \in Nat /\ y < N /\ y - x >= 2 /\ y - x <= N - 2 /\ N \in Nat /\ N >= 3
  BY ChordFacts, VFacts DEF V
<1>2. \A k \in V : k \in Nat /\ k < N
  BY VFacts DEF V
<1>3. p \in [V -> V]
  BY <1>1, <1>2 DEF V
<1>4. \A j, k \in V : p[j] = p[k] => j = k
  BY <1>1, <1>2
<1>5. Mod(x + 1) = x + 1 /\ Mod(y + 1) = IF y = N - 1 THEN 0 ELSE y + 1
  BY <1>1, ModFacts
<1>6. ASSUME NEW k \in V  PROVE Edge(p[k], p[Mod(k + 1)]) \in g
  <2>1. Mod(k + 1) = IF k = N - 1 THEN 0 ELSE k + 1
    BY <1>1, <1>2, ModFacts
  <2>2. Mod(k + 1) \in V
    BY <1>1, <1>2, <2>1 DEF V
  <2>3. CASE k = y - x - 1
    <3>1. p[k] = y /\ p[Mod(k + 1)] = x
      BY <1>1, <1>2, <2>1, <2>2, <2>3
    <3>. QED
      BY <3>1 DEF ends, Edge
  <2>4. CASE k = N - 1
    <3>1. p[k] = Mod(y + 1) /\ p[Mod(k + 1)] = x + 1
      BY <1>1, <1>2, <1>5, <2>1, <2>2, <2>4
    <3>. QED
      BY <1>5, <3>1 DEF Edge
  <2>5. CASE k # y - x - 1 /\ k # N - 1
    <3>1. \/ p[Mod(k + 1)] = p[k] + 1 \/ p[k] = p[Mod(k + 1)] + 1
          \/ p[k] = 0 /\ p[Mod(k + 1)] = N - 1
      BY <1>1, <1>2, <2>1, <2>2, <2>5
    <3>2. p[k] \in V /\ p[Mod(k + 1)] \in V
      BY <1>3, <2>2
    <3>. HIDE DEF p
    <3>. QED
      BY <3>1, <3>2, CycleEdge
  <2>. QED
    BY <2>3, <2>4, <2>5
<1>7. y - x - 1 \in V /\ ends(c) = Edge(p[y - x - 1], p[Mod(y - x - 1 + 1)])
  <2>1. y - x - 1 \in V /\ y - x \in V /\ Mod(y - x - 1 + 1) = y - x
    BY <1>1, ModFacts DEF V
  <2>2. p[y - x - 1] = y /\ p[y - x] = x
    BY <1>1, <2>1
  <2>. QED
    BY <2>1, <2>2 DEF ends, Edge
<1>. HIDE DEF p
<1>. QED
  BY <1>3, <1>4, <1>6, <1>7, SecondCycle

\* x+1, .., y-1, then y+k, .., y, then x, x-1, .., y+k+1.
LEMMA Rule2Closes ==
    ASSUME NEW g, Cycle \subseteq g, NEW c \in Chords, ends(c) \in g,
           NEW n \in 1 .. N, \A j \in 1 .. n : Mod(c[2] + j + 1) < c[1],
           Edge(Mod(c[2] + n), Mod(c[2] - 1)) \in g,
           Edge(Mod(c[1] + 1), Mod(c[2] + n + 1)) \in g
    PROVE  HasSecondCycle(g)
<1>. DEFINE x == c[1]
            y == c[2]
            z == y + n + 1 - N
            at(j) == 2 * y + n - x - 1 - j
            p == [j \in V |-> IF j < y - x - 1 THEN x + 1 + j
                              ELSE IF j <= y - x - 1 + n
                              THEN IF at(j) >= N THEN at(j) - N ELSE at(j)
                              ELSE y + n - j]
<1>1. x \in Nat /\ y \in Nat /\ y < N /\ y - x >= 2 /\ y - x <= N - 2 /\ N \in Nat /\ N >= 3
      /\ n \in Nat /\ n >= 1 /\ n <= N
  BY ChordFacts, VFacts DEF V
<1>2. \A k \in V : k \in Nat /\ k < N
  BY VFacts DEF V
<1>z. z \in Nat /\ z < x
  <2>1. \A j \in 1 .. n : Mod(y + j + 1) < x
    OBVIOUS
  <2>2. \A j \in 1 .. n : y + j + 1 < N => Mod(y + j + 1) = y + j + 1
    BY <1>1, ModFacts
  <2>3. y + n + 1 >= N
    BY <1>1, <2>1, <2>2
  <2>4. ASSUME y + n + 1 >= N + x  PROVE FALSE
    <3>1. N + x - y - 1 \in 1 .. n
      BY <1>1, <2>4
    <3>2. Mod(y + (N + x - y - 1) + 1) = x
      BY <1>1, ModFacts
    <3>. QED
      BY <1>1, <2>1, <3>1, <3>2
  <2>. QED
    BY <1>1, <2>3, <2>4
<1>3. p \in [V -> V]
  BY <1>1, <1>2, <1>z DEF V
<1>4. \A j, k \in V : p[j] = p[k] => j = k
  BY <1>1, <1>2, <1>z
<1>5. /\ Mod(x + 1) = x + 1 /\ Mod(y - 1) = y - 1 /\ Mod(y + n + 1) = z
      /\ Mod(y + n) = IF z = 0 THEN N - 1 ELSE z - 1
  BY <1>1, <1>z, ModFacts
<1>6. ASSUME NEW k \in V  PROVE Edge(p[k], p[Mod(k + 1)]) \in g
  <2>1. Mod(k + 1) = IF k = N - 1 THEN 0 ELSE k + 1
    BY <1>1, <1>2, ModFacts
  <2>2. Mod(k + 1) \in V
    BY <1>1, <1>2, <2>1 DEF V
  <2>3. CASE k = y - x - 2
    <3>0. Mod(k + 1) = y - x - 1 /\ y - x - 1 \in V
      BY <1>1, <1>2, <2>1, <2>2, <2>3
    <3>1. p[k] = Mod(y - 1)
      BY <1>1, <1>2, <1>5, <2>3
    <3>2. p[y - x - 1] = Mod(y + n)
      BY <1>1, <1>z, <1>5, <3>0
    <3>. QED
      BY <3>0, <3>1, <3>2 DEF Edge
  <2>4. CASE k = y - x - 1 + n
    <3>1. p[k] = y /\ p[Mod(k + 1)] = x
      BY <1>1, <1>2, <1>z, <2>1, <2>2, <2>4
    <3>. QED
      BY <3>1 DEF ends, Edge
  <2>5. CASE k = N - 1
    <3>1. p[k] = Mod(y + n + 1) /\ p[Mod(k + 1)] = Mod(x + 1)
      BY <1>1, <1>2, <1>z, <1>5, <2>1, <2>2, <2>5
    <3>. QED
      BY <3>1 DEF Edge
  <2>6. CASE k # y - x - 2 /\ k # y - x - 1 + n /\ k # N - 1
    <3>0. Mod(k + 1) = k + 1 /\ k + 1 \in V
      BY <2>1, <2>2, <2>6
    <3>1. \/ p[Mod(k + 1)] = p[k] + 1 \/ p[k] = p[Mod(k + 1)] + 1
          \/ p[k] = 0 /\ p[Mod(k + 1)] = N - 1
      <4>1. CASE k < y - x - 2
        BY <1>1, <1>2, <3>0, <4>1
      <4>2. CASE k > y - x - 2 /\ k < y - x - 1 + n
        <5>1. p[k] = IF at(k) >= N THEN at(k) - N ELSE at(k)
          BY <1>1, <1>2, <4>2
        <5>2. p[k + 1] = IF at(k + 1) >= N THEN at(k + 1) - N ELSE at(k + 1)
          BY <1>1, <1>2, <3>0, <4>2
        <5>3. at(k + 1) = at(k) - 1 /\ at(k) \in Int
          BY <1>1, <1>2
        <5>. HIDE DEF p, at
        <5>. QED
          BY <1>1, <3>0, <5>1, <5>2, <5>3
      <4>3. CASE k > y - x - 1 + n
        BY <1>1, <1>2, <1>z, <3>0, <4>3
      <4>4. k < y - x - 2 \/ (k > y - x - 2 /\ k < y - x - 1 + n) \/ k > y - x - 1 + n
        BY <1>1, <1>2, <2>6
      <4>. HIDE DEF p
      <4>. QED
        BY <4>1, <4>2, <4>3, <4>4
    <3>2. p[k] \in V /\ p[Mod(k + 1)] \in V
      BY <1>3, <2>2
    <3>. HIDE DEF p
    <3>. QED
      BY <3>1, <3>2, CycleEdge
  <2>. QED
    BY <2>3, <2>4, <2>5, <2>6
<1>7. y - x - 1 + n \in V /\ ends(c) = Edge(p[y - x - 1 + n], p[Mod(y - x - 1 + n + 1)])
  <2>1. y - x - 1 + n \in V /\ y - x + n \in V /\ Mod(y - x - 1 + n + 1) = y - x + n
    BY <1>1, <1>z, ModFacts DEF V
  <2>2. p[y - x - 1 + n] = y /\ p[y - x + n] = x
    BY <1>1, <1>z, <2>1
  <2>. QED
    BY <2>1, <2>2 DEF ends, Edge
<1>. HIDE DEF p
<1>. QED
  BY <1>3, <1>4, <1>6, <1>7, SecondCycle

\* x, .., y-k-1, then x-1, x-2, .., y+1, then y-k, .., y.
LEMMA Rule3Closes ==
    ASSUME NEW g, Cycle \subseteq g, NEW c \in Chords, ends(c) \in g,
           NEW n \in 1 .. N, \A j \in 1 .. n : Mod(c[2] - j - 1) > c[1],
           Edge(Mod(c[2] - n), Mod(c[2] + 1)) \in g,
           Edge(Mod(c[1] - 1), Mod(c[2] - n - 1)) \in g
    PROVE  HasSecondCycle(g)
<1>. DEFINE x == c[1]
            y == c[2]
            at(j) == y - n - 1 - j
            p == [j \in V |-> IF j < y - n - x THEN x + j
                              ELSE IF j < N - n - 1
                              THEN IF at(j) < 0 THEN at(j) + N ELSE at(j)
                              ELSE y + 1 + j - N]
<1>1. x \in Nat /\ y \in Nat /\ y < N /\ y - x >= 2 /\ y - x <= N - 2 /\ N \in Nat /\ N >= 3
      /\ n \in Nat /\ n >= 1 /\ n <= N
  BY ChordFacts, VFacts DEF V
<1>2. \A k \in V : k \in Nat /\ k < N
  BY VFacts DEF V
<1>z. y - n - 1 > x
  <2>1. \A j \in 1 .. n : Mod(y - j - 1) > x
    OBVIOUS
  <2>2. ASSUME y - n - 1 <= x  PROVE FALSE
    <3>1. y - x - 1 \in 1 .. n
      BY <1>1, <2>2
    <3>2. Mod(y - (y - x - 1) - 1) = x
      BY <1>1, ModFacts
    <3>. QED
      BY <1>1, <2>1, <3>1, <3>2
  <2>. QED
    BY <1>1, <2>2
<1>3. p \in [V -> V]
  BY <1>1, <1>2, <1>z DEF V
<1>4. \A j, k \in V : p[j] = p[k] => j = k
  BY <1>1, <1>2, <1>z
<1>5. /\ Mod(x - 1) = (IF x = 0 THEN N - 1 ELSE x - 1) /\ Mod(y - n) = y - n
      /\ Mod(y - n - 1) = y - n - 1 /\ Mod(y + 1) = IF y = N - 1 THEN 0 ELSE y + 1
  BY <1>1, <1>z, ModFacts
<1>6. ASSUME NEW k \in V  PROVE Edge(p[k], p[Mod(k + 1)]) \in g
  <2>1. Mod(k + 1) = IF k = N - 1 THEN 0 ELSE k + 1
    BY <1>1, <1>2, ModFacts
  <2>2. Mod(k + 1) \in V
    BY <1>1, <1>2, <2>1 DEF V
  <2>3. CASE k = y - n - x - 1
    <3>1. p[k] = Mod(y - n - 1) /\ p[Mod(k + 1)] = Mod(x - 1)
      BY <1>1, <1>2, <1>z, <1>5, <2>1, <2>2, <2>3
    <3>. QED
      BY <3>1 DEF Edge
  <2>4. CASE k = N - n - 2
    <3>1. p[k] = Mod(y + 1) /\ p[Mod(k + 1)] = Mod(y - n)
      BY <1>1, <1>2, <1>z, <1>5, <2>1, <2>2, <2>4
    <3>. QED
      BY <3>1 DEF Edge
  <2>5. CASE k = N - 1
    <3>1. p[k] = y /\ p[Mod(k + 1)] = x
      BY <1>1, <1>2, <1>z, <2>1, <2>2, <2>5
    <3>. QED
      BY <3>1 DEF ends, Edge
  <2>6. CASE k # y - n - x - 1 /\ k # N - n - 2 /\ k # N - 1
    <3>0. Mod(k + 1) = k + 1 /\ k + 1 \in V
      BY <2>1, <2>2, <2>6
    <3>1. \/ p[Mod(k + 1)] = p[k] + 1 \/ p[k] = p[Mod(k + 1)] + 1
          \/ p[k] = 0 /\ p[Mod(k + 1)] = N - 1
      <4>1. CASE k < y - n - x - 1
        <5>1. p[k] = x + k /\ p[k + 1] = x + (k + 1)
          BY <1>1, <1>2, <3>0, <4>1
        <5>. QED
          BY <1>1, <1>2, <3>0, <5>1
      <4>2. CASE k > y - n - x - 1 /\ k < N - n - 2
        <5>1. p[k] = IF at(k) < 0 THEN at(k) + N ELSE at(k)
          BY <1>1, <1>2, <4>2
        <5>2. p[k + 1] = IF at(k + 1) < 0 THEN at(k + 1) + N ELSE at(k + 1)
          BY <1>1, <1>2, <3>0, <4>2
        <5>3. at(k + 1) = at(k) - 1 /\ at(k) \in Int
          BY <1>1, <1>2
        <5>. HIDE DEF p, at
        <5>. QED
          BY <1>1, <3>0, <5>1, <5>2, <5>3
      <4>3. CASE k > N - n - 2
        <5>1. p[k] = y + 1 + k - N /\ p[k + 1] = y + 1 + (k + 1) - N
          BY <1>1, <1>2, <1>z, <3>0, <4>3
        <5>. QED
          BY <1>1, <1>2, <3>0, <5>1
      <4>4. k < y - n - x - 1 \/ (k > y - n - x - 1 /\ k < N - n - 2) \/ k > N - n - 2
        BY <1>1, <1>2, <2>6
      <4>. HIDE DEF p
      <4>. QED
        BY <4>1, <4>2, <4>3, <4>4
    <3>2. p[k] \in V /\ p[Mod(k + 1)] \in V
      BY <1>3, <2>2
    <3>. HIDE DEF p
    <3>. QED
      BY <3>1, <3>2, CycleEdge
  <2>. QED
    BY <2>3, <2>4, <2>5, <2>6
<1>7. N - 1 \in V /\ ends(c) = Edge(p[N - 1], p[Mod(N - 1 + 1)])
  <2>1. N - 1 \in V /\ 0 \in V /\ Mod(N - 1 + 1) = 0
    BY <1>1, ModFacts, VFacts
  <2>2. p[N - 1] = y /\ p[0] = x
    BY <1>1, <1>z, <2>1
  <2>. QED
    BY <2>1, <2>2 DEF ends, Edge
<1>. HIDE DEF p
<1>. QED
  BY <1>3, <1>4, <1>6, <1>7, SecondCycle

\* An order meets every vertex.
LEMMA OrderOnto ==
    ASSUME NEW p \in Orders
    PROVE  /\ p \in [V -> V] /\ \A j, k \in V : p[j] = p[k] => j = k
           /\ \A x \in V : \E k \in V : p[k] = x
<1>1. p \in [V -> V] /\ \A j, k \in V : p[j] = p[k] => j = k
  BY DEF Orders
<1>2. p \in Injection(V, V)
  BY <1>1, Fun_IsInj
<1>3. p \in Surjection(V, V)
  BY <1>2, VFacts, FS_Injection
<1>. QED
  BY <1>1, <1>3, Fun_SurjectionProperties

\* A Hamiltonian cycle can be read from either end of each of its edges.
LEMMA ReadFrom ==
    ASSUME NEW c \in HamCycles, NEW x \in V, NEW y \in V, x # y, Edge(x, y) \in c
    PROVE  \E p \in Orders : p[0] = x /\ p[1] = y /\ c = CycleOf(p)
<1>1. PICK q \in Orders : c = CycleOf(q)
  BY DEF HamCycles
<1>2. q \in [V -> V] /\ \A j, k \in V : q[j] = q[k] => j = k
  BY DEF Orders
<1>3. PICK m \in V : Edge(x, y) = Edge(q[m], q[Mod(m + 1)])
  BY <1>1 DEF CycleOf
<1>4. N \in Nat /\ N >= 3 /\ 0 \in V /\ 1 \in V /\ V = 0 .. N - 1
  BY VFacts DEF V
<1>5. ASSUME x = q[m], y = q[Mod(m + 1)]
      PROVE  \E p \in Orders : p[0] = x /\ p[1] = y /\ c = CycleOf(p)
  <2>. DEFINE p == [k \in V |-> q[Mod(m + k)]]
  <2>1. ASSUME NEW k \in V
        PROVE  /\ Mod(m + k) \in V /\ Mod(m + Mod(k + 1)) = Mod(Mod(m + k) + 1)
               /\ Mod(k + 1) \in V /\ p[k] = q[Mod(m + k)]
    <3>1. /\ Mod(m + k) = IF m + k < N THEN m + k ELSE m + k - N
          /\ Mod(k + 1) = IF k + 1 < N THEN k + 1 ELSE 0
      BY <1>4, ModFacts
    <3>2. Mod(m + k) \in V /\ Mod(k + 1) \in V
      BY <1>4, <3>1
    <3>3. /\ Mod(m + Mod(k + 1)) = IF m + Mod(k + 1) < N THEN m + Mod(k + 1) ELSE m + Mod(k + 1) - N
          /\ Mod(Mod(m + k) + 1) = IF Mod(m + k) + 1 < N THEN Mod(m + k) + 1 ELSE 0
      BY <1>4, <3>2, ModFacts
    <3>4. Mod(m + Mod(k + 1)) = Mod(Mod(m + k) + 1)
      <4>1. CASE k = N - 1
        BY <1>4, <3>1, <3>3, <4>1
      <4>2. CASE k # N - 1
        <5>1. Mod(k + 1) = k + 1
          BY <1>4, <3>1, <4>2
        <5>. QED
          BY <1>4, <3>1, <3>3, <5>1
      <4>. QED
        BY <4>1, <4>2
    <3>. QED
      BY <3>2, <3>4
  <2>2. \A j, k \in V : Mod(m + j) = Mod(m + k) => j = k
    <3>1. TAKE j \in V, k \in V
    <3>2. /\ Mod(m + k) = IF m + k < N THEN m + k ELSE m + k - N
          /\ Mod(m + j) = IF m + j < N THEN m + j ELSE m + j - N
      BY <1>4, ModFacts
    <3>. QED
      BY <1>4, <3>2
  <2>3. \A t \in V : \E k \in V : Mod(m + k) = t
    <3>1. TAKE t \in V
    <3>. DEFINE k == IF t >= m THEN t - m ELSE t - m + N
    <3>2. k \in V
      BY <1>4
    <3>3. Mod(m + k) = IF m + k < N THEN m + k ELSE m + k - N
      BY <1>4, <3>2, ModFacts
    <3>4. Mod(m + k) = t
      BY <1>4, <3>2, <3>3
    <3>. QED
      BY <3>2, <3>4
  <2>4. p \in [V -> V]
    <3>1. \A k \in V : q[Mod(m + k)] \in V
      BY <1>2, <2>1
    <3>. QED
      BY <3>1
  <2>5. p[0] = x /\ p[1] = y
    <3>1. Mod(m + 0) = m
      BY <1>4, ModFacts
    <3>2. p[0] = q[Mod(m + 0)] /\ p[1] = q[Mod(m + 1)]
      BY <1>4
    <3>. QED
      BY <1>5, <3>1, <3>2
  <2>6. \A k \in V : Edge(p[k], p[Mod(k + 1)]) = Edge(q[Mod(m + k)], q[Mod(Mod(m + k) + 1)])
    BY <2>1
  <2>. HIDE DEF p
  <2>9. p \in Orders
    <3>1. \A j, k \in V : p[j] = p[k] => j = k
      <4>1. TAKE j \in V, k \in V
      <4>2. p[j] = q[Mod(m + j)] /\ p[k] = q[Mod(m + k)] /\ Mod(m + j) \in V /\ Mod(m + k) \in V
        BY <2>1
      <4>. QED
        BY <1>2, <2>2, <4>2
    <3>. QED
      BY <2>4, <3>1 DEF Orders
  <2>7. CycleOf(p) \subseteq CycleOf(q)
    BY <2>1, <2>6 DEF CycleOf
  <2>8. CycleOf(q) \subseteq CycleOf(p)
    <3>1. SUFFICES ASSUME NEW t \in V  PROVE Edge(q[t], q[Mod(t + 1)]) \in CycleOf(p)
      BY DEF CycleOf
    <3>2. PICK k \in V : Mod(m + k) = t
      BY <2>3
    <3>. QED
      BY <2>6, <3>2 DEF CycleOf
  <2>. QED
    BY <1>1, <2>9, <2>5, <2>7, <2>8
<1>6. ASSUME x = q[Mod(m + 1)], y = q[m]
      PROVE  \E p \in Orders : p[0] = x /\ p[1] = y /\ c = CycleOf(p)
  <2>. DEFINE n == Mod(m + 1)
              p == [k \in V |-> q[Mod(n - k)]]
  <2>1. n \in V /\ n = IF m + 1 < N THEN m + 1 ELSE 0
    <3>1. Mod(m + 1) = IF m + 1 < N THEN m + 1 ELSE 0
      BY <1>4, ModFacts
    <3>. QED
      BY <1>4, <3>1
  <2>. HIDE DEF n
  <2>2. ASSUME NEW k \in V
        PROVE  /\ Mod(n - k) \in V /\ Mod(n - Mod(k + 1)) \in V
               /\ Mod(Mod(n - Mod(k + 1)) + 1) = Mod(n - k)
               /\ Mod(k + 1) \in V /\ p[k] = q[Mod(n - k)]
    <3>1. /\ Mod(n - k) = IF n - k < 0 THEN n - k + N ELSE n - k
          /\ Mod(k + 1) = IF k + 1 < N THEN k + 1 ELSE 0
      BY <1>4, <2>1, ModFacts
    <3>2. Mod(n - k) \in V /\ Mod(k + 1) \in V
      BY <1>4, <2>1, <3>1
    <3>3. Mod(n - Mod(k + 1)) = IF n - Mod(k + 1) < 0 THEN n - Mod(k + 1) + N ELSE n - Mod(k + 1)
      BY <1>4, <2>1, <3>2, ModFacts
    <3>4. Mod(n - Mod(k + 1)) \in V
      BY <1>4, <2>1, <3>2, <3>3
    <3>5. Mod(Mod(n - Mod(k + 1)) + 1) =
            IF Mod(n - Mod(k + 1)) + 1 < N THEN Mod(n - Mod(k + 1)) + 1 ELSE 0
      BY <1>4, <3>4, ModFacts
    <3>6. Mod(Mod(n - Mod(k + 1)) + 1) = Mod(n - k)
      <4>1. CASE k = N - 1
        BY <1>4, <2>1, <3>1, <3>3, <3>5, <4>1
      <4>2. CASE k # N - 1
        <5>1. Mod(k + 1) = k + 1
          BY <1>4, <3>1, <4>2
        <5>. QED
          BY <1>4, <2>1, <3>1, <3>3, <3>5, <5>1
      <4>. QED
        BY <4>1, <4>2
    <3>7. p[k] = q[Mod(n - k)]
      OBVIOUS
    <3>. QED
      BY <3>2, <3>4, <3>6, <3>7
  <2>3. \A j, k \in V : Mod(n - j) = Mod(n - k) => j = k
    <3>1. TAKE j \in V, k \in V
    <3>2. /\ Mod(n - k) = IF n - k < 0 THEN n - k + N ELSE n - k
          /\ Mod(n - j) = IF n - j < 0 THEN n - j + N ELSE n - j
      BY <1>4, <2>1, ModFacts
    <3>. QED
      BY <1>4, <2>1, <3>2
  <2>4. \A t \in V : \E k \in V : Mod(n - Mod(k + 1)) = t
    <3>1. TAKE t \in V
    <3>. DEFINE l == IF n >= t THEN n - t ELSE n - t + N
                k == IF l = 0 THEN N - 1 ELSE l - 1
    <3>2. l \in V /\ k \in V
      BY <1>4, <2>1
    <3>3. Mod(k + 1) = l
      <4>1. Mod(k + 1) = IF k + 1 < N THEN k + 1 ELSE 0
        BY <1>4, <3>2, ModFacts
      <4>. QED
        BY <1>4, <2>1, <3>2, <4>1
    <3>4. Mod(n - l) = IF n - l < 0 THEN n - l + N ELSE n - l
      BY <1>4, <2>1, <3>2, ModFacts
    <3>5. Mod(n - l) = t
      BY <1>4, <2>1, <3>4
    <3>. QED
      BY <3>2, <3>3, <3>5
  <2>5. p \in Orders
    <3>1. p \in [V -> V]
      BY <1>2, <2>2
    <3>. QED
      BY <1>2, <2>2, <2>3, <3>1 DEF Orders
  <2>6. p[0] = x /\ p[1] = y
    <3>1. Mod(n - 0) = n /\ Mod(n - 1) = m
      BY <1>4, <2>1, ModFacts
    <3>. QED
      BY <1>4, <1>6, <3>1 DEF n
  <2>7. \A k \in V : Edge(p[k], p[Mod(k + 1)]) =
             Edge(q[Mod(n - Mod(k + 1))], q[Mod(Mod(n - Mod(k + 1)) + 1)])
    <3>1. TAKE k \in V
    <3>2. p[k] = q[Mod(Mod(n - Mod(k + 1)) + 1)] /\ p[Mod(k + 1)] = q[Mod(n - Mod(k + 1))]
      BY <2>2
    <3>. QED
      BY <3>2 DEF Edge
  <2>. HIDE DEF p
  <2>8. CycleOf(p) \subseteq CycleOf(q)
    BY <2>2, <2>7 DEF CycleOf
  <2>9. CycleOf(q) \subseteq CycleOf(p)
    <3>1. SUFFICES ASSUME NEW t \in V  PROVE Edge(q[t], q[Mod(t + 1)]) \in CycleOf(p)
      BY DEF CycleOf
    <3>2. PICK k \in V : Mod(n - Mod(k + 1)) = t
      BY <2>4
    <3>. QED
      BY <2>7, <3>2 DEF CycleOf
  <2>. QED
    BY <1>1, <2>5, <2>6, <2>8, <2>9
<1>. QED
  BY <1>3, <1>5, <1>6, EdgeEnds

\* The other edge at the vertex a cycle is read from closes it.
LEMMA ClosingEdge ==
    ASSUME NEW p \in Orders, NEW d \in CycleOf(p), p[0] \in d, d # Edge(p[0], p[1])
    PROVE  /\ d = Edge(p[0], p[N - 1])
           /\ \A k \in 1 .. N - 1 : Edge(p[k - 1], p[k]) \in CycleOf(p) \ {d}
<1>1. p \in [V -> V] /\ \A j, k \in V : p[j] = p[k] => j = k
  BY DEF Orders
<1>2. N \in Nat /\ N >= 3 /\ 0 \in V /\ 1 \in V /\ N - 1 \in V /\ V = 0 .. N - 1
  BY VFacts DEF V
<1>3. PICK m \in V : d = Edge(p[m], p[Mod(m + 1)])
  BY DEF CycleOf
<1>4. Mod(m + 1) = IF m + 1 < N THEN m + 1 ELSE 0
  BY <1>2, ModFacts
<1>5. p[0] = p[m] \/ p[0] = p[Mod(m + 1)]
  BY <1>3 DEF Edge
<1>6. m # 0
  BY <1>2, <1>3, <1>4
<1>7. Mod(m + 1) \in V
  BY <1>2, <1>4
<1>8. Mod(m + 1) = 0
  BY <1>1, <1>2, <1>5, <1>6, <1>7
<1>9. m = N - 1
  BY <1>2, <1>4, <1>8
<1>10. d = Edge(p[0], p[N - 1])
  BY <1>3, <1>8, <1>9 DEF Edge
<1>11. ASSUME NEW k \in 1 .. N - 1
       PROVE  Edge(p[k - 1], p[k]) \in CycleOf(p) \ {d}
  <2>1. k - 1 \in V /\ k \in V /\ Mod(k - 1 + 1) = k
    BY <1>2, ModFacts
  <2>2. Edge(p[k - 1], p[k]) \in CycleOf(p)
    BY <2>1 DEF CycleOf
  <2>3. ASSUME Edge(p[k - 1], p[k]) = d  PROVE FALSE
    <3>1. \/ p[k - 1] = p[0] /\ p[k] = p[N - 1]
          \/ p[k - 1] = p[N - 1] /\ p[k] = p[0]
      BY <1>10, <2>3, EdgeEnds
    <3>2. (k - 1 = 0 /\ k = N - 1) \/ (k - 1 = N - 1 /\ k = 0)
      BY <1>1, <1>2, <2>1, <3>1
    <3>. QED
      BY <1>2, <3>2
  <2>. QED
    BY <2>2, <2>3
<1>. QED
  BY <1>10, <1>11

\* The fixed cycle has no Hamiltonian cycle but itself.
LEMMA OnlyCycle == ~ HasSecondCycle(Cycle)
<1>1. SUFFICES ASSUME NEW p \in Orders, CycleOf(p) \subseteq Cycle, NEW k \in V
               PROVE  Edge(k, Mod(k + 1)) \in CycleOf(p)
  BY DEF HasSecondCycle, HamCycles, Cycle
<1>2. /\ p \in [V -> V] /\ \A m, n \in V : p[m] = p[n] => m = n
      /\ \A x \in V : \E n \in V : p[n] = x
  BY OrderOnto
<1>3. N \in Nat /\ N >= 3 /\ V = 0 .. N - 1
  BY VFacts DEF V
<1>4. PICK n \in V : p[n] = k
  BY <1>2
<1>. DEFINE a == Mod(n + 1)
            b == Mod(n - 1)
<1>5. a \in V /\ b \in V /\ a # b /\ Mod(b + 1) = n
  <2>1. /\ a = IF n + 1 < N THEN n + 1 ELSE 0
        /\ b = IF n - 1 < 0 THEN N - 1 ELSE n - 1
    BY <1>3, ModFacts
  <2>2. b \in V
    BY <1>3, <2>1
  <2>3. Mod(b + 1) = IF b + 1 < N THEN b + 1 ELSE 0
    BY <1>3, <2>2, ModFacts
  <2>. QED
    BY <1>3, <2>1, <2>2, <2>3
<1>. HIDE DEF a, b
<1>6. Edge(k, p[a]) \in CycleOf(p) /\ Edge(p[b], k) \in CycleOf(p) /\ p[a] # p[b]
  BY <1>2, <1>4, <1>5 DEF CycleOf, a
<1>7. ASSUME NEW x \in V, Edge(k, x) \in Cycle
      PROVE  x = Mod(k + 1) \/ x = Mod(k - 1)
  <2>1. PICK m \in V : Edge(k, x) = Edge(m, Mod(m + 1))
    BY <1>7 DEF Cycle
  <2>2. (k = m /\ x = Mod(m + 1)) \/ (k = Mod(m + 1) /\ x = m)
    BY <2>1, EdgeEnds
  <2>3. /\ Mod(m + 1) = IF m + 1 < N THEN m + 1 ELSE 0
        /\ Mod(k - 1) = IF k - 1 < 0 THEN N - 1 ELSE k - 1
    BY <1>3, ModFacts
  <2>4. k = Mod(m + 1) => m = Mod(k - 1)
    BY <1>3, <2>3
  <2>. QED
    BY <2>2, <2>4
<1>8. Edge(p[b], k) = Edge(k, p[b]) /\ p[a] \in V /\ p[b] \in V
  BY <1>2, <1>5 DEF Edge
<1>9. p[a] = Mod(k + 1) \/ p[b] = Mod(k + 1)
  BY <1>1, <1>6, <1>7, <1>8
<1>. QED
  BY <1>6, <1>8, <1>9

\* The fixed cycle's edges join different vertices.
LEMMA CycleIn == Cycle \subseteq AllEdges
<1>1. ASSUME NEW i \in V  PROVE Edge(i, Mod(i + 1)) \in AllEdges
  <2>1. i \in Nat /\ i < N /\ N \in Nat /\ N >= 3
    BY VFacts DEF V
  <2>2. Mod(i + 1) = IF i + 1 < N THEN i + 1 ELSE 0
    BY <2>1, ModFacts
  <2>3. Mod(i + 1) \in V /\ Mod(i + 1) # i
    BY <2>1, <2>2 DEF V
  <2>. QED
    BY <2>3, EdgeIn
<1>. QED
  BY <1>1 DEF Cycle

\* On the fixed cycle a vertex has two neighbours.
LEMMA FixedNbrs ==
    ASSUME NEW x \in V, NEW y, Edge(x, y) \in Cycle
    PROVE  y = Mod(x + 1) \/ y = Mod(x - 1)
<1>1. PICK i \in V : Edge(x, y) = Edge(i, Mod(i + 1))
  BY DEF Cycle
<1>2. N \in Nat /\ N >= 3 /\ i \in Nat /\ i < N /\ x \in Nat /\ x < N
  BY VFacts DEF V
<1>3. CASE x = i /\ y = Mod(i + 1)
  BY <1>3
<1>4. CASE x = Mod(i + 1) /\ y = i
  <2>1. Mod(i + 1) = IF i + 1 < N THEN i + 1 ELSE i + 1 - N
    BY <1>2, ModFacts
  <2>2. Mod(x - 1) = IF x - 1 < 0 THEN x - 1 + N ELSE x - 1
    BY <1>2, ModFacts
  <2>. QED
    BY <1>2, <1>4, <2>1, <2>2
<1>. QED
  BY <1>1, <1>3, <1>4, EdgeEnds

\* Every edge is one of the fixed cycle or a chord.
LEMMA CycleOrChord ==
    ASSUME NEW d \in AllEdges, d \notin Cycle
    PROVE  \E c \in Chords : d = ends(c)
<1>1. PICK a \in V, b \in V : d = Edge(a, b) /\ a # b
  BY DEF AllEdges, Edge
<1>2. N \in Nat /\ N >= 3 /\ a \in Nat /\ b \in Nat /\ a < N /\ b < N
  BY VFacts DEF V
<1>3. ASSUME NEW x \in V, NEW y \in V, x < y, d = Edge(x, y)
      PROVE  \E c \in Chords : d = ends(c)
  <2>1. x \in Nat /\ y \in Nat /\ x < N /\ y < N
    BY VFacts DEF V
  <2>2. y # x + 1 /\ ~ (x = 0 /\ y = N - 1)
    BY <1>2, <1>3, CycleEdge
  <2>3. Mod(x - y) = x - y + N /\ Mod(y - x) = y - x
    BY <1>2, <1>3, <2>1, ModFacts
  <2>4. cycleDist(x, y) # 1
    BY <1>2, <1>3, <2>1, <2>2, <2>3 DEF cycleDist
  <2>5. <<x, y>> \in Chords /\ ends(<<x, y>>) = Edge(x, y)
    BY <1>3, <2>4 DEF Chords, Chord, ends
  <2>. QED
    BY <1>3, <2>5
<1>4. Edge(a, b) = Edge(b, a)
  BY DEF Edge
<1>. QED
  BY <1>1, <1>2, <1>3, <1>4
=============================================================================
