------------------------- MODULE LexImplicationsProofs -------------------------
(***************************************************************************)
(* LexImplications for every range of orders, either indexing and any      *)
(* embedded subgraph, whatever answers the solver gives and whichever      *)
(* redundant implications the reducer drops: the implications keep every   *)
(* lex leader, and what extend returns allows nothing else.                *)
(***************************************************************************)
EXTENDS LexImplications, TLAPS, FiniteSetTheorems, FunctionTheorems,
        WellFoundedInduction

-----------------------------------------------------------------------------
(***************************************************************************)
(* What permuting does to the edges and strings of a graph, for every      *)
(* order.                                                                  *)
(***************************************************************************)
\* A nonempty set of naturals has a least element.
LEMMA LeastOf ==
    ASSUME NEW T, T \subseteq Nat, T # {}
    PROVE  \E x \in T : \A y \in T : x <= y
<1>1. PICK x \in T : \A y \in T : ~ (<<y, x>> \in OpToRel(<, Nat))
  BY WFMin, NatLessThanWellFounded
<1>2. \A y \in T : ~ (y < x)
  BY <1>1 DEF OpToRel
<1>. QED
  BY <1>2

\* There are o * (o - 1) / 2 edges of order o.
LEMMA EdgesCount ==
    ASSUME NEW o \in Nat
    PROVE  IsFiniteSet(Edges(o)) /\ Cardinality(Edges(o)) = (o * (o - 1)) \div 2
<1>. DEFINE T(k) == (k * (k - 1)) \div 2
            Good(k) == IsFiniteSet(Edges(k)) /\ Cardinality(Edges(k)) = T(k)
            Bad == {k \in Nat : ~ Good(k)}
<1>1. Good(0)
  <2>1. Edges(0) = {}
    BY DEF Edges, Verts
  <2>. QED
    BY <2>1, FS_EmptySet
<1>2. ASSUME NEW k \in Nat, Good(k)
      PROVE  Good(k + 1)
  <2>. DEFINE New == {<<j, k>> : j \in 0 .. k - 1}
              f == [j \in 0 .. k - 1 |-> <<j, k>>]
  <2>1. Edges(k + 1) = Edges(k) \cup New
    <3>1. ASSUME NEW d \in Edges(k + 1)  PROVE d \in Edges(k) \cup New
      <4>1. d = <<d[1], d[2]>> /\ d[1] \in 0 .. k /\ d[2] \in 0 .. k /\ d[1] < d[2]
        BY <3>1 DEF Edges, Verts
      <4>2. CASE d[2] = k
        <5>1. d[1] \in 0 .. k - 1
          BY <4>1, <4>2
        <5>. QED
          BY <4>1, <4>2, <5>1
      <4>3. CASE d[2] # k
        BY <4>1, <4>3 DEF Edges, Verts
      <4>. QED
        BY <4>2, <4>3
    <3>2. Edges(k) \subseteq Edges(k + 1) /\ New \subseteq Edges(k + 1)
      BY DEF Edges, Verts
    <3>. QED
      BY <3>1, <3>2
  <2>2. Edges(k) \cap New = {}
    BY DEF Edges, Verts
  <2>3. f \in Injection(0 .. k - 1, New) /\ f \in Surjection(0 .. k - 1, New)
    BY Fun_IsInj, Fun_IsSurj
  <2>4. IsFiniteSet(0 .. k - 1) /\ Cardinality(0 .. k - 1) = k
    <3>1. IsFiniteSet(0 .. k - 1)
          /\ Cardinality(0 .. k - 1) = IF 0 > k - 1 THEN 0 ELSE k - 1 - 0 + 1
      BY FS_Interval
    <3>. QED
      BY <3>1
  <2>5. IsFiniteSet(New) /\ Cardinality(New) = k
    <3>. HIDE DEF f, New
    <3>. QED
      BY <2>3, <2>4, FS_Surjection
  <2>6. T(k + 1) = T(k) + k
    <3>1. (k + 1) * (k + 1 - 1) = k * (k - 1) + 2 * k
      OBVIOUS
    <3>2. ASSUME NEW a \in Int  PROVE (a + 2 * k) \div 2 = a \div 2 + k
      OBVIOUS
    <3>3. k * (k - 1) \in Int
      OBVIOUS
    <3>. QED
      BY <3>1, <3>2, <3>3
  <2>. HIDE DEF New, T
  <2>7. Cardinality(Edges(k) \cup New) = Cardinality(Edges(k)) + Cardinality(New) - Cardinality(Edges(k) \cap New)
        /\ IsFiniteSet(Edges(k) \cup New)
    BY <1>2, <2>5, FS_Union
  <2>8. Cardinality(Edges(k) \cap New) = 0
    BY <2>2, FS_EmptySet
  <2>9. Cardinality(Edges(k + 1)) = T(k) + k /\ IsFiniteSet(Edges(k + 1))
    <3>1. Cardinality(Edges(k)) = T(k) /\ Cardinality(Edges(k)) \in Nat
      BY <1>2, FS_CardinalityType
    <3>2. Cardinality(Edges(k) \cup New) = T(k) + k
      BY <2>5, <2>7, <2>8, <3>1
    <3>. QED
      BY <2>1, <2>7, <3>2
  <2>. QED
    BY <2>6, <2>9
<1>. HIDE DEF Good
<1>3. Bad = {}
  <2>1. SUFFICES ASSUME Bad # {}  PROVE FALSE
    OBVIOUS
  <2>2. PICK k \in Bad : \A j \in Bad : k <= j
    BY <2>1, LeastOf
  <2>3. k # 0
    BY <1>1, <2>2
  <2>4. k - 1 \in Nat /\ k - 1 \notin Bad /\ k = (k - 1) + 1
    BY <2>2, <2>3
  <2>. QED
    BY <1>2, <2>2, <2>4
<1>. QED
  BY <1>3 DEF Good

LEMMA EdgeFacts ==
    ASSUME NEW o \in Nat, NEW d \in Edges(o)
    PROVE  /\ d = <<d[1], d[2]>> /\ d[1] \in Verts(o) /\ d[2] \in Verts(o)
           /\ d[1] \in Nat /\ d[2] \in Nat /\ d[1] < d[2]
BY DEF Edges, Verts

\* A permutation maps edges to edges, no two to the same, and reaches them all.
LEMMA ImageFacts ==
    ASSUME NEW o \in 0 .. MaxOrder, NEW p \in Perms[o]
    PROVE  /\ \A d \in Edges(o) : Image(p, d) \in Edges(o)
           /\ \A c, d \in Edges(o) : Image(p, c) = Image(p, d) => c = d
           /\ \A d \in Edges(o) : \E c \in Edges(o) : Image(p, c) = d
<1>0. MaxOrder \in Nat /\ o \in Nat
  BY OrdersAssumption
<1>1. p \in [Verts(o) -> Verts(o)] /\ \A j, k \in Verts(o) : p[j] = p[k] => j = k
  BY DEF Perms
<1>2. \A x \in Verts(o) : Moved(p, x) = p[x]
  BY <1>1 DEF Moved
<1>3. Verts(o) \subseteq Nat
  BY DEF Verts
<1>4. ASSUME NEW d \in Edges(o)
      PROVE  /\ Image(p, d) = Pair(p[d[1]], p[d[2]])
             /\ p[d[1]] \in Verts(o) /\ p[d[2]] \in Verts(o) /\ p[d[1]] # p[d[2]]
  BY <1>0, <1>1, <1>2, <1>3, EdgeFacts DEF Image
<1>5. \A d \in Edges(o) : Image(p, d) \in Edges(o)
  <2>1. TAKE d \in Edges(o)
  <2>2. p[d[1]] < p[d[2]] \/ p[d[2]] < p[d[1]]
    BY <1>3, <1>4
  <2>. QED
    BY <1>3, <1>4, <2>2 DEF Pair, Edges
<1>6. \A c, d \in Edges(o) : Image(p, c) = Image(p, d) => c = d
  <2>1. SUFFICES ASSUME NEW c \in Edges(o), NEW d \in Edges(o), Image(p, c) = Image(p, d)
                 PROVE  c = d
    OBVIOUS
  <2>2. \/ p[c[1]] = p[d[1]] /\ p[c[2]] = p[d[2]]
        \/ p[c[1]] = p[d[2]] /\ p[c[2]] = p[d[1]]
    BY <1>4, <2>1 DEF Pair
  <2>3. \/ c[1] = d[1] /\ c[2] = d[2]
        \/ c[1] = d[2] /\ c[2] = d[1]
    BY <1>0, <1>1, <2>2, EdgeFacts
  <2>4. c[1] = d[1] /\ c[2] = d[2]
    BY <1>0, <2>3, EdgeFacts
  <2>. QED
    BY <1>0, <2>4, EdgeFacts
<1>7. \A d \in Edges(o) : \E c \in Edges(o) : Image(p, c) = d
  <2>. DEFINE f == [c \in Edges(o) |-> Image(p, c)]
  <2>1. f \in Injection(Edges(o), Edges(o))
    BY <1>5, <1>6, Fun_IsInj
  <2>. HIDE DEF f
  <2>2. f \in Surjection(Edges(o), Edges(o))
    BY <1>0, <2>1, EdgesCount, FS_Injection
  <2>3. \A d \in Edges(o) : \E c \in Edges(o) : f[c] = d
    BY <2>2, Fun_SurjectionProperties
  <2>. QED
    BY <2>3 DEF f
<1>. QED
  BY <1>5, <1>6, <1>7

\* Positions count from 1 to the number of edges, which only the last one has.
LEMMA PositionFacts ==
    ASSUME NEW o \in 0 .. MaxOrder, NEW d \in Edges(o)
    PROVE  /\ position[o][d] \in 1 .. Cardinality(Edges(o))
           /\ position[o][d] = Cardinality(Edges(o)) => Before(o, d) = Edges(o) \ {d}
<1>0. o \in Nat
  BY OrdersAssumption
<1>. DEFINE B == Before(o, d)
            R == Edges(o) \ {d}
<1>1. position[o][d] = Cardinality(B) + 1
  BY DEF position
<1>2. B \subseteq R
  BY <1>0, EdgeFacts DEF Before, Precedes
<1>3. IsFiniteSet(R) /\ Cardinality(R) = Cardinality(Edges(o)) - 1
  BY <1>0, EdgesCount, FS_RemoveElement
<1>4. Cardinality(Edges(o)) \in Nat /\ Cardinality(R) \in Nat
  BY <1>0, <1>3, EdgesCount, FS_CardinalityType
<1>. HIDE DEF B, R
<1>5. IsFiniteSet(B) /\ Cardinality(B) <= Cardinality(R) /\ (Cardinality(B) = Cardinality(R) => B = R)
  BY <1>2, <1>3, FS_Subset
<1>6. Cardinality(B) \in Nat
  BY <1>5, FS_CardinalityType
<1>. QED
  BY <1>1, <1>3, <1>4, <1>5, <1>6 DEF B, R

\* A graph and its permutation, which has as many edges, cannot differ in the
\* last bit alone: that is why compute() stops one length short of the string.
LEMMA LastBit ==
    ASSUME NEW o \in 0 .. MaxOrder, NEW g \in Graphs(o), NEW p \in Perms[o],
           NEW d \in Edges(o), Before(o, d) = Edges(o) \ {d}, SamePrefix(o, g, p, d), d \in g
    PROVE  Image(p, d) \in g
<1>1. SUFFICES ASSUME Image(p, d) \notin g  PROVE FALSE
  OBVIOUS
<1>. DEFINE h == {c \in Edges(o) : Image(p, c) \in g}
            f == [c \in h |-> Image(p, c)]
<1>2. o \in Nat /\ g \subseteq Edges(o)
  BY OrdersAssumption DEF Graphs
<1>3. h = g \ {d}
  BY <1>1, <1>2 DEF SamePrefix
<1>4. f \in Surjection(h, g)
  <2>1. f \in [h -> g]
    OBVIOUS
  <2>2. \A b \in g : \E c \in h : f[c] = b
    BY <1>2, ImageFacts
  <2>. HIDE DEF f, h
  <2>. QED
    BY <2>1, <2>2, Fun_IsSurj
<1>5. IsFiniteSet(g) /\ Cardinality(g) \in Nat
  BY <1>2, EdgesCount, FS_Subset, FS_CardinalityType
<1>6. IsFiniteSet(h) /\ Cardinality(h) = Cardinality(g) - 1
  BY <1>3, <1>5, FS_RemoveElement
<1>. HIDE DEF f, h
<1>7. Cardinality(g) <= Cardinality(h)
  BY <1>4, <1>6, FS_Surjection
<1>. QED
  BY <1>5, <1>6, <1>7

\* A permutation of a smaller order is one of the larger order.
LEMMA Extension ==
    ASSUME NEW o \in 0 .. MaxOrder, NEW m \in 0 .. o, NEW p \in Perms[m]
    PROVE  \E q \in Perms[o] : \A d \in Edges(o) : Image(q, d) = Image(p, d)
<1>. DEFINE q == [x \in Verts(o) |-> Moved(p, x)]
<1>0. o \in Nat /\ m \in Nat /\ m <= o /\ m \in 0 .. MaxOrder
  BY OrdersAssumption
<1>1. p \in [Verts(m) -> Verts(m)] /\ \A j, k \in Verts(m) : p[j] = p[k] => j = k
  BY <1>0 DEF Perms
<1>2. DOMAIN p = Verts(m) /\ Verts(m) \subseteq Verts(o)
  BY <1>0, <1>1 DEF Verts
<1>3. q \in [Verts(o) -> Verts(o)]
  BY <1>1, <1>2 DEF Moved
<1>4. \A j, k \in Verts(o) : q[j] = q[k] => j = k
  BY <1>1, <1>2 DEF Moved
<1>5. q \in Perms[o]
  <2>. HIDE DEF q
  <2>. QED
    BY <1>3, <1>4 DEF Perms
<1>6. \A d \in Edges(o) : Image(q, d) = Image(p, d)
  <2>1. TAKE d \in Edges(o)
  <2>2. \A x \in Verts(o) : Moved(q, x) = Moved(p, x)
    BY DEF Moved
  <2>. QED
    BY <1>0, <2>2, EdgeFacts DEF Image
<1>. QED
  BY <1>5, <1>6

\* A lex leader satisfies every lex implication, of its order or a smaller one.
LEMMA LeaderSatisfies ==
    ASSUME NEW o \in 0 .. MaxOrder, NEW g \in LexLeaders[o],
           NEW imp, NEW m \in 0 .. o, imp.perm \in Perms[m]
    PROVE  Satisfies(o, g, imp)
<1>1. SUFFICES ASSUME NEW d \in Edges(o), SamePrefix(o, g, imp.perm, d), d \in g,
                      Image(imp.perm, d) \notin g
               PROVE  FALSE
  BY DEF Satisfies
<1>2. PICK q \in Perms[o] : \A c \in Edges(o) : Image(q, c) = Image(imp.perm, c)
  BY Extension
<1>3. SamePrefix(o, g, q, d)
  BY <1>1, <1>2 DEF SamePrefix, Before
<1>4. Smaller(o, g, q)
  BY <1>1, <1>2, <1>3 DEF Smaller
<1>. QED
  BY <1>2, <1>4 DEF LexLeaders

(***************************************************************************)
(* Each class of graphs has one lex leader.                                *)
(***************************************************************************)

\* A strict order on a nonempty finite set has a minimal element.
LEMMA MinimalIn ==
    ASSUME NEW T, IsFiniteSet(T), T # {}, NEW R,
           \A x \in T : <<x, x>> \notin R,
           \A x, y, z \in T : <<x, y>> \in R /\ <<y, z>> \in R => <<x, z>> \in R
    PROVE  \E x \in T : \A y \in T : <<y, x>> \notin R
<1>. DEFINE below(x) == {y \in T : <<y, x>> \in R}
            C(x) == Cardinality(below(x))
            S == {C(x) : x \in T}
<1>1. ASSUME NEW x  PROVE IsFiniteSet(below(x)) /\ C(x) \in Nat
  <2>1. below(x) \subseteq T
    OBVIOUS
  <2>. QED
    BY <2>1, FS_Subset, FS_CardinalityType
<1>. HIDE DEF C
<1>2. S \subseteq Nat /\ S # {}
  <2>1. \A x \in T : C(x) \in Nat
    BY <1>1
  <2>2. PICK x \in T : TRUE
    OBVIOUS
  <2>3. C(x) \in S
    OBVIOUS
  <2>. QED
    BY <2>1, <2>3
<1>3. \E m \in S : \A k \in S : m <= k
  <2>. HIDE DEF S
  <2>. QED
    BY <1>2, LeastOf
<1>4. PICK x \in T : \A k \in S : C(x) <= k
  BY <1>3
<1>5. ASSUME NEW y \in T, <<y, x>> \in R  PROVE FALSE
  <2>1. below(y) \subseteq below(x) /\ y \in below(x) /\ y \notin below(y)
    BY <1>5
  <2>. HIDE DEF below
  <2>2. C(y) <= C(x) /\ (C(y) = C(x) => below(y) = below(x))
    BY <1>1, <2>1, FS_Subset DEF C
  <2>3. C(y) < C(x)
    BY <1>1, <2>1, <2>2
  <2>4. C(y) \in S
    OBVIOUS
  <2>5. C(x) <= C(y)
    BY <1>4, <2>4
  <2>. QED
    BY <1>1, <2>3, <2>5
<1>. QED
  BY <1>5

\* The strings list the pairs in a strict total order.
LEMMA PrecedesFacts ==
    ASSUME NEW o \in Nat, NEW a \in Edges(o), NEW b \in Edges(o)
    PROVE  /\ ~ Precedes(a, a)
           /\ a # b => Precedes(a, b) \/ Precedes(b, a)
           /\ Precedes(a, b) => a \in Before(o, b) /\ Before(o, a) \subseteq Before(o, b)
<1>1. /\ a = <<a[1], a[2]>> /\ a[1] \in Nat /\ a[2] \in Nat
      /\ b = <<b[1], b[2]>> /\ b[1] \in Nat /\ b[2] \in Nat
  BY EdgeFacts
<1>2. ~ Precedes(a, a)
  BY <1>1 DEF Precedes
<1>3. a # b => Precedes(a, b) \/ Precedes(b, a)
  <2>1. a # b => a[1] # b[1] \/ a[2] # b[2]
    BY <1>1
  <2>. QED
    BY <1>1, <2>1 DEF Precedes
<1>4. ASSUME Precedes(a, b), NEW c \in Edges(o), Precedes(c, a)  PROVE Precedes(c, b)
  <2>1. c[1] \in Nat /\ c[2] \in Nat
    BY EdgeFacts
  <2>. QED
    BY <1>1, <1>4, <2>1 DEF Precedes
<1>. QED
  BY <1>2, <1>3, <1>4 DEF Before

(***************************************************************************)
(* The order of the graphs by their strings.                               *)
(***************************************************************************)
Less(o, g, h) ==
    \E d \in Edges(o) : /\ \A c \in Before(o, d) : c \in g <=> c \in h
                        /\ d \notin g /\ d \in h

LEMMA LessIrreflexive == ASSUME NEW o, NEW g  PROVE ~ Less(o, g, g)
BY DEF Less

LEMMA LessTransitive ==
    ASSUME NEW o \in Nat, NEW x, NEW y, NEW z, Less(o, x, y), Less(o, y, z)
    PROVE  Less(o, x, z)
<1>1. PICK a \in Edges(o) : (\A c \in Before(o, a) : c \in x <=> c \in y) /\ a \notin x /\ a \in y
  BY DEF Less
<1>2. PICK b \in Edges(o) : (\A c \in Before(o, b) : c \in y <=> c \in z) /\ b \notin y /\ b \in z
  BY DEF Less
<1>3. CASE Precedes(a, b)
  <2>1. a \in Before(o, b) /\ Before(o, a) \subseteq Before(o, b)
    BY <1>3, PrecedesFacts
  <2>. QED
    BY <1>1, <1>2, <2>1 DEF Less
<1>4. CASE Precedes(b, a)
  <2>1. b \in Before(o, a) /\ Before(o, b) \subseteq Before(o, a)
    BY <1>4, PrecedesFacts
  <2>. QED
    BY <1>1, <1>2, <2>1 DEF Less
<1>. QED
  BY <1>1, <1>2, <1>3, <1>4, PrecedesFacts

LEMMA LessTotal ==
    ASSUME NEW o \in Nat, NEW g \in Graphs(o), NEW h \in Graphs(o), g # h
    PROVE  Less(o, g, h) \/ Less(o, h, g)
<1>. DEFINE T == {d \in Edges(o) : ~ (d \in g <=> d \in h)}
            R == {c \in T \X T : Precedes(c[1], c[2])}
<1>1. T # {} /\ T \subseteq Edges(o)
  BY DEF Graphs
<1>2. IsFiniteSet(T)
  BY <1>1, EdgesCount, FS_Subset
<1>3. \A x \in T : <<x, x>> \notin R
  BY PrecedesFacts
<1>4. \A x, y \in T : <<x, y>> \in R <=> Precedes(x, y)
  OBVIOUS
<1>5. \A x, y, z \in T : Precedes(x, y) /\ Precedes(y, z) => Precedes(x, z)
  BY PrecedesFacts DEF Before
<1>6. PICK d \in T : \A c \in T : <<c, d>> \notin R
  <2>. HIDE DEF T, R
  <2>1. \A x, y, z \in T : <<x, y>> \in R /\ <<y, z>> \in R => <<x, z>> \in R
    BY <1>4, <1>5
  <2>. QED
    BY <1>1, <1>2, <1>3, <2>1, MinimalIn
<1>7. \A c \in Before(o, d) : c \in g <=> c \in h
  BY <1>4, <1>6 DEF Before
<1>. QED
  BY <1>6, <1>7 DEF Less

\* Smaller compares a graph with its image in this order.
LEMMA SmallerIsLess ==
    ASSUME NEW o, NEW g, NEW p
    PROVE  Smaller(o, g, p) <=> Less(o, Permuted(o, g, p), g)
<1>1. \A d \in Edges(o) : Before(o, d) \subseteq Edges(o)
  BY DEF Before
<1>. QED
  BY <1>1 DEF Smaller, SamePrefix, Less, Permuted

(***************************************************************************)
(* Permutations form a group, and isomorphism is an equivalence.           *)
(***************************************************************************)
LEMMA ComposedImage ==
    ASSUME NEW o \in 0 .. MaxOrder, NEW p \in Perms[o], NEW q \in Perms[o]
    PROVE  \E r \in Perms[o] : \A d \in Edges(o) : Image(r, d) = Image(p, Image(q, d))
<1>. DEFINE r == [x \in Verts(o) |-> p[q[x]]]
<1>0. o \in Nat
  BY OrdersAssumption
<1>1. /\ p \in [Verts(o) -> Verts(o)] /\ \A j, k \in Verts(o) : p[j] = p[k] => j = k
      /\ q \in [Verts(o) -> Verts(o)] /\ \A j, k \in Verts(o) : q[j] = q[k] => j = k
  BY DEF Perms
<1>2. r \in [Verts(o) -> Verts(o)] /\ \A j, k \in Verts(o) : r[j] = r[k] => j = k
  BY <1>1
<1>3. r \in Perms[o]
  BY <1>2 DEF Perms
<1>4. \A x \in Verts(o) : Moved(r, x) = Moved(p, Moved(q, x)) /\ Moved(q, x) \in Verts(o)
  BY <1>1, <1>2 DEF Moved
<1>5. ASSUME NEW d \in Edges(o)  PROVE Image(r, d) = Image(p, Image(q, d))
  <2>1. /\ d[1] \in Verts(o) /\ d[2] \in Verts(o) /\ d[1] # d[2] /\ Verts(o) \subseteq Int
    BY <1>0, EdgeFacts DEF Verts
  <2>. DEFINE a == Moved(q, d[1])
              b == Moved(q, d[2])
  <2>2. /\ a \in Verts(o) /\ b \in Verts(o) /\ a # b
        /\ Moved(p, a) = p[a] /\ Moved(p, b) = p[b] /\ p[a] \in Verts(o) /\ p[b] \in Verts(o)
        /\ p[a] # p[b]
    BY <1>1, <2>1 DEF Moved
  <2>3. Image(r, d) = Pair(Moved(p, a), Moved(p, b)) /\ Image(q, d) = Pair(a, b)
    BY <1>4, <2>1 DEF Image
  <2>. HIDE DEF a, b
  <2>4. Image(p, Pair(a, b)) = Pair(Moved(p, a), Moved(p, b))
    <3>1. CASE a < b
      BY <3>1 DEF Image, Pair
    <3>2. CASE ~ (a < b)
      <4>1. Pair(a, b) = <<b, a>>
        BY <3>2 DEF Pair
      <4>2. Image(p, Pair(a, b)) = Pair(Moved(p, b), Moved(p, a))
        BY <4>1 DEF Image
      <4>3. p[a] \in Int /\ p[b] \in Int
        BY <2>1, <2>2
      <4>4. Pair(p[a], p[b]) = Pair(p[b], p[a])
        BY <2>2, <4>3 DEF Pair
      <4>. QED
        BY <2>2, <4>2, <4>4
    <3>. QED
      BY <3>1, <3>2
  <2>. QED
    BY <2>3, <2>4
<1>. QED
  BY <1>3, <1>5

LEMMA IsomorphicTransitive ==
    ASSUME NEW o \in 0 .. MaxOrder, NEW f, NEW g, NEW h, Isomorphic(o, f, g), Isomorphic(o, g, h)
    PROVE  Isomorphic(o, f, h)
<1>1. PICK p \in Perms[o] : g = Permuted(o, f, p)
  BY DEF Isomorphic
<1>2. PICK q \in Perms[o] : h = Permuted(o, g, q)
  BY DEF Isomorphic
<1>3. PICK r \in Perms[o] : \A d \in Edges(o) : Image(r, d) = Image(p, Image(q, d))
  BY ComposedImage
<1>4. \A d \in Edges(o) : Image(q, d) \in Edges(o)
  BY ImageFacts
<1>5. h = Permuted(o, f, r)
  BY <1>1, <1>2, <1>3, <1>4 DEF Permuted
<1>. QED
  BY <1>5 DEF Isomorphic

\* A permutation has an inverse.
LEMMA InverseImage ==
    ASSUME NEW o \in 0 .. MaxOrder, NEW p \in Perms[o]
    PROVE  \E q \in Perms[o] : \A d \in Edges(o) : Image(p, Image(q, d)) = d
<1>0. o \in Nat
  BY OrdersAssumption
<1>1. p \in [Verts(o) -> Verts(o)] /\ \A j, k \in Verts(o) : p[j] = p[k] => j = k
  BY DEF Perms
<1>2. \A x \in Verts(o) : \E y \in Verts(o) : p[y] = x
  <2>1. IsFiniteSet(Verts(o))
    <3>1. 0 \in Int /\ o - 1 \in Int
      BY <1>0
    <3>2. IsFiniteSet(0 .. o - 1)
      BY <3>1, FS_Interval
    <3>. QED
      BY <3>2 DEF Verts
  <2>2. p \in Injection(Verts(o), Verts(o))
    BY <1>1, Fun_IsInj
  <2>3. p \in Surjection(Verts(o), Verts(o))
    BY <2>1, <2>2, FS_Injection
  <2>. QED
    BY <2>3, Fun_SurjectionProperties
<1>. DEFINE q == [x \in Verts(o) |-> CHOOSE y \in Verts(o) : p[y] = x]
<1>3. \A x \in Verts(o) : q[x] \in Verts(o) /\ p[q[x]] = x
  BY <1>2
<1>4. q \in [Verts(o) -> Verts(o)]
  BY <1>3
<1>. HIDE DEF q
<1>5. q \in Perms[o]
  <2>1. \A j, k \in Verts(o) : q[j] = q[k] => j = k
    BY <1>3
  <2>. QED
    BY <1>4, <2>1 DEF Perms
<1>6. ASSUME NEW d \in Edges(o)  PROVE Image(p, Image(q, d)) = d
  <2>1. /\ d = <<d[1], d[2]>> /\ d[1] \in Verts(o) /\ d[2] \in Verts(o)
        /\ d[1] \in Nat /\ d[2] \in Nat /\ d[1] < d[2]
    BY <1>0, EdgeFacts
  <2>2. Image(q, d) = Pair(q[d[1]], q[d[2]])
    BY <1>4, <2>1 DEF Image, Moved
  <2>3. \A x \in Verts(o) : Moved(p, q[x]) = x
    BY <1>1, <1>3 DEF Moved
  <2>4. CASE q[d[1]] < q[d[2]]
    <3>1. Image(p, Image(q, d)) = Pair(Moved(p, q[d[1]]), Moved(p, q[d[2]]))
      BY <2>2, <2>4 DEF Pair, Image
    <3>2. Image(p, Image(q, d)) = Pair(d[1], d[2])
      BY <2>1, <2>3, <3>1
    <3>. QED
      BY <2>1, <3>2 DEF Pair
  <2>5. CASE ~ (q[d[1]] < q[d[2]])
    <3>1. Image(p, Image(q, d)) = Pair(Moved(p, q[d[2]]), Moved(p, q[d[1]]))
      BY <2>2, <2>5 DEF Pair, Image
    <3>2. Image(p, Image(q, d)) = Pair(d[2], d[1])
      BY <2>1, <2>3, <3>1
    <3>3. ~ (d[2] < d[1])
      BY <2>1
    <3>. QED
      BY <2>1, <3>2, <3>3 DEF Pair
  <2>. QED
    BY <2>4, <2>5
<1>. QED
  BY <1>5, <1>6

LEMMA IsomorphicSymmetric ==
    ASSUME NEW o \in 0 .. MaxOrder, NEW g \in Graphs(o), NEW h, Isomorphic(o, g, h)
    PROVE  Isomorphic(o, h, g)
<1>1. PICK p \in Perms[o] : h = Permuted(o, g, p)
  BY DEF Isomorphic
<1>2. PICK q \in Perms[o] : \A d \in Edges(o) : Image(p, Image(q, d)) = d
  BY InverseImage
<1>3. \A d \in Edges(o) : Image(q, d) \in Edges(o)
  BY ImageFacts
<1>4. \A d \in Edges(o) : d \in Permuted(o, h, q) <=> d \in g
  BY <1>1, <1>2, <1>3 DEF Permuted
<1>5. g \subseteq Edges(o) /\ Permuted(o, h, q) \subseteq Edges(o)
  BY DEF Graphs, Permuted
<1>6. Permuted(o, h, q) = g
  BY <1>4, <1>5
<1>. QED
  BY <1>6 DEF Isomorphic

\* Each class of graphs has one lex leader.
LEMMA OneLeader ==
    ASSUME NEW o \in 0 .. MaxOrder, NEW g \in Graphs(o)
    PROVE  \E l \in LexLeaders[o] :
              /\ Isomorphic(o, g, l)
              /\ \A h \in LexLeaders[o] : Isomorphic(o, g, h) => h = l
<1>0. o \in Nat /\ IsFiniteSet(Edges(o))
  BY OrdersAssumption, EdgesCount
<1>. DEFINE T == {h \in Graphs(o) : Isomorphic(o, g, h)}
            R == {c \in T \X T : Less(o, c[1], c[2])}
<1>1. IsFiniteSet(T)
  <2>1. IsFiniteSet(Graphs(o)) /\ T \subseteq Graphs(o)
    BY <1>0, FS_SUBSET DEF Graphs
  <2>. QED
    BY <2>1, FS_Subset
<1>2. \A p \in Perms[o] : Permuted(o, g, p) \in T
  BY DEF Permuted, Graphs, Isomorphic
<1>3. T # {}
  <2>. DEFINE id == [x \in Verts(o) |-> x]
  <2>1. id \in Perms[o]
    <3>1. id \in [Verts(o) -> Verts(o)] /\ \A j \in Verts(o) : id[j] = j
      OBVIOUS
    <3>. HIDE DEF id
    <3>2. \A j, k \in Verts(o) : id[j] = id[k] => j = k
      BY <3>1
    <3>. QED
      BY <3>1, <3>2 DEF Perms
  <2>. QED
    BY <1>2, <2>1
<1>4. PICK l \in T : \A h \in T : <<h, l>> \notin R
  <2>1. \A x \in T : <<x, x>> \notin R
    BY LessIrreflexive
  <2>2. \A x, y, z \in T : <<x, y>> \in R /\ <<y, z>> \in R => <<x, z>> \in R
    BY <1>0, LessTransitive
  <2>. HIDE DEF T, R
  <2>. QED
    BY <1>1, <1>3, <2>1, <2>2, MinimalIn
<1>5. \A h \in T : ~ Less(o, h, l)
  BY <1>4
<1>6. l \in LexLeaders[o]
  <2>1. ASSUME NEW p \in Perms[o]  PROVE ~ Smaller(o, l, p)
    <3>1. Isomorphic(o, l, Permuted(o, l, p)) /\ Permuted(o, l, p) \in Graphs(o)
      BY DEF Isomorphic, Permuted, Graphs
    <3>2. Permuted(o, l, p) \in T
      BY <3>1, IsomorphicTransitive
    <3>. QED
      BY <1>5, <3>2, SmallerIsLess
  <2>. QED
    BY <2>1 DEF LexLeaders
<1>7. ASSUME NEW h \in LexLeaders[o], Isomorphic(o, g, h), h # l  PROVE FALSE
  <2>1. h \in Graphs(o) /\ \A p \in Perms[o] : ~ Smaller(o, h, p)
    BY DEF LexLeaders
  <2>2. Isomorphic(o, h, l)
    BY <1>7, IsomorphicSymmetric, IsomorphicTransitive
  <2>3. PICK p \in Perms[o] : l = Permuted(o, h, p)
    BY <2>2 DEF Isomorphic
  <2>4. ~ Less(o, l, h)
    BY <2>1, <2>3, SmallerIsLess
  <2>5. ~ Less(o, h, l)
    BY <1>5, <1>7, <2>1
  <2>. QED
    BY <1>0, <1>7, <2>1, <2>4, <2>5, LessTotal
<1>. QED
  BY <1>6, <1>7

-----------------------------------------------------------------------------
(***************************************************************************)
(* The algorithm.                                                          *)
(***************************************************************************)

LEMMA OrderFacts ==
    /\ MaxOrder \in Nat /\ MinOrder \in Nat /\ MinOrder >= 3 /\ MinOrder <= MaxOrder
    /\ K \in Nat /\ K < MinOrder /\ Sub \subseteq Edges(K)
BY OrdersAssumption, DriverAssumption DEF Graphs

\* From order 3 on there is a length to go through.
LEMMA MaxLenFacts ==
    ASSUME NEW m \in Nat, m >= 3
    PROVE  maxLen(m) \in Nat /\ maxLen(m) >= 1 /\ maxLen(m) + 1 = Cardinality(Edges(m))
           /\ maxLen(m) <= m * m
<1>. DEFINE a == m * (m - 1)
<1>1. a \in Nat /\ a >= 4 /\ a <= m * m
  <2>1. a = m * m - m
    OBVIOUS
  <2>2. m * m >= 3 * m
    OBVIOUS
  <2>. QED
    BY <2>1, <2>2
<1>2. maxLen(m) = a \div 2 - 1 /\ Cardinality(Edges(m)) = a \div 2
  BY EdgesCount DEF maxLen
<1>. HIDE DEF a
<1>3. a \div 2 \in Nat /\ a \div 2 >= 2 /\ a \div 2 <= a
  BY <1>1
<1>. QED
  BY <1>1, <1>2, <1>3

\* The file lists the indices kept, each of them, and no other.
LEMMA AscendingLists ==
    ASSUME NEW m \in Nat, NEW S, S \subseteq 1 .. m
    PROVE  /\ Ascending(S) \in Seq(Nat)
           /\ {Ascending(S)[j] : j \in DOMAIN Ascending(S)} = S
<1>. DEFINE c == Cardinality(S)
            s == Ascending(S)
            pre(x) == {l \in S : l < x}
            R(x) == Cardinality(pre(x))
            rank == [x \in S |-> R(x) + 1]
<1>1. IsFiniteSet(S)
  <2>1. IsFiniteSet(1 .. m)
    BY FS_Interval
  <2>. QED
    BY <2>1, FS_Subset
<1>2. c \in Nat
  BY <1>1, FS_CardinalityType
<1>3. S \subseteq Nat
  OBVIOUS
<1>. HIDE DEF c, s
<1>4. \A x \in S : IsFiniteSet(pre(x)) /\ R(x) \in Nat
  <2>1. \A x \in S : IsFiniteSet(pre(x))
    BY <1>1, FS_Subset
  <2>. HIDE DEF pre
  <2>. QED
    BY <2>1, FS_CardinalityType
<1>5. \A x \in S : R(x) <= c - 1
  <2>1. TAKE x \in S
  <2>2. pre(x) \subseteq S \ {x}
    BY <1>3
  <2>. HIDE DEF pre
  <2>3. IsFiniteSet(S \ {x}) /\ Cardinality(S \ {x}) = c - 1
    BY <1>1, FS_RemoveElement DEF c
  <2>. QED
    BY <2>2, <2>3, FS_Subset
<1>6. \A x, y \in S : x < y => R(x) < R(y)
  <2>1. SUFFICES ASSUME NEW x \in S, NEW y \in S, x < y  PROVE R(x) < R(y)
    OBVIOUS
  <2>2. pre(x) \subseteq pre(y)
    <3>1. \A l \in S : l < x => l < y
      BY <1>3, <2>1
    <3>. QED
      BY <3>1
  <2>3. x \in pre(y) /\ x \notin pre(x)
    BY <1>3, <2>1
  <2>4. IsFiniteSet(pre(y)) /\ R(x) \in Nat /\ R(y) \in Nat
    BY <1>4
  <2>. HIDE DEF pre
  <2>. QED
    BY <2>2, <2>3, <2>4, FS_Subset
<1>. HIDE DEF R, pre
<1>7. \A x, y \in S : R(x) = R(y) => x = y
  BY <1>3, <1>4, <1>6
<1>8. rank \in Injection(S, 1 .. c)
  <2>1. rank \in [S -> 1 .. c]
    BY <1>2, <1>4, <1>5
  <2>2. \A x, y \in S : rank[x] = rank[y] => x = y
    BY <1>4, <1>7
  <2>. HIDE DEF rank
  <2>. QED
    BY <2>1, <2>2, Fun_IsInj
<1>9. \A k \in 1 .. c : \E x \in S : rank[x] = k
  <2>1. IsFiniteSet(1 .. c) /\ Cardinality(1 .. c) = Cardinality(S)
    BY <1>2, FS_Interval DEF c
  <2>. HIDE DEF rank
  <2>2. rank \in Surjection(S, 1 .. c)
    BY <1>1, <1>8, <2>1, FS_Injection
  <2>. QED
    BY <2>2, Fun_SurjectionProperties
<1>10. \A k \in 1 .. c : s[k] \in S /\ R(s[k]) = k - 1
  <2>1. TAKE k \in 1 .. c
  <2>2. PICK x \in S : rank[x] = k
    BY <1>9
  <2>3. R(x) = k - 1
    BY <1>2, <1>4, <2>2
  <2>4. s[k] = CHOOSE y \in S : R(y) = k - 1
    BY DEF Ascending, R, pre, s, c
  <2>. QED
    BY <2>3, <2>4
<1>11. DOMAIN s = 1 .. c
  BY DEF Ascending, s, c
<1>12. \A x \in S : \E k \in 1 .. c : s[k] = x
  <2>1. TAKE x \in S
  <2>2. R(x) \in 0 .. c - 1
    BY <1>2, <1>4, <1>5
  <2>3. PICK k \in 1 .. c : R(x) = k - 1
    <3>1. R(x) + 1 \in 1 .. c /\ R(x) = (R(x) + 1) - 1
      BY <1>2, <2>2
    <3>. QED
      BY <3>1
  <2>4. s[k] = x
    BY <1>7, <1>10, <2>3
  <2>. QED
    BY <2>4
<1>13. s = [k \in 1 .. c |-> s[k]]
  <2>. DEFINE f(k) == CHOOSE x \in S : Cardinality({l \in S : l < x}) = k - 1
  <2>1. s = [k \in 1 .. c |-> f(k)]
    BY DEF Ascending, s, c
  <2>. HIDE DEF f
  <2>. QED
    BY <2>1
<1>14. s \in Seq(Nat)
  BY <1>2, <1>3, <1>10, <1>13
<1>. QED
  BY <1>10, <1>11, <1>12, <1>14 DEF s

-----------------------------------------------------------------------------
\* Every implication was found at this order or at a smaller one.
FoundBefore == \A imp \in Posted : \E m \in 0 .. n : imp.perm \in Perms[m]

\* Indices are kept only while the reducer runs.
KeptInReduce == pc = "reduce" \/ kept = {}

TInv == TypeOK /\ FoundBefore /\ KeptInReduce

LEMMA ReadFacts ==
    ASSUME TypeOK, NEW file \in Seq(Nat), Read(file), pc = "reduce"
    PROVE  /\ canset' = canset /\ n' = n
           /\ kept' = {} /\ delta' \in Seq(Implication)
           /\ Listed(DOMAIN delta)' \subseteq Listed(DOMAIN delta)
           /\ length' \in 1 .. maxLen(n) /\ pc' \in {"solve", "return", "crashed"}
<1>1. /\ delta \in Seq(Implication) /\ length \in 1 .. maxLen(n) /\ n \in Nat /\ n >= 3
  BY OrderFacts DEF TypeOK
<1>2. maxLen(n) \in Nat
  BY <1>1, MaxLenFacts
<1>3. CASE Range(file) \subseteq DOMAIN delta
  <2>1. delta' = [k \in DOMAIN file |-> delta[file[k]]]
    BY <1>3 DEF Read
  <2>2. \A k \in DOMAIN file : file[k] \in DOMAIN delta
    BY <1>3 DEF Range
  <2>3. \A k \in DOMAIN delta : delta[k] \in Implication
    BY <1>1
  <2>4. DOMAIN file = 1 .. Len(file) /\ Len(file) \in Nat
    OBVIOUS
  <2>5. delta' \in Seq(Implication)
    BY <2>1, <2>2, <2>3, <2>4
  <2>6. DOMAIN delta' = DOMAIN file
    BY <2>1
  <2>7. Listed(DOMAIN delta)' \subseteq Listed(DOMAIN delta)
    BY <2>1, <2>2, <2>6 DEF Listed
  <2>. QED
    BY <1>1, <1>2, <1>3, <2>5, <2>7 DEF Read
<1>4. CASE ~ (Range(file) \subseteq DOMAIN delta)
  BY <1>1, <1>4 DEF Read, Listed
<1>. QED
  BY <1>3, <1>4 DEF Read

LEMMA TypeStep == TInv /\ [Next]_vars => TInv'
<1>1. SUFFICES ASSUME TypeOK, FoundBefore, KeptInReduce, [Next]_vars  PROVE TInv'
  BY DEF TInv
<1>2. /\ n \in MinOrder .. MaxOrder /\ n \in Nat /\ n >= 3
      /\ delta \in Seq(Implication) /\ outFile \in Seq(Nat)
      /\ length \in 1 .. maxLen(n) /\ maxLen(n) \in Nat
  BY <1>1, OrderFacts, MaxLenFacts DEF TypeOK
<1>3. ASSUME NEW p \in Perms[n], Found(p)  PROVE TInv'
  <2>. DEFINE imp == [perm |-> p, length |-> length]
  <2>1. imp \in Implication
    <3>1. length \in 1 .. MaxOrder * MaxOrder
      <4>1. maxLen(n) <= n * n
        BY <1>2, MaxLenFacts
      <4>2. n <= MaxOrder /\ MaxOrder \in Nat
        BY <1>2, OrderFacts
      <4>3. n * n <= MaxOrder * MaxOrder /\ MaxOrder * MaxOrder \in Nat /\ n * n \in Nat
        BY <1>2, <4>2
      <4>. QED
        BY <1>2, <4>1, <4>3
    <3>2. imp \in Implication
      <4>1. p \in UNION {Perms[m] : m \in MinOrder .. MaxOrder}
        BY <1>2
      <4>. QED
        BY <3>1, <4>1 DEF Implication, imp
    <3>. QED
      BY <3>2
  <2>. HIDE DEF imp
  <2>2. delta' = Append(delta, imp) /\ UNCHANGED <<n, canset, length, pc, kept, outFile>>
    BY <1>3 DEF Found, imp
  <2>3. delta' \in Seq(Implication) /\ DOMAIN delta' = 1 .. Len(delta) + 1
        /\ \A k \in 1 .. Len(delta) + 1 : delta'[k] = IF k = Len(delta) + 1 THEN imp ELSE delta[k]
    BY <1>2, <2>1, <2>2
  <2>4. DOMAIN delta \subseteq DOMAIN delta'
    BY <1>2, <2>3
  <2>5. TypeOK'
    BY <1>1, <1>2, <2>2, <2>3, <2>4 DEF TypeOK
  <2>6. Posted' \subseteq Posted \cup {imp}
    BY <1>2, <2>2, <2>3 DEF Posted, Listed
  <2>7. imp.perm \in Perms[n] /\ n \in 0 .. n
    BY <1>2 DEF imp
  <2>8. FoundBefore'
    BY <1>1, <2>2, <2>6, <2>7 DEF FoundBefore
  <2>. QED
    BY <1>1, <2>2, <2>5, <2>8 DEF TInv, KeptInReduce
<1>4. ASSUME Exhausted  PROVE TInv'
  <2>1. TypeOK'
    BY <1>1, <1>2, <1>4 DEF Exhausted, TypeOK
  <2>. QED
    BY <1>1, <1>4, <2>1 DEF Exhausted, TInv, FoundBefore, KeptInReduce, Posted, Listed
<1>5. ASSUME NEW k \in kept, ReducerDrops(k)  PROVE TInv'
  <2>1. TypeOK'
    BY <1>1, <1>5 DEF ReducerDrops, TypeOK
  <2>. QED
    BY <1>1, <1>5, <2>1 DEF ReducerDrops, TInv, FoundBefore, KeptInReduce, Posted, Listed
<1>6. ASSUME NEW file \in Seq(Nat), pc = "reduce", Read(file), outFile' \in Seq(Nat)
      PROVE  TInv'
  <2>1. /\ canset' = canset /\ n' = n
        /\ kept' = {} /\ delta' \in Seq(Implication)
        /\ Listed(DOMAIN delta)' \subseteq Listed(DOMAIN delta)
        /\ length' \in 1 .. maxLen(n) /\ pc' \in {"solve", "return", "crashed"}
    BY <1>1, <1>6, ReadFacts
  <2>2. TypeOK'
    BY <1>1, <1>6, <2>1 DEF TypeOK
  <2>. QED
    BY <1>1, <2>1, <2>2 DEF TInv, FoundBefore, KeptInReduce, Posted
<1>7. ASSUME ReducerWrites  PROVE TInv'
  <2>1. kept \subseteq 1 .. Len(delta) /\ Len(delta) \in Nat
    BY <1>1, <1>2 DEF TypeOK
  <2>2. outFile' \in Seq(Nat) /\ Read(outFile') /\ pc = "reduce"
    BY <1>7, <2>1, AscendingLists DEF ReducerWrites
  <2>. QED
    BY <1>6, <2>2
<1>8. ASSUME ReducerFails  PROVE TInv'
  BY <1>2, <1>6, <1>8 DEF ReducerFails
<1>9. ASSUME NextOrder  PROVE TInv'
  <2>1. canset' = Posted /\ UNCHANGED <<kept, outFile>>
    BY <1>9 DEF NextOrder
  <2>2. Posted \subseteq Implication
    BY <1>1, <1>2 DEF TypeOK, Posted, Listed
  <2>3. kept = {}
    BY <1>1, <1>9 DEF NextOrder, KeptInReduce
  <2>4. CASE n < MaxOrder
    <3>1. n' = n + 1 /\ delta' = <<>> /\ length' = 1 /\ pc' = "solve"
      BY <1>9, <2>4 DEF NextOrder
    <3>2. n + 1 \in MinOrder .. MaxOrder /\ 1 \in 1 .. maxLen(n + 1)
      BY <1>2, <2>4, OrderFacts, MaxLenFacts
    <3>3. TypeOK'
      BY <1>1, <2>1, <2>2, <2>3, <3>1, <3>2 DEF TypeOK
    <3>4. Posted' = Posted
      BY <2>1, <3>1 DEF Posted, Listed
    <3>5. 0 .. n \subseteq 0 .. n'
      BY <1>2, <3>1
    <3>. QED
      BY <1>1, <2>1, <2>3, <3>3, <3>4, <3>5 DEF TInv, FoundBefore, KeptInReduce
  <2>5. CASE ~ (n < MaxOrder)
    <3>1. UNCHANGED <<n, delta, length>> /\ pc' = "done"
      BY <1>9, <2>5 DEF NextOrder
    <3>2. TypeOK'
      BY <1>1, <2>1, <2>2, <3>1 DEF TypeOK
    <3>3. Posted' = Posted
      BY <2>1, <3>1 DEF Posted, Listed
    <3>. QED
      BY <1>1, <2>1, <2>3, <3>1, <3>2, <3>3 DEF TInv, FoundBefore, KeptInReduce
  <2>. QED
    BY <2>4, <2>5
<1>10. CASE UNCHANGED vars
  BY <1>1, <1>10 DEF vars, TInv, TypeOK, FoundBefore, KeptInReduce, Posted, Listed
<1>11. CASE Next
  BY <1>3, <1>4, <1>5, <1>7, <1>8, <1>9, <1>11 DEF Next, Find, Drop
<1>. QED
  BY <1>1, <1>10, <1>11

LEMMA TypeInit == Init => TInv
<1>1. SUFFICES ASSUME Init  PROVE TInv
  OBVIOUS
<1>2. MinOrder \in Nat /\ MinOrder >= 3 /\ MinOrder \in MinOrder .. MaxOrder
  BY OrderFacts
<1>3. 1 \in 1 .. maxLen(MinOrder)
  BY <1>2, MaxLenFacts
<1>4. <<>> \in Seq(Implication) /\ <<>> \in Seq(Nat)
  OBVIOUS
<1>5. TypeOK
  BY <1>1, <1>2, <1>3, <1>4 DEF Init, TypeOK
<1>6. Posted = {}
  BY <1>1 DEF Init, Posted, Listed
<1>. QED
  BY <1>1, <1>5, <1>6 DEF Init, TInv, FoundBefore, KeptInReduce

\* The type invariant, with what it needs of the reducer's indices.
THEOREM TypeInvariant == Spec => []TInv
BY TypeInit, TypeStep, PTL DEF Spec

THEOREM TypeCorrect == Spec => []TypeOK
<1>1. TInv => TypeOK
  BY DEF TInv
<1>. QED
  BY <1>1, TypeInvariant, PTL

\* No class of graphs is lost: the lex leaders of the current order satisfy
\* what any earlier order and any length has listed, even if the reducer fails
\* and an old file is read in its place.
THEOREM LeadersAreKept == Spec => []LeadersKept
<1>1. TInv => LeadersKept
  <2>1. SUFFICES ASSUME TypeOK, FoundBefore, NEW imp \in Posted, NEW g \in LexLeaders[n]
                 PROVE  Satisfies(n, g, imp)
    BY DEF TInv, LeadersKept
  <2>2. PICK m \in 0 .. n : imp.perm \in Perms[m]
    BY <2>1 DEF FoundBefore
  <2>3. n \in 0 .. MaxOrder
    BY <2>1, OrderFacts DEF TypeOK
  <2>. QED
    BY <2>2, <2>3, LeaderSatisfies
<1>. QED
  BY <1>1, TypeInvariant, PTL

\* Every answer of the solver shrinks what is allowed, whatever the reducer has
\* dropped before: the graph it comes with does not satisfy the implication
\* that it adds, so that the loop never lists what it has already.
THEOREM AnswersExclude == Spec => Progress
<1>1. ASSUME TInv, NEW p \in Perms[n], Found(p)
      PROVE  Allowed(n, Posted') # Allowed(n, Posted)
  <2>. DEFINE imp == [perm |-> p, length |-> length]
  <2>1. delta' = Append(delta, imp) /\ canset' = canset
    BY <1>1 DEF Found
  <2>2. imp \in Posted'
    <3>1. delta \in Seq(Implication)
      BY <1>1 DEF TInv, TypeOK
    <3>2. Len(delta) + 1 \in DOMAIN delta' /\ delta'[Len(delta) + 1] = imp
      BY <2>1, <3>1
    <3>. QED
      BY <3>2 DEF Posted, Listed
  <2>3. PICK g \in Allowed(n, Posted) : Counterexample(g, p)
    BY <1>1 DEF Found
  <2>4. ~ Satisfies(n, g, imp)
    BY <2>3 DEF Counterexample, LtImplication, Satisfies
  <2>. QED
    BY <2>2, <2>3, <2>4 DEF Allowed
<1>2. ASSUME TInv, Next, pc = "solve", delta' # delta, n' = n
      PROVE  Allowed(n, Posted') # Allowed(n, Posted)
  <2>1. CASE Find
    BY <1>1, <1>2, <2>1 DEF Find
  <2>2. ~ (Exhausted \/ Drop \/ ReducerWrites \/ ReducerFails \/ NextOrder)
    BY <1>2 DEF Exhausted, Drop, ReducerDrops, ReducerWrites, ReducerFails, NextOrder
  <2>. QED
    BY <1>2, <2>1, <2>2 DEF Next
<1>3. TInv /\ [Next]_vars
        => [pc = "solve" /\ delta' # delta /\ n' = n
               => Allowed(n, Posted') # Allowed(n, Posted)]_vars
  BY <1>2
<1>. QED
  BY <1>3, TypeInvariant, PTL DEF Spec, Progress

-----------------------------------------------------------------------------
(***************************************************************************)
(* The other direction needs a reducer that works.                         *)
(***************************************************************************)

\* LengthsClosed with its four variables as parameters.
Closed(m, imps, l, at) ==
    \A d \in Edges(m), g \in Allowed(m, imps), p \in Perms[m] :
        LtImplication(m, g, p, position[m][d])
            => position[m][d] > l \/ (position[m][d] = l /\ at = "solve")

\* While the reducer drops implications one by one, what it has kept still
\* implies all it was given.
KeptEquivalent ==
    pc = "reduce" => \A k \in DOMAIN delta, g \in Allowed(n, canset \cup Listed(kept)) :
                        Satisfies(n, g, delta[k])

LastLength == pc \in {"return", "done"} => length = maxLen(n)

CInv == /\ TInv
        /\ Closed(n, Posted, length, pc)
        /\ KeptEquivalent
        /\ LastLength

\* More implications allow fewer graphs.
LEMMA AllowedMonotone ==
    ASSUME NEW m, NEW I, NEW J, I \subseteq J
    PROVE  Allowed(m, J) \subseteq Allowed(m, I)
BY DEF Allowed

LEMMA ClosedMonotone ==
    ASSUME NEW m, NEW I, NEW J, NEW l, NEW at,
           Allowed(m, J) \subseteq Allowed(m, I), Closed(m, I, l, at)
    PROVE  Closed(m, J, l, at)
BY DEF Closed

\* Every position is at least 1.
LEMMA ClosedAtStart ==
    ASSUME NEW m \in 0 .. MaxOrder, NEW I
    PROVE  Closed(m, I, 1, "solve")
<1>1. ASSUME NEW d \in Edges(m)  PROVE position[m][d] > 1 \/ position[m][d] = 1
  <2>1. Cardinality(Edges(m)) \in Nat
    BY OrdersAssumption, EdgesCount, FS_CardinalityType
  <2>. QED
    BY <2>1, PositionFacts
<1>. QED
  BY <1>1 DEF Closed

\* Once the length has no counterexample, it is behind the loop.
LEMMA ClosedNext ==
    ASSUME NEW m \in 0 .. MaxOrder, NEW I, NEW l \in Nat, NEW at, Closed(m, I, l, at),
           at # "solve" \/ \A p \in Perms[m], g \in Allowed(m, I) : ~ LtImplication(m, g, p, l)
    PROVE  Closed(m, I, l, "reduce") /\ Closed(m, I, l + 1, "solve")
<1>1. ASSUME NEW d \in Edges(m), NEW g \in Allowed(m, I), NEW p \in Perms[m],
             LtImplication(m, g, p, position[m][d])
      PROVE  position[m][d] > l
  BY <1>1 DEF Closed
<1>2. ASSUME NEW d \in Edges(m), position[m][d] > l
      PROVE  position[m][d] > l + 1 \/ position[m][d] = l + 1
  <2>1. Cardinality(Edges(m)) \in Nat
    BY OrdersAssumption, EdgesCount, FS_CardinalityType
  <2>2. position[m][d] \in Nat
    BY <2>1, PositionFacts
  <2>. QED
    BY <1>2, <2>2
<1>. QED
  BY <1>1, <1>2 DEF Closed

\* Closed up to maxLen, a set of implications allows lex leaders alone.
LEMMA ClosedCanonizes ==
    ASSUME NEW m \in MinOrder .. MaxOrder, NEW I, NEW at, at # "solve",
           Closed(m, I, maxLen(m), at)
    PROVE  Allowed(m, I) \subseteq LexLeaders[m]
<1>1. m \in 0 .. MaxOrder /\ m \in Nat /\ m >= 3 /\ K <= m /\ K \in Nat
  BY OrderFacts
<1>2. SUFFICES ASSUME NEW g \in Allowed(m, I)  PROVE g \in LexLeaders[m]
  OBVIOUS
<1>3. g \in Graphs(m)
  <2>1. Edges(K) \subseteq Edges(m)
    BY <1>1 DEF Edges, Verts
  <2>2. g \in Embeddings(m)
    BY <1>2 DEF Allowed
  <2>. QED
    BY <2>1, <2>2, OrderFacts DEF Embeddings, Graphs
<1>4. ASSUME NEW p \in Perms[m], Smaller(m, g, p)  PROVE FALSE
  <2>1. PICK d \in Edges(m) : SamePrefix(m, g, p, d) /\ d \in g /\ Image(p, d) \notin g
    BY <1>4 DEF Smaller
  <2>2. LtImplication(m, g, p, position[m][d])
    BY <2>1 DEF LtImplication
  <2>3. position[m][d] > maxLen(m)
    BY <1>2, <2>2 DEF Closed
  <2>4. position[m][d] = Cardinality(Edges(m))
    <3>1. maxLen(m) \in Nat /\ Cardinality(Edges(m)) = maxLen(m) + 1
      BY <1>1, MaxLenFacts
    <3>2. position[m][d] \in 1 .. Cardinality(Edges(m))
      BY <1>1, PositionFacts
    <3>. QED
      BY <2>3, <3>1, <3>2
  <2>5. Before(m, d) = Edges(m) \ {d}
    BY <1>1, <2>4, PositionFacts
  <2>. QED
    BY <1>1, <1>3, <2>1, <2>5, LastBit
<1>. QED
  BY <1>1, <1>3, <1>4 DEF LexLeaders

LEMMA ClosedInit == Init => CInv
<1>1. SUFFICES ASSUME Init  PROVE CInv
  OBVIOUS
<1>2. TInv
  BY <1>1, TypeInit
<1>3. n \in 0 .. MaxOrder
  BY <1>2, OrderFacts DEF TInv, TypeOK
<1>4. Closed(n, Posted, length, pc)
  BY <1>1, <1>3, ClosedAtStart DEF Init
<1>. QED
  BY <1>1, <1>2, <1>4 DEF Init, CInv, KeptEquivalent, LastLength

LEMMA ClosedStep == ReducerMayFail = FALSE /\ CInv /\ [Next]_vars => CInv'
<1>1. SUFFICES ASSUME ReducerMayFail = FALSE, CInv, [Next]_vars  PROVE CInv'
  OBVIOUS
<1>2. TInv /\ TypeOK /\ Closed(n, Posted, length, pc) /\ KeptEquivalent /\ LastLength
  BY <1>1 DEF CInv, TInv
<1>3. TInv'
  BY <1>1, <1>2, TypeStep
<1>4. /\ n \in MinOrder .. MaxOrder /\ n \in 0 .. MaxOrder /\ n \in Nat /\ n >= 3
      /\ delta \in Seq(Implication) /\ Len(delta) \in Nat /\ DOMAIN delta = 1 .. Len(delta)
      /\ length \in Nat /\ length >= 1 /\ length <= maxLen(n) /\ maxLen(n) \in Nat
      /\ kept \subseteq 1 .. Len(delta)
  BY <1>2, OrderFacts, MaxLenFacts DEF TypeOK
<1>5. ASSUME NEW p \in Perms[n], Found(p)  PROVE CInv'
  <2>. DEFINE imp == [perm |-> p, length |-> length]
  <2>1. pc = "solve" /\ delta' = Append(delta, imp)
        /\ UNCHANGED <<n, canset, length, pc, kept, outFile>>
    BY <1>5 DEF Found
  <2>2. Posted \subseteq Posted'
    <3>1. \A k \in DOMAIN delta : k \in DOMAIN delta' /\ delta'[k] = delta[k]
      BY <1>4, <2>1
    <3>. QED
      BY <2>1, <3>1 DEF Posted, Listed
  <2>3. Closed(n, Posted', length, pc)
    BY <1>2, <2>2, AllowedMonotone, ClosedMonotone
  <2>. QED
    BY <1>3, <2>1, <2>3 DEF CInv, KeptEquivalent, LastLength
<1>6. ASSUME Exhausted  PROVE CInv'
  <2>1. /\ pc = "solve" /\ UNCHANGED <<n, canset, delta, outFile>>
        /\ \A p \in Perms[n], g \in Allowed(n, Posted) : ~ LtImplication(n, g, p, length)
    BY <1>6 DEF Exhausted, Counterexample
  <2>2. Posted' = Posted
    BY <2>1 DEF Posted, Listed
  <2>3. Closed(n, Posted, length, "reduce") /\ Closed(n, Posted, length + 1, "solve")
    BY <1>2, <1>4, <2>1, ClosedNext
  <2>4. CASE length % 5 = 0 \/ length = maxLen(n)
    <3>1. pc' = "reduce" /\ kept' = DOMAIN delta /\ length' = length
      BY <1>6, <2>4 DEF Exhausted
    <3>2. ASSUME NEW k \in DOMAIN delta, NEW g \in Allowed(n, canset \cup Listed(DOMAIN delta))
          PROVE  Satisfies(n, g, delta[k])
      BY DEF Allowed, Listed
    <3>3. KeptEquivalent'
      BY <2>1, <3>1, <3>2 DEF KeptEquivalent, Listed
    <3>. QED
      BY <1>3, <2>1, <2>2, <2>3, <3>1, <3>3 DEF CInv, LastLength
  <2>5. CASE ~ (length % 5 = 0 \/ length = maxLen(n))
    <3>1. pc' = "solve" /\ length' = length + 1
      BY <1>6, <2>1, <2>5 DEF Exhausted
    <3>. QED
      BY <1>3, <2>1, <2>2, <2>3, <3>1 DEF CInv, KeptEquivalent, LastLength
  <2>. QED
    BY <2>4, <2>5
<1>7. ASSUME NEW k \in kept, ReducerDrops(k)  PROVE CInv'
  <2>1. /\ pc = "reduce" /\ Redundant(k) /\ kept' = kept \ {k}
        /\ UNCHANGED <<n, canset, delta, length, pc, outFile>>
    BY <1>7 DEF ReducerDrops
  <2>2. ASSUME NEW g \in Allowed(n, canset \cup Listed(kept \ {k}))
        PROVE  g \in Allowed(n, canset \cup Listed(kept))
    <3>1. Satisfies(n, g, delta[k])
      BY <2>1, <2>2 DEF Redundant
    <3>. QED
      BY <2>2, <3>1 DEF Allowed, Listed
  <2>3. KeptEquivalent'
    BY <1>2, <2>1, <2>2 DEF KeptEquivalent, Listed
  <2>4. Posted' = Posted
    BY <2>1 DEF Posted, Listed
  <2>. QED
    BY <1>2, <1>3, <2>1, <2>3, <2>4 DEF CInv, LastLength
<1>8. ASSUME ReducerWrites  PROVE CInv'
  <2>. DEFINE file == Ascending(kept)
  <2>1. pc = "reduce" /\ Read(file)
    BY <1>8 DEF ReducerWrites
  <2>2. {file[j] : j \in DOMAIN file} = kept
    BY <1>4, AscendingLists
  <2>. HIDE DEF file
  <2>3. Range(file) \subseteq DOMAIN delta
    BY <1>4, <2>2 DEF Range
  <2>4. /\ delta' = [k \in DOMAIN file |-> delta[file[k]]] /\ UNCHANGED <<n, canset>>
        /\ IF length < maxLen(n)
           THEN length' = length + 1 /\ pc' = "solve"
           ELSE pc' = "return" /\ UNCHANGED length
    BY <2>1, <2>3 DEF Read
  <2>5. Posted' = canset \cup Listed(kept)
    <3>1. DOMAIN delta' = DOMAIN file /\ \A k \in DOMAIN file : delta'[k] = delta[file[k]]
      BY <2>4
    <3>2. {delta'[k] : k \in DOMAIN delta'} = Listed(kept)
      BY <2>2, <3>1 DEF Listed
    <3>. QED
      BY <2>4, <3>2 DEF Posted, Listed
  <2>6. Allowed(n, Posted') \subseteq Allowed(n, Posted)
    BY <1>2, <2>1, <2>5 DEF KeptEquivalent, Allowed, Posted, Listed
  <2>7. Closed(n, Posted', length, "reduce")
    BY <1>2, <2>1, <2>6, ClosedMonotone
  <2>8. CASE length < maxLen(n)
    <3>1. Closed(n, Posted', length + 1, "solve")
      BY <1>4, <2>7, ClosedNext
    <3>. QED
      BY <1>3, <2>4, <2>8, <3>1 DEF CInv, KeptEquivalent, LastLength
  <2>9. CASE ~ (length < maxLen(n))
    <3>1. length = maxLen(n)
      BY <1>4, <2>9
    <3>2. Closed(n, Posted', length, "return")
      BY <2>7 DEF Closed
    <3>. QED
      BY <1>3, <2>4, <2>9, <3>1, <3>2 DEF CInv, KeptEquivalent, LastLength
  <2>. QED
    BY <2>8, <2>9
<1>9. ASSUME NextOrder  PROVE CInv'
  <2>1. pc = "return" /\ canset' = Posted
    BY <1>9 DEF NextOrder
  <2>2. CASE n < MaxOrder
    <3>1. n' = n + 1 /\ length' = 1 /\ pc' = "solve"
      BY <1>9, <2>2 DEF NextOrder
    <3>2. n + 1 \in 0 .. MaxOrder
      BY <1>4, <2>2, OrderFacts
    <3>3. Closed(n + 1, Posted', 1, "solve")
      BY <3>2, ClosedAtStart
    <3>. QED
      BY <1>3, <3>1, <3>3 DEF CInv, KeptEquivalent, LastLength
  <2>3. CASE ~ (n < MaxOrder)
    <3>1. UNCHANGED <<n, delta, length>> /\ pc' = "done"
      BY <1>9, <2>3 DEF NextOrder
    <3>2. Posted' = Posted
      BY <2>1, <3>1 DEF Posted, Listed
    <3>3. Closed(n, Posted, length, "done")
      BY <1>2, <2>1 DEF Closed
    <3>. QED
      BY <1>2, <1>3, <2>1, <3>1, <3>2, <3>3 DEF CInv, KeptEquivalent, LastLength
  <2>. QED
    BY <2>2, <2>3
<1>10. CASE UNCHANGED vars
  BY <1>2, <1>3, <1>10 DEF vars, CInv, KeptEquivalent, LastLength, Posted, Listed
<1>11. ~ ReducerFails
  BY <1>1 DEF ReducerFails
<1>12. CASE Next
  BY <1>5, <1>6, <1>7, <1>8, <1>9, <1>11, <1>12 DEF Next, Find, Drop
<1>. QED
  BY <1>1, <1>10, <1>12

LEMMA ClosedInvariant ==
    ASSUME ReducerMayFail = FALSE
    PROVE  Spec => []CInv
<1>1. CInv /\ [Next]_vars => CInv'
  BY ClosedStep
<1>. QED
  BY <1>1, ClosedInit, PTL DEF Spec

\* The lengths the loop has been through stay closed, in every order and
\* through every reduction, when the reducer does not fail.
THEOREM LengthsStayClosed == ASSUME ReducerMayFail = FALSE PROVE Spec => []LengthsClosed
<1>1. CInv => LengthsClosed
  BY DEF CInv, Closed, LengthsClosed
<1>. QED
  BY <1>1, ClosedInvariant, PTL

\* extend, the incremental driver and the subgraph driver return implications
\* that allow lex leaders alone, when the reducer does not fail.
THEOREM ResultCanonizes == ASSUME ReducerMayFail = FALSE PROVE Spec => []Canonizing
<1>1. CInv => Canonizing
  <2>1. SUFFICES ASSUME CInv, pc \in {"return", "done"}
                 PROVE  Allowed(n, Posted) \subseteq LexLeaders[n]
    BY DEF Canonizing
  <2>2. n \in MinOrder .. MaxOrder /\ Closed(n, Posted, maxLen(n), pc) /\ pc # "solve"
    BY <2>1 DEF CInv, TInv, TypeOK, LastLength
  <2>. QED
    BY <2>2, ClosedCanonizes
<1>. QED
  BY <1>1, ClosedInvariant, PTL

\* Without an embedded subgraph, what is returned leaves one graph of each class:
\* none is lost and none is left twice.
THEOREM ResultHasOnePerClass == ASSUME ReducerMayFail = FALSE PROVE Spec => []OnePerClass
<1>1. ASSUME TypeOK, Canonizing, LeadersKept, pc \in {"return", "done"}, K = 0,
             NEW g \in Graphs(n)
      PROVE  Cardinality({h \in Allowed(n, Posted) : Isomorphic(n, g, h)}) = 1
  <2>1. n \in 0 .. MaxOrder
    BY <1>1, OrderFacts DEF TypeOK
  <2>2. Allowed(n, Posted) \subseteq LexLeaders[n]
    BY <1>1 DEF Canonizing
  <2>3. LexLeaders[n] \subseteq Allowed(n, Posted)
    <3>1. Sub = {} /\ Edges(K) = {}
      BY <1>1, OrderFacts DEF Edges, Verts
    <3>2. Embeddings(n) = Graphs(n)
      BY <3>1 DEF Embeddings, Graphs
    <3>3. LexLeaders[n] \subseteq Graphs(n)
      BY <2>1 DEF LexLeaders
    <3>. QED
      BY <1>1, <3>2, <3>3 DEF Allowed, LeadersKept
  <2>4. PICK l \in LexLeaders[n] :
          /\ Isomorphic(n, g, l)
          /\ \A h \in LexLeaders[n] : Isomorphic(n, g, h) => h = l
    BY <1>1, <2>1, OneLeader
  <2>5. {h \in Allowed(n, Posted) : Isomorphic(n, g, h)} = {l}
    BY <2>2, <2>3, <2>4
  <2>. QED
    BY <2>5, FS_Singleton
<1>2. TypeOK /\ Canonizing /\ LeadersKept => OnePerClass
  BY <1>1 DEF OnePerClass
<1>. QED
  BY <1>2, TypeCorrect, ResultCanonizes, LeadersAreKept, PTL
=============================================================================
