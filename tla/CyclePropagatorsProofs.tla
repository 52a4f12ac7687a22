------------------------ MODULE CyclePropagatorsProofs ------------------------
(***************************************************************************)
(* The three propagators on cycles of k vertices, for every order N,       *)
(* length k and iteration order, beside any other constraints.  A call     *)
(* sees to every path that begins like its own (WalkInvariant), so that no *)
(* cycle passes unnoticed and what is excluded is in no graph that is      *)
(* sought; the search reports those graphs, each once, and no others       *)
(* (SearchEnumerates).                                                     *)
(***************************************************************************)
EXTENDS CyclePropagators, HamGraphsProofs, SequenceTheorems

-----------------------------------------------------------------------------
(***************************************************************************)
(* The invariants.  A walk is a path of k vertices along the edges that    *)
(* the propagator goes along.                                              *)
(***************************************************************************)
Open == IF kind = "atLeastOne" THEN AllEdges \ zeros ELSE ones
Walks == {p \in SimplePaths(k) : \A j \in 1 .. k - 1 : Edge(p[j], p[j + 1]) \in Open}

\* The path a call begins with.
StartLen == IF kind = "atLeastOne" THEN 1 ELSE 2

\* The cycle is the one that is remembered.
Known(q) == kind = "atMostOne" /\ cycle # null /\ cycleEdges(cycle) = cycleEdges(q)

\* What a call sees to for each walk.
Settled(p) ==
    IF kind = "atMostOne" THEN Edge(p[1], p[k]) \in ones => Known(p)
    ELSE Edge(p[1], p[k]) \in zeros

\* The path is simple and runs along open edges; each of its vertices but the first
\* has its index at the next vertex.
PathInv ==
    /\ currentPath \in Seq(V) /\ Len(currentPath) \in StartLen .. k
    /\ \A j, m \in 1 .. Len(currentPath) : currentPath[j] = currentPath[m] => j = m
    /\ \A j \in 1 .. Len(currentPath) - 1 : Edge(currentPath[j], currentPath[j + 1]) \in Open
    /\ visited = {currentPath[j] : j \in 1 .. Len(currentPath)}

\* The elements of the sequence s are those of S.
Lists(s, S) == s \in Seq(S) /\ {s[j] : j \in 1 .. Len(s)} = S

ListsInv ==
    /\ inds \in [V -> Nat]
    /\ \A x \in V : Lists(adjList[x], Nbrs(Open, x))
    /\ \A j \in StartLen .. Len(currentPath) - 1 :
          /\ inds[currentPath[j]] \in 1 .. Len(adjList[currentPath[j]])
          /\ currentPath[j + 1] = adjList[currentPath[j]][inds[currentPath[j]]]

\* Every walk that goes on from the jth vertex to its mth neighbour has been settled,
\* for each neighbour behind the index.
Walked(j, m) ==
    \A p \in Walks :
        Begins(p, currentPath, j) /\ p[j + 1] = adjList[currentPath[j]][m] => Settled(p)
Behind(j, m) ==
    \/ m < inds[currentPath[j]]
    \/ j = Len(currentPath) /\ m = inds[currentPath[j]]
WalkedInv ==
    \A j \in StartLen .. Len(currentPath) :
        j < k => \A m \in 1 .. Len(adjList[currentPath[j]]) : Behind(j, m) => Walked(j, m)

\* So has every walk from an earlier start.
StartsInv ==
    kind = "atLeastOne" => \A p \in Walks : p[1] < currentPath[1] => Settled(p)

\* What is remembered closes along edges at 1.
RecalledInv == kind = "atMostOne" /\ cycle # null => cycleEdges(cycle) \subseteq ones

WalkInv == PathInv /\ ListsInv /\ WalkedInv /\ StartsInv /\ RecalledInv

IInv ==
    /\ k \in Lengths /\ kind \in Kinds
    /\ pending \subseteq Chords
    /\ kind # "atLeastOne" => \A c \in pending : ends(c) \in ones
    /\ cycle # null => cycle \in SimplePaths(k)
    /\ pc = "search" => WalkInv

\* The worlds: what is at 1 stays at 1 above, with the chord decided.
World == {w \in [ones : SUBSET AllEdges, zeros : SUBSET AllEdges, chord : Chords] :
             Cycle \subseteq w.ones}
Worlds ==
    /\ trail \in Seq(World)
    /\ ones \subseteq AllEdges /\ zeros \subseteq AllEdges /\ Cycle \subseteq ones

Grown(i) == trail[i].ones \cup {ends(trail[i].chord)}
Nested ==
    /\ ones \cap zeros = {}
    /\ \A i \in 1 .. Len(trail) :
          /\ trail[i].ones \cap trail[i].zeros = {}
          /\ ends(trail[i].chord) \notin trail[i].ones \cup trail[i].zeros
          /\ Grown(i) \subseteq ones
          /\ \A j \in i + 1 .. Len(trail) : Grown(i) \subseteq trail[j].ones

\* Every cycle is remembered, or goes through a chord whose call is to come or runs.
Doubtful(q) ==
    \/ \E c \in pending : ends(c) \in cycleEdges(q)
    \/ pc = "search" /\ Edge(currentPath[1], currentPath[2]) \in cycleEdges(q)
CyclesInv ==
    /\ kind # "atLeastOne" =>
          \A q \in SimplePaths(k) :
             /\ pc \in {"idle", "search"} /\ cycleEdges(q) \subseteq ones => Known(q) \/ Doubtful(q)
             /\ \A i \in 1 .. Len(trail) : cycleEdges(q) \subseteq trail[i].ones => Known(q)
    /\ kind = "atLeastOne" /\ pc = "idle" /\ pending = {} =>
          cycle # null /\ cycleEdges(cycle) \cap zeros = {}

\* What is still to come.
Sought == Wanted[kind][k] \cap allowed
Allows(os, zs, g) == os \subseteq g /\ g \cap zs = {}
Refuted(i, g) == Allows(trail[i].ones, trail[i].zeros \cup {ends(trail[i].chord)}, g)
Ahead(g) == Allows(ones, zeros, g) \/ \E i \in 1 .. Len(trail) : Refuted(i, g)
Reasons ==
    /\ pc = "failed" => \A g \in Sought : ~ Allows(ones, zeros, g)
    /\ pc = "solved" => ones \in solutions /\ Undefined = {}
AllAhead == \A g \in Sought : g \in solutions \/ (pc # "done" /\ Ahead(g))
NoneAhead ==
    \A g \in solutions :
        /\ pc \in {"idle", "search"} => ~ Allows(ones, zeros, g)
        /\ \A i \in 1 .. Len(trail) : ~ Refuted(i, g)
EInv ==
    /\ allowed \subseteq Graphs
    /\ IInv /\ Worlds /\ Nested /\ CyclesInv
    /\ Reasons /\ AllAhead /\ NoneAhead
    /\ solutions \subseteq Sought

-----------------------------------------------------------------------------
(***************************************************************************)
(* Cycles of k vertices.                                                   *)
(***************************************************************************)

\* Lengths are from 3, and less than the order.
LEMMA LengthFacts == ASSUME k \in Lengths  PROVE k \in Nat /\ k >= 3 /\ k < N /\ N \in Nat
BY LengthsAssumption, NAssumption

Next1(j) == IF j < k THEN j + 1 ELSE 1
Prev1(j) == IF j > 1 THEN j - 1 ELSE k

\* Which element of an array of k vertices At reads.
LEMMA AtFacts ==
    ASSUME k \in Lengths, NEW c, NEW j \in Int, j > -k, j <= 2 * k
    PROVE  At(c, j) = IF j < 1 THEN c[j + k] ELSE IF j <= k THEN c[j] ELSE c[j - k]
<1>1. k \in Nat /\ k >= 3
  BY LengthFacts
<1>2. ((j - 1) % k) + 1 = IF j < 1 THEN j + k ELSE IF j <= k THEN j ELSE j - k
  BY <1>1
<1>. QED
  BY <1>2 DEF At

\* The places before and after one on a cycle, and what At reads there.
LEMMA NextFacts ==
    ASSUME k \in Lengths, NEW j \in 1 .. k
    PROVE  /\ Next1(j) \in 1 .. k /\ Prev1(j) \in 1 .. k
           /\ Next1(j) # j /\ Prev1(j) # j /\ Next1(j) # Prev1(j)
           /\ Next1(Prev1(j)) = j /\ Prev1(Next1(j)) = j
           /\ \A c : At(c, j + 1) = c[Next1(j)] /\ At(c, j - 1) = c[Prev1(j)]
<1>1. k \in Nat /\ k >= 3 /\ j \in Nat /\ j >= 1 /\ j <= k
  BY LengthFacts
<1>2. \A c : At(c, j + 1) = c[Next1(j)]
  <2>. DEFINE t == j + 1
  <2>1. t \in Int /\ t > -k /\ t <= 2 * k /\ ~ t < 1 /\ Next1(j) = IF t <= k THEN t ELSE t - k
    BY <1>1 DEF Next1
  <2>. HIDE DEF t
  <2>2. \A c : At(c, t) = IF t < 1 THEN c[t + k] ELSE IF t <= k THEN c[t] ELSE c[t - k]
    BY <2>1, AtFacts
  <2>3. \A c : At(c, t) = c[Next1(j)]
    BY <2>1, <2>2
  <2>. QED
    BY <2>3 DEF t
<1>3. \A c : At(c, j - 1) = c[Prev1(j)]
  <2>1. j - 1 \in Int /\ j - 1 > -k /\ j - 1 <= 2 * k /\ (j = 1 => j - 1 + k = k)
    BY <1>1
  <2>2. \A c : At(c, j - 1) = IF j - 1 < 1 THEN c[j - 1 + k] ELSE IF j - 1 <= k THEN c[j - 1] ELSE c[j - 1 - k]
    BY <2>1, AtFacts
  <2>3. CASE j > 1
    <3>1. ~ j - 1 < 1 /\ j - 1 <= k /\ Prev1(j) = j - 1
      BY <1>1, <2>3 DEF Prev1
    <3>. QED
      BY <2>2, <3>1
  <2>4. CASE j = 1
    <3>1. j - 1 < 1 /\ j - 1 + k = k /\ Prev1(j) = k
      BY <1>1, <2>4 DEF Prev1
    <3>. QED
      BY <2>2, <3>1
  <2>. QED
    BY <1>1, <2>3, <2>4
<1>4. /\ Next1(j) \in 1 .. k /\ Prev1(j) \in 1 .. k
      /\ Next1(j) # j /\ Prev1(j) # j /\ Next1(j) # Prev1(j)
      /\ Next1(Prev1(j)) = j /\ Prev1(Next1(j)) = j
  BY <1>1 DEF Next1, Prev1
<1>. QED
  BY <1>2, <1>3, <1>4

\* A simple path has k different vertices.
LEMMA SimpleFacts ==
    ASSUME NEW q \in SimplePaths(k)
    PROVE  q \in [1 .. k -> V] /\ (\A j \in 1 .. k : q[j] \in V) /\ \A j, m \in 1 .. k : q[j] = q[m] => j = m
BY DEF SimplePaths

\* The edges of a cycle, by the place of either end.
LEMMA CycleEdgesFacts ==
    ASSUME k \in Lengths, NEW q \in SimplePaths(k)
    PROVE  /\ cycleEdges(q) = {Edge(q[j], q[Next1(j)]) : j \in 1 .. k}
           /\ cycleEdges(q) \subseteq AllEdges
           /\ \A j \in 1 .. k : /\ Edge(q[j], q[Next1(j)]) \in cycleEdges(q)
                                /\ Edge(q[j], q[Prev1(j)]) \in cycleEdges(q)
           /\ \A j \in 1 .. k - 1 : Edge(q[j], q[j + 1]) \in cycleEdges(q)
           /\ Edge(q[1], q[k]) \in cycleEdges(q)
           /\ \A j \in 1 .. k : \A x : Edge(q[j], x) \in cycleEdges(q) => x = q[Next1(j)] \/ x = q[Prev1(j)]
<1>0. k \in Nat /\ k >= 3
  BY LengthFacts
<1>1. cycleEdges(q) = {Edge(q[j], q[Next1(j)]) : j \in 1 .. k}
  <2>1. \A j \in 1 .. k : At(q, j + 1) = q[Next1(j)]
    BY NextFacts
  <2>. QED
    BY <2>1 DEF cycleEdges
<1>2. \A j \in 1 .. k : Next1(j) \in 1 .. k /\ Prev1(j) \in 1 .. k /\ Next1(j) # j /\ Next1(Prev1(j)) = j /\ Prev1(Next1(j)) = j
  BY NextFacts
<1>3. cycleEdges(q) \subseteq AllEdges
  <2>1. ASSUME NEW j \in 1 .. k  PROVE Edge(q[j], q[Next1(j)]) \in AllEdges
    <3>1. q[j] \in V /\ q[Next1(j)] \in V /\ q[j] # q[Next1(j)]
      BY <1>2, SimpleFacts
    <3>. QED
      BY <3>1, EdgeIn
  <2>. QED
    BY <1>1, <2>1
<1>4. ASSUME NEW j \in 1 .. k
      PROVE  Edge(q[j], q[Next1(j)]) \in cycleEdges(q) /\ Edge(q[j], q[Prev1(j)]) \in cycleEdges(q)
  <2>1. Edge(q[Prev1(j)], q[Next1(Prev1(j))]) \in cycleEdges(q) /\ Next1(Prev1(j)) = j
    BY <1>1, <1>2
  <2>2. Edge(q[Prev1(j)], q[j]) = Edge(q[j], q[Prev1(j)])
    BY DEF Edge
  <2>. QED
    BY <1>1, <2>1, <2>2
<1>5. \A j \in 1 .. k - 1 : Edge(q[j], q[j + 1]) \in cycleEdges(q)
  <2>1. \A j \in 1 .. k - 1 : j \in 1 .. k /\ Next1(j) = j + 1
    BY <1>0 DEF Next1
  <2>. QED
    BY <1>4, <2>1
<1>6. Edge(q[1], q[k]) \in cycleEdges(q)
  <2>1. 1 \in 1 .. k /\ Prev1(1) = k
    BY <1>0 DEF Prev1
  <2>. QED
    BY <1>4, <2>1
<1>7. ASSUME NEW j \in 1 .. k, NEW x, Edge(q[j], x) \in cycleEdges(q)
      PROVE  x = q[Next1(j)] \/ x = q[Prev1(j)]
  <2>1. PICK m \in 1 .. k : Edge(q[j], x) = Edge(q[m], q[Next1(m)])
    BY <1>1, <1>7
  <2>2. (q[j] = q[m] /\ x = q[Next1(m)]) \/ (q[j] = q[Next1(m)] /\ x = q[m])
    BY <2>1, EdgeEnds
  <2>3. (j = m /\ x = q[Next1(m)]) \/ (j = Next1(m) /\ x = q[m])
    BY <1>2, <2>2, SimpleFacts
  <2>. QED
    BY <1>2, <2>3
<1>. QED
  BY <1>1, <1>3, <1>4, <1>5, <1>6, <1>7

\* A cycle read from its mth vertex, forwards or backwards.
Reading(c, m, s) == [j \in 1 .. k |-> At(c, m + s * (j - 1))]

\* A cycle read from its mth vertex on in the direction of the array is the same cycle.
LEMMA ReadForwards ==
    ASSUME k \in Lengths, NEW c \in SimplePaths(k), NEW m \in 1 .. k
    PROVE  LET q == Reading(c, m, 1) IN
           /\ q \in SimplePaths(k) /\ cycleEdges(q) = cycleEdges(c)
           /\ q[1] = c[m] /\ q[2] = c[Next1(m)] /\ q[k] = c[Prev1(m)]
<1>. DEFINE q == Reading(c, m, 1)
            at(j) == IF m + j - 1 <= k THEN m + j - 1 ELSE m + j - 1 - k
            back(t) == IF t >= m THEN t - m + 1 ELSE t - m + 1 + k
<1>1. k \in Nat /\ k >= 3 /\ m \in Nat /\ m >= 1 /\ m <= k
  BY LengthFacts
<1>2. ASSUME NEW j \in 1 .. k
      PROVE  at(j) \in 1 .. k /\ q[j] = c[at(j)] /\ at(Next1(j)) = Next1(at(j))
  <2>1. /\ j \in Nat /\ 1 <= j /\ j <= k /\ m + 1 * (j - 1) = m + j - 1
        /\ m + j - 1 \in Int /\ m + j - 1 >= 1 /\ m + j - 1 <= 2 * k
    BY <1>1
  <2>2. at(j) \in 1 .. k
    BY <1>1, <2>1
  <2>3. q[j] = At(c, m + j - 1)
    BY <2>1 DEF Reading
  <2>4. At(c, m + j - 1) = c[at(j)]
    <3>. DEFINE t == m + j - 1
    <3>1. t \in Int /\ t >= 1 /\ t <= 2 * k /\ t > -k
      BY <1>1, <2>1
    <3>2. at(j) = IF t <= k THEN t ELSE t - k
      BY <1>1, <2>1 DEF t, at
    <3>. HIDE DEF t, at
    <3>3. At(c, t) = IF t < 1 THEN c[t + k] ELSE IF t <= k THEN c[t] ELSE c[t - k]
      BY <3>1, AtFacts
    <3>4. At(c, t) = c[at(j)]
      BY <3>1, <3>2, <3>3
    <3>. QED
      BY <3>4 DEF t
  <2>5. at(Next1(j)) = Next1(at(j))
    <3>1. CASE j = k
      <4>1. Next1(j) = 1 /\ at(1) = m
        BY <1>1, <3>1 DEF Next1
      <4>2. at(j) = IF m = 1 THEN k ELSE m - 1
        BY <1>1, <3>1
      <4>3. Next1(at(j)) = m
        BY <1>1, <4>2 DEF Next1
      <4>. QED
        BY <4>1, <4>3
    <3>2. CASE j < k
      <4>1. Next1(j) = j + 1
        BY <3>2 DEF Next1
      <4>2. CASE m + j - 1 < k
        <5>1. at(j) = m + j - 1 /\ at(j + 1) = m + j
          BY <1>1, <2>1, <4>2
        <5>. QED
          BY <1>1, <2>1, <4>1, <4>2, <5>1 DEF Next1
      <4>3. CASE m + j - 1 >= k
        <5>1. at(j) = (IF m + j - 1 = k THEN k ELSE m + j - 1 - k) /\ at(j + 1) = m + j - k
          BY <1>1, <2>1, <4>3
        <5>2. CASE m + j - 1 = k
          BY <1>1, <2>1, <4>1, <5>1, <5>2 DEF Next1
        <5>3. CASE m + j - 1 # k
          BY <1>1, <2>1, <3>2, <4>1, <4>3, <5>1, <5>3 DEF Next1
        <5>. QED
          BY <5>2, <5>3
      <4>4. m + j - 1 < k \/ m + j - 1 >= k
        BY <1>1, <2>1
      <4>. QED
        BY <4>2, <4>3, <4>4
    <3>3. j = k \/ j < k
      BY <1>1, <2>1
    <3>. QED
      BY <3>1, <3>2, <3>3
  <2>. QED
    BY <2>2, <2>3, <2>4, <2>5
<1>3. \A j, i \in 1 .. k : at(j) = at(i) => j = i
  BY <1>1
<1>4. \A t \in 1 .. k : back(t) \in 1 .. k /\ at(back(t)) = t
  BY <1>1
<1>5. at(1) = m /\ at(2) = Next1(m) /\ at(k) = Prev1(m)
  BY <1>1 DEF Next1, Prev1
<1>. HIDE DEF at, back, q
<1>6. q \in SimplePaths(k)
  <2>1. q = [j \in 1 .. k |-> q[j]]
    BY DEF q, Reading
  <2>2. \A j \in 1 .. k : q[j] \in V
    BY <1>2, SimpleFacts
  <2>3. ASSUME NEW j \in 1 .. k, NEW i \in 1 .. k, q[j] = q[i]  PROVE j = i
    <3>1. at(j) \in 1 .. k /\ at(i) \in 1 .. k /\ c[at(j)] = c[at(i)]
      BY <1>2, <2>3
    <3>2. at(j) = at(i)
      BY <3>1, SimpleFacts
    <3>. QED
      BY <1>3, <3>2
  <2>. QED
    BY <2>1, <2>2, <2>3 DEF SimplePaths
<1>7. cycleEdges(q) = cycleEdges(c)
  <2>1. cycleEdges(q) = {Edge(q[j], q[Next1(j)]) : j \in 1 .. k} /\ cycleEdges(c) = {Edge(c[j], c[Next1(j)]) : j \in 1 .. k}
    BY <1>6, CycleEdgesFacts
  <2>2. ASSUME NEW j \in 1 .. k  PROVE Edge(q[j], q[Next1(j)]) = Edge(c[at(j)], c[Next1(at(j))])
    <3>1. Next1(j) \in 1 .. k
      BY NextFacts
    <3>. QED
      BY <1>2, <3>1
  <2>3. \A t \in 1 .. k : \E j \in 1 .. k : at(j) = t
    BY <1>4
  <2>. QED
    BY <1>2, <2>1, <2>2, <2>3
<1>8. q[1] = c[m] /\ q[2] = c[Next1(m)] /\ q[k] = c[Prev1(m)]
  <2>1. 1 \in 1 .. k /\ 2 \in 1 .. k /\ k \in 1 .. k
    BY <1>1
  <2>. QED
    BY <1>2, <1>5, <2>1
<1>. QED
  BY <1>6, <1>7, <1>8 DEF q

\* So is it when read in the other direction.
LEMMA ReadBackwards ==
    ASSUME k \in Lengths, NEW c \in SimplePaths(k), NEW m \in 1 .. k
    PROVE  LET q == Reading(c, m, -1) IN
           /\ q \in SimplePaths(k) /\ cycleEdges(q) = cycleEdges(c)
           /\ q[1] = c[m] /\ q[2] = c[Prev1(m)] /\ q[k] = c[Next1(m)]
<1>. DEFINE q == Reading(c, m, -1)
            at(j) == IF m - j + 1 >= 1 THEN m - j + 1 ELSE m - j + 1 + k
<1>1. k \in Nat /\ k >= 3 /\ m \in Nat /\ m >= 1 /\ m <= k
  BY LengthFacts
<1>2. ASSUME NEW j \in 1 .. k
      PROVE  at(j) \in 1 .. k /\ q[j] = c[at(j)] /\ at(Next1(j)) = Prev1(at(j)) /\ Next1(at(Next1(j))) = at(j)
  <2>1. /\ j \in Nat /\ 1 <= j /\ j <= k /\ m + (-1) * (j - 1) = m - j + 1
        /\ m - j + 1 \in Int /\ m - j + 1 > -k /\ m - j + 1 <= k
    BY <1>1
  <2>2. at(j) \in 1 .. k
    BY <1>1, <2>1
  <2>3. q[j] = At(c, m - j + 1)
    BY <2>1 DEF Reading
  <2>4. At(c, m - j + 1) = c[at(j)]
    <3>. DEFINE t == m - j + 1
    <3>1. t \in Int /\ t <= k /\ t <= 2 * k /\ t > -k
      BY <1>1, <2>1
    <3>. HIDE DEF t
    <3>2. At(c, t) = IF t < 1 THEN c[t + k] ELSE IF t <= k THEN c[t] ELSE c[t - k]
      BY <3>1, AtFacts
    <3>3. At(c, t) = IF t >= 1 THEN c[t] ELSE c[t + k]
      BY <3>1, <3>2
    <3>. QED
      BY <3>3 DEF t
  <2>5. at(Next1(j)) = Prev1(at(j))
    BY <1>1, <2>1 DEF Next1, Prev1
  <2>6. Next1(at(Next1(j))) = at(j)
    BY <2>2, <2>5, NextFacts
  <2>. QED
    BY <2>2, <2>3, <2>4, <2>5, <2>6
<1>3. \A j, i \in 1 .. k : at(j) = at(i) => j = i
  BY <1>1
<1>4. \A t \in 1 .. k : at(at(t)) = t /\ at(t) \in 1 .. k
  BY <1>1
<1>5. at(1) = m /\ at(2) = Prev1(m) /\ at(k) = Next1(m)
  BY <1>1 DEF Next1, Prev1
<1>. HIDE DEF at, q
<1>6. q \in SimplePaths(k)
  <2>1. q = [j \in 1 .. k |-> q[j]]
    BY DEF q, Reading
  <2>2. \A j \in 1 .. k : q[j] \in V
    BY <1>2, SimpleFacts
  <2>3. ASSUME NEW j \in 1 .. k, NEW i \in 1 .. k, q[j] = q[i]  PROVE j = i
    <3>1. at(j) \in 1 .. k /\ at(i) \in 1 .. k /\ c[at(j)] = c[at(i)]
      BY <1>2, <2>3
    <3>2. at(j) = at(i)
      BY <3>1, SimpleFacts
    <3>. QED
      BY <1>3, <3>2
  <2>. QED
    BY <2>1, <2>2, <2>3 DEF SimplePaths
<1>7. cycleEdges(q) = cycleEdges(c)
  <2>1. cycleEdges(q) = {Edge(q[j], q[Next1(j)]) : j \in 1 .. k} /\ cycleEdges(c) = {Edge(c[j], c[Next1(j)]) : j \in 1 .. k}
    BY <1>6, CycleEdgesFacts
  <2>2. ASSUME NEW j \in 1 .. k
        PROVE  /\ at(Next1(j)) \in 1 .. k
               /\ Edge(q[j], q[Next1(j)]) = Edge(c[at(Next1(j))], c[Next1(at(Next1(j)))])
    <3>1. Next1(j) \in 1 .. k
      BY NextFacts
    <3>2. q[j] = c[Next1(at(Next1(j)))] /\ q[Next1(j)] = c[at(Next1(j))] /\ at(Next1(j)) \in 1 .. k
      BY <1>2, <3>1
    <3>. QED
      BY <3>2 DEF Edge
  <2>3. \A t \in 1 .. k : \E j \in 1 .. k : at(Next1(j)) = t
    <3>1. TAKE t \in 1 .. k
    <3>2. at(t) \in 1 .. k /\ at(at(t)) = t
      BY <1>4
    <3>3. Prev1(at(t)) \in 1 .. k /\ Next1(Prev1(at(t))) = at(t)
      BY <3>2, NextFacts
    <3>. QED
      BY <3>2, <3>3
  <2>. QED
    BY <2>1, <2>2, <2>3
<1>8. q[1] = c[m] /\ q[2] = c[Prev1(m)] /\ q[k] = c[Next1(m)]
  <2>1. 1 \in 1 .. k /\ 2 \in 1 .. k /\ k \in 1 .. k
    BY <1>1
  <2>. QED
    BY <1>2, <1>5, <2>1
<1>. QED
  BY <1>6, <1>7, <1>8 DEF q

-----------------------------------------------------------------------------
\* A cycle can be read from either end of each of its edges.
LEMMA ReadFromEdge ==
    ASSUME k \in Lengths, NEW q \in SimplePaths(k), NEW x, NEW y, Edge(x, y) \in cycleEdges(q)
    PROVE  \E r \in SimplePaths(k) : r[1] = x /\ r[2] = y /\ cycleEdges(r) = cycleEdges(q)
<1>1. PICK j \in 1 .. k : Edge(x, y) = Edge(q[j], q[Next1(j)])
  BY CycleEdgesFacts
<1>2. Next1(j) \in 1 .. k /\ Prev1(Next1(j)) = j
  BY NextFacts
<1>3. CASE x = q[j] /\ y = q[Next1(j)]
  BY <1>3, ReadForwards
<1>4. CASE x = q[Next1(j)] /\ y = q[j]
  BY <1>2, <1>4, ReadBackwards
<1>. QED
  BY <1>1, <1>3, <1>4, EdgeEnds

\* A vertex of a cycle has two neighbours on it.
LEMMA CycleNbrs ==
    ASSUME k \in Lengths, NEW q \in SimplePaths(k), NEW j \in 1 .. k, NEW x, Edge(q[j], x) \in cycleEdges(q)
    PROVE  x = q[Next1(j)] \/ x = q[Prev1(j)]
BY CycleEdgesFacts

\* The edges of a cycle go through every vertex of it, and through no other.
LEMMA CycleVertices ==
    ASSUME k \in Lengths, NEW q \in SimplePaths(k), NEW d \in cycleEdges(q), NEW x \in d
    PROVE  \E j \in 1 .. k : x = q[j]
<1>1. PICK j \in 1 .. k : d = Edge(q[j], q[Next1(j)])
  BY CycleEdgesFacts
<1>2. x = q[j] \/ x = q[Next1(j)]
  BY <1>1 DEF Edge
<1>. QED
  BY <1>2, NextFacts

\* The fixed cycle has no shorter cycle in it: it would contain with a vertex the next.
LEMMA NoShortCycle ==
    ASSUME k \in Lengths, NEW q \in SimplePaths(k)
    PROVE  ~ cycleEdges(q) \subseteq Cycle
<1>. SUFFICES ASSUME cycleEdges(q) \subseteq Cycle  PROVE FALSE
  OBVIOUS
<1>. DEFINE S == {q[j] : j \in 1 .. k}
<1>1. k \in Nat /\ k >= 3 /\ k < N /\ N \in Nat
  BY LengthFacts
<1>2. q \in [1 .. k -> V] /\ (\A j \in 1 .. k : q[j] \in V) /\ \A j, m \in 1 .. k : q[j] = q[m] => j = m
  BY SimpleFacts
<1>3. ASSUME NEW x \in S  PROVE Mod(x - 1) \in S
  <2>1. PICK j \in 1 .. k : x = q[j]
    OBVIOUS
  <2>2. Next1(j) \in 1 .. k /\ Prev1(j) \in 1 .. k /\ Next1(j) # Prev1(j)
    BY NextFacts
  <2>3. q[Next1(j)] # q[Prev1(j)] /\ q[Next1(j)] \in S /\ q[Prev1(j)] \in S
    BY <1>2, <2>2
  <2>4. Edge(x, q[Next1(j)]) \in Cycle /\ Edge(x, q[Prev1(j)]) \in Cycle
    BY <2>1, CycleEdgesFacts
  <2>5. x \in V
    BY <1>2, <2>1
  <2>. QED
    BY <2>3, <2>4, <2>5, FixedNbrs
<1>4. S \subseteq V /\ S \subseteq Nat /\ q[1] \in S
  <2>1. V \subseteq Nat /\ 1 \in 1 .. k
    BY <1>1, VFacts
  <2>2. S \subseteq V
    BY <1>2
  <2>. QED
    BY <2>1, <2>2
<1>. HIDE DEF S
<1>5. ASSUME NEW x \in S, x > 0  PROVE x - 1 \in S
  <2>1. x \in Nat /\ x < N
    BY <1>1, <1>4 DEF V
  <2>2. x - 1 \in Int /\ x - 1 >= 0 /\ x - 1 < N
    BY <1>1, <1>5, <2>1
  <2>3. Mod(x - 1) = x - 1
    BY <1>1, <2>2, ModFacts
  <2>. QED
    BY <1>3, <2>3
<1>6. 0 \in S
  <2>1. PICK x \in S : \A y \in S : x <= y
    BY <1>4, LeastNat
  <2>2. x \in Nat
    BY <1>4
  <2>3. x = 0 \/ x - 1 \in S
    BY <1>5, <2>2
  <2>. QED
    BY <2>1, <2>2, <2>3
<1>7. V \subseteq S
  <2>. SUFFICES ASSUME ~ V \subseteq S  PROVE FALSE
    OBVIOUS
  <2>1. N - 1 \in S
    <3>1. Mod(0 - 1) = N - 1
      BY <1>1, ModFacts
    <3>. QED
      BY <1>3, <1>6, <3>1
  <2>. DEFINE T == {n \in Nat : n < N /\ N - 1 - n \notin S}
  <2>2. T \subseteq Nat
    OBVIOUS
  <2>3. T # {}
    <3>1. PICK y \in V : y \notin S
      OBVIOUS
    <3>2. y \in Nat /\ y < N
      BY <1>1 DEF V
    <3>3. N - 1 - y \in Nat /\ N - 1 - y < N /\ N - 1 - (N - 1 - y) = y
      BY <1>1, <3>2
    <3>. QED
      BY <3>1, <3>3
  <2>. HIDE DEF T
  <2>4. PICK n \in T : \A y \in T : n <= y
    BY <2>2, <2>3, LeastNat
  <2>5. n \in Nat /\ n < N /\ N - 1 - n \notin S
    BY DEF T
  <2>6. n # 0
    BY <1>1, <2>1, <2>5
  <2>7. n - 1 \in Nat /\ n - 1 < N /\ ~ n <= n - 1
    BY <1>1, <2>5, <2>6
  <2>8. N - 1 - (n - 1) \in S
    BY <2>4, <2>7 DEF T
  <2>9. N - 1 - (n - 1) > 0 /\ N - 1 - (n - 1) - 1 = N - 1 - n
    BY <1>1, <2>5
  <2>. QED
    BY <1>5, <2>5, <2>8, <2>9
<1>8. \A x \in V : \E j \in 1 .. k : q[j] = x
  BY <1>7 DEF S
<1>. DEFINE f == [x \in V |-> CHOOSE j \in 1 .. k : q[j] = x]
<1>9. f \in [V -> 1 .. k] /\ \A x \in V : q[f[x]] = x
  BY <1>8
<1>. HIDE DEF f
<1>10. IsFiniteSet(V) /\ Cardinality(V) = N
  BY VFacts
<1>11. IsFiniteSet(1 .. k) /\ Cardinality(1 .. k) = k
  BY <1>1, FS_Interval
<1>12. \E x, y \in V : x # y /\ f[x] = f[y]
  BY <1>1, <1>9, <1>10, <1>11, FS_PigeonHole
<1>. QED
  BY <1>9, <1>12

\* isSameCycle compares the readings from the least vertex towards the greater of its
\* neighbours.
LEMMA Canonical ==
    ASSUME k \in Lengths, NEW c \in SimplePaths(k)
    PROVE  \E r \in SimplePaths(k) :
              /\ cycleEdges(r) = cycleEdges(c)
              /\ \A j \in 1 .. k : r[1] <= r[j]
              /\ r[k] < r[2]
              /\ fromLeast(c) = [j \in 0 .. k - 1 |-> r[j + 1]]
<1>. DEFINE m == minIndex(c)
            s == IF At(c, m - 1) < At(c, m + 1) THEN 1 ELSE -1
<1>1. k \in Nat /\ k >= 3
  BY LengthFacts
<1>2. c \in [1 .. k -> V] /\ (\A j \in 1 .. k : c[j] \in V) /\ \A j, i \in 1 .. k : c[j] = c[i] => j = i
  BY SimpleFacts
<1>3. m \in 1 .. k /\ \A j \in 1 .. k : c[m] <= c[j]
  <2>. DEFINE T == {c[j] : j \in 1 .. k}
  <2>1. T \subseteq Nat /\ T # {}
    <3>1. V \subseteq Nat /\ 1 \in 1 .. k
      BY <1>1, VFacts
    <3>2. \A j \in 1 .. k : c[j] \in Nat
      BY <1>2, <3>1
    <3>. QED
      BY <3>1, <3>2
  <2>2. \E x \in T : \A y \in T : x <= y
    <3>. HIDE DEF T
    <3>. QED
      BY <2>1, LeastNat
  <2>3. \E j \in 1 .. k : \A i \in 1 .. k : c[j] <= c[i]
    BY <2>2
  <2>. QED
    BY <2>3 DEF minIndex
<1>. HIDE DEF m
<1>4. /\ Next1(m) \in 1 .. k /\ Prev1(m) \in 1 .. k /\ Next1(m) # Prev1(m)
      /\ At(c, m + 1) = c[Next1(m)] /\ At(c, m - 1) = c[Prev1(m)]
  BY <1>3, NextFacts
<1>5. /\ c[Next1(m)] \in Nat /\ c[Prev1(m)] \in Nat /\ c[Next1(m)] # c[Prev1(m)]
  BY <1>2, <1>4, VFacts
<1>6. fromLeast(c) = [j \in 0 .. k - 1 |-> At(c, m + s * j)]
  BY DEF fromLeast, m
<1>7. s = IF c[Prev1(m)] < c[Next1(m)] THEN 1 ELSE -1
  BY <1>4
<1>. HIDE DEF s
<1>8. s \in {1, -1}
  BY <1>7
<1>. DEFINE r == Reading(c, m, s)
<1>9. /\ r \in SimplePaths(k) /\ cycleEdges(r) = cycleEdges(c) /\ r[1] = c[m] /\ r[k] < r[2]
  <2>1. CASE c[Prev1(m)] < c[Next1(m)]
    <3>1. s = 1
      BY <1>7, <2>1
    <3>. QED
      BY <1>3, <2>1, <3>1, ReadForwards
  <2>2. CASE ~ c[Prev1(m)] < c[Next1(m)]
    <3>1. s = -1
      BY <1>7, <2>2
    <3>2. c[Next1(m)] < c[Prev1(m)]
      BY <1>5, <2>2
    <3>. QED
      BY <1>3, <3>1, <3>2, ReadBackwards
  <2>. QED
    BY <2>1, <2>2
<1>10. \A j \in 0 .. k - 1 : At(c, m + s * j) = r[j + 1]
  <2>. TAKE j \in 0 .. k - 1
  <2>1. j + 1 \in 1 .. k /\ (j + 1) - 1 = j
    BY <1>1
  <2>. QED
    BY <2>1 DEF Reading
<1>. HIDE DEF r
<1>11. \A j \in 1 .. k : r[1] <= r[j]
  <2>. TAKE j \in 1 .. k
  <2>1. Edge(r[j], r[Next1(j)]) \in cycleEdges(c) /\ r[j] \in Edge(r[j], r[Next1(j)])
    BY <1>9, CycleEdgesFacts DEF Edge
  <2>2. \E i \in 1 .. k : r[j] = c[i]
    BY <2>1, CycleVertices
  <2>. QED
    BY <1>3, <1>9, <2>2
<1>. QED
  BY <1>6, <1>9, <1>10, <1>11

\* Two canonical readings of the same edges are the same.
LEMMA CanonicalUnique ==
    ASSUME k \in Lengths, NEW q \in SimplePaths(k), NEW r \in SimplePaths(k),
           cycleEdges(q) = cycleEdges(r),
           \A j \in 1 .. k : q[1] <= q[j], \A j \in 1 .. k : r[1] <= r[j],
           q[k] < q[2], r[k] < r[2]
    PROVE  \A j \in 1 .. k : q[j] = r[j]
<1>1. k \in Nat /\ k >= 3 /\ 1 \in 1 .. k /\ 2 \in 1 .. k /\ k \in 1 .. k
  BY LengthFacts
<1>2. /\ \A j \in 1 .. k : q[j] \in Nat /\ r[j] \in Nat
      /\ \A j, i \in 1 .. k : q[j] = q[i] => j = i
      /\ \A j, i \in 1 .. k : r[j] = r[i] => j = i
  <2>1. V \subseteq Nat
    BY VFacts
  <2>. QED
    BY <2>1, SimpleFacts
<1>3. q[1] = r[1]
  <2>1. \E j \in 1 .. k : q[1] = r[j]
    <3>1. Edge(q[1], q[k]) \in cycleEdges(r) /\ q[1] \in Edge(q[1], q[k])
      BY CycleEdgesFacts DEF Edge
    <3>. QED
      BY <3>1, CycleVertices
  <2>2. \E j \in 1 .. k : r[1] = q[j]
    <3>1. Edge(r[1], r[k]) \in cycleEdges(q) /\ r[1] \in Edge(r[1], r[k])
      BY CycleEdgesFacts DEF Edge
    <3>. QED
      BY <3>1, CycleVertices
  <2>3. r[1] <= q[1] /\ q[1] <= r[1] /\ q[1] \in Nat /\ r[1] \in Nat
    BY <1>1, <1>2, <2>1, <2>2
  <2>. QED
    BY <2>3
<1>4. Next1(1) = 2 /\ Prev1(1) = k
  BY <1>1 DEF Next1, Prev1
<1>5. q[2] = r[2]
  <2>1. Edge(q[1], q[2]) \in cycleEdges(q) /\ Edge(q[1], q[k]) \in cycleEdges(q)
    BY <1>1, <1>4, CycleEdgesFacts
  <2>2. Edge(r[1], q[2]) \in cycleEdges(r) /\ Edge(r[1], q[k]) \in cycleEdges(r)
    BY <1>3, <2>1
  <2>3. (q[2] = r[2] \/ q[2] = r[k]) /\ (q[k] = r[2] \/ q[k] = r[k])
    <3>1. q[2] = r[Next1(1)] \/ q[2] = r[Prev1(1)]
      BY <1>1, <2>2, CycleNbrs
    <3>2. q[k] = r[Next1(1)] \/ q[k] = r[Prev1(1)]
      BY <1>1, <2>2, CycleNbrs
    <3>. QED
      BY <1>4, <3>1, <3>2
  <2>4. q[2] \in Nat /\ q[k] \in Nat /\ r[2] \in Nat /\ r[k] \in Nat
    BY <1>1, <1>2
  <2>. QED
    BY <2>3, <2>4
<1>. SUFFICES ASSUME ~ \A j \in 1 .. k : q[j] = r[j]  PROVE FALSE
  OBVIOUS
<1>. DEFINE T == {j \in 1 .. k : q[j] # r[j]}
<1>6. T \subseteq Nat /\ T # {}
  BY <1>1
<1>. HIDE DEF T
<1>7. PICK j \in T : \A i \in T : j <= i
  BY <1>6, LeastNat
<1>8. j \in 1 .. k /\ q[j] # r[j]
  BY DEF T
<1>9. j # 1 /\ j # 2
  BY <1>3, <1>5, <1>8
<1>10. j \in Nat /\ j - 1 \in 1 .. k /\ j - 2 \in 1 .. k /\ ~ j <= j - 1 /\ ~ j <= j - 2
  BY <1>1, <1>8, <1>9
<1>11. q[j - 1] = r[j - 1] /\ q[j - 2] = r[j - 2]
  BY <1>7, <1>10 DEF T
<1>12. Next1(j - 1) = j /\ Prev1(j - 1) = j - 2
  BY <1>1, <1>8, <1>9 DEF Next1, Prev1
<1>13. Edge(q[j - 1], q[j]) \in cycleEdges(q)
  BY <1>10, <1>12, CycleEdgesFacts
<1>14. Edge(r[j - 1], q[j]) \in cycleEdges(r)
  BY <1>11, <1>13
<1>15. q[j] = r[j] \/ q[j] = r[j - 2]
  <2>1. q[j] = r[Next1(j - 1)] \/ q[j] = r[Prev1(j - 1)]
    BY <1>10, <1>14, CycleNbrs
  <2>. QED
    BY <1>12, <2>1
<1>16. q[j] = q[j - 2]
  BY <1>8, <1>11, <1>15
<1>. QED
  BY <1>2, <1>8, <1>10, <1>16

\* Utils.isSameCycle compares cycles: it is true of two arrays that have the same edges,
\* and of no others.
LEMMA SameCycle ==
    ASSUME k \in Lengths, NEW c1 \in SimplePaths(k), NEW c2 \in SimplePaths(k)
    PROVE  isSameCycle(c1, c2) <=> cycleEdges(c1) = cycleEdges(c2)
<1>1. PICK q \in SimplePaths(k) :
              /\ cycleEdges(q) = cycleEdges(c1)
              /\ \A j \in 1 .. k : q[1] <= q[j]
              /\ q[k] < q[2]
              /\ fromLeast(c1) = [j \in 0 .. k - 1 |-> q[j + 1]]
  BY Canonical
<1>2. PICK r \in SimplePaths(k) :
              /\ cycleEdges(r) = cycleEdges(c2)
              /\ \A j \in 1 .. k : r[1] <= r[j]
              /\ r[k] < r[2]
              /\ fromLeast(c2) = [j \in 0 .. k - 1 |-> r[j + 1]]
  BY Canonical
<1>3. k \in Nat /\ k >= 3
  BY LengthFacts
<1>4. ASSUME cycleEdges(c1) = cycleEdges(c2)  PROVE isSameCycle(c1, c2)
  <2>1. \A j \in 1 .. k : q[j] = r[j]
    BY <1>1, <1>2, <1>4, CanonicalUnique
  <2>2. \A j \in 0 .. k - 1 : j + 1 \in 1 .. k
    BY <1>3
  <2>3. \A j \in 0 .. k - 1 : q[j + 1] = r[j + 1]
    BY <2>1, <2>2
  <2>. QED
    BY <1>1, <1>2, <2>3 DEF isSameCycle
<1>5. ASSUME isSameCycle(c1, c2)  PROVE cycleEdges(c1) = cycleEdges(c2)
  <2>1. [j \in 0 .. k - 1 |-> q[j + 1]] = [j \in 0 .. k - 1 |-> r[j + 1]]
    BY <1>1, <1>2, <1>5 DEF isSameCycle
  <2>2. ASSUME NEW j \in 1 .. k  PROVE q[j] = r[j]
    <3>1. j - 1 \in 0 .. k - 1 /\ (j - 1) + 1 = j
      BY <1>3
    <3>2. q[(j - 1) + 1] = r[(j - 1) + 1]
      BY <2>1, <3>1
    <3>. QED
      BY <3>1, <3>2
  <2>3. /\ cycleEdges(q) = {Edge(q[j], q[Next1(j)]) : j \in 1 .. k}
        /\ cycleEdges(r) = {Edge(r[j], r[Next1(j)]) : j \in 1 .. k}
    BY CycleEdgesFacts
  <2>4. \A j \in 1 .. k : Next1(j) \in 1 .. k
    BY NextFacts
  <2>5. cycleEdges(q) = cycleEdges(r)
    BY <2>2, <2>3, <2>4
  <2>. QED
    BY <1>1, <1>2, <2>5
<1>. QED
  BY <1>4, <1>5

\* The reference's cycles are those of the arrays.
LEMMA CyclesOfMeans ==
    ASSUME k \in Lengths, NEW g
    PROVE  CyclesOf(g, k) = {c \in {cycleEdges(q) : q \in SimplePaths(k)} : c \subseteq g}
<1>1. k \in Nat /\ k >= 3
  BY LengthFacts
<1>2. \A q, j : j \in 1 .. k => At(q, j + 1) = q[(j % k) + 1]
  <2>1. \A j \in 1 .. k : (j + 1) - 1 = j
    BY <1>1
  <2>. QED
    BY <2>1 DEF At
<1>3. \A q : cycleEdges(q) = {Edge(q[j], q[(j % k) + 1]) : j \in 1 .. k}
  BY <1>2 DEF cycleEdges
<1>4. AllCycles[k] = {{Edge(p[j], p[(j % k) + 1]) : j \in 1 .. k} : p \in SimplePaths(k)}
  BY DEF AllCycles
<1>5. AllCycles[k] = {cycleEdges(q) : q \in SimplePaths(k)}
  BY <1>3, <1>4
<1>. QED
  BY <1>5 DEF CyclesOf

\* A graph has finitely many cycles of k vertices.
LEMMA CyclesOfFinite ==
    ASSUME k \in Lengths, NEW g
    PROVE  IsFiniteSet(CyclesOf(g, k))
<1>1. IsFiniteSet(SUBSET V)
  BY VFacts, FS_SUBSET
<1>2. AllEdges \subseteq SUBSET V
  BY DEF AllEdges, Edge
<1>3. IsFiniteSet(AllEdges)
  BY <1>1, <1>2, FS_Subset
<1>4. IsFiniteSet(SUBSET AllEdges)
  BY <1>3, FS_SUBSET
<1>5. CyclesOf(g, k) \subseteq SUBSET AllEdges
  BY CyclesOfMeans, CycleEdgesFacts
<1>. QED
  BY <1>4, <1>5, FS_Subset

\* What the search is after, without counting.
LEMMA WantedMeans ==
    ASSUME k \in Lengths, kind \in Kinds, NEW g
    PROVE  /\ g \in Wanted[kind][k] => g \in Graphs
           /\ kind = "no" =>
                (g \in Wanted[kind][k] <=>
                    g \in Graphs /\ \A q \in SimplePaths(k) : ~ cycleEdges(q) \subseteq g)
           /\ kind = "atMostOne" =>
                (g \in Wanted[kind][k] <=>
                    g \in Graphs /\ \A q, r \in SimplePaths(k) :
                        cycleEdges(q) \subseteq g /\ cycleEdges(r) \subseteq g => cycleEdges(q) = cycleEdges(r))
           /\ kind = "atLeastOne" =>
                (g \in Wanted[kind][k] <=>
                    g \in Graphs /\ \E q \in SimplePaths(k) : cycleEdges(q) \subseteq g)
<1>. DEFINE S == CyclesOf(g, k)
            many == Cardinality(S)
<1>1. g \in Wanted[kind][k] <=>
        g \in Graphs /\ CASE kind = "no" -> many = 0 [] kind = "atMostOne" -> many <= 1 [] OTHER -> many >= 1
  BY DEF Wanted
<1>2. IsFiniteSet(S)
  BY CyclesOfFinite
<1>3. S = {c \in {cycleEdges(q) : q \in SimplePaths(k)} : c \subseteq g}
  BY CyclesOfMeans
<1>. HIDE DEF S
<1>4. many \in Nat /\ (many = 0 <=> S = {}) /\ (many = 1 <=> \E x : S = {x})
  BY <1>2, FS_CardinalityType, FS_EmptySet, FS_Singleton
<1>. HIDE DEF many
<1>5. (many <= 1 <=> many = 0 \/ many = 1) /\ (many >= 1 <=> many # 0)
  BY <1>4
<1>6. S = {} <=> \A q \in SimplePaths(k) : ~ cycleEdges(q) \subseteq g
  BY <1>3
<1>7. (S = {} \/ \E x : S = {x}) <=> \A q, r \in SimplePaths(k) :
        cycleEdges(q) \subseteq g /\ cycleEdges(r) \subseteq g => cycleEdges(q) = cycleEdges(r)
  <2>1. (S = {} \/ \E x : S = {x}) <=> \A x, y \in S : x = y
    <3>1. ASSUME \A x, y \in S : x = y, NEW x \in S  PROVE S = {x}
      BY <3>1
    <3>. QED
      BY <3>1
  <2>2. (\A x, y \in S : x = y) <=> \A q, r \in SimplePaths(k) :
            cycleEdges(q) \subseteq g /\ cycleEdges(r) \subseteq g => cycleEdges(q) = cycleEdges(r)
    BY <1>3
  <2>. QED
    BY <2>1, <2>2
<1>8. kind = "no" => (g \in Wanted[kind][k] <=> g \in Graphs /\ many = 0)
  BY <1>1
<1>9. kind = "atMostOne" => (g \in Wanted[kind][k] <=> g \in Graphs /\ many <= 1)
  BY <1>1
<1>10. kind = "atLeastOne" => (g \in Wanted[kind][k] <=> g \in Graphs /\ many >= 1)
  BY <1>1
<1>11. g \in Wanted[kind][k] => g \in Graphs
  BY <1>1
<1>. QED
  BY <1>4, <1>5, <1>6, <1>7, <1>8, <1>9, <1>10, <1>11

-----------------------------------------------------------------------------
(***************************************************************************)
(* The walk.                                                               *)
(***************************************************************************)

\* The neighbours in an order of the library's sets: each of them is listed.
LEMMA ListedEnumerates ==
    ASSUME NEW S, S \subseteq V, NEW o \in [V -> Nat], \A u, w \in V : o[u] = o[w] => u = w
    PROVE  Lists(Listed(S, o), S)
<1>. DEFINE n == Cardinality(S)
            s == Listed(S, o)
            pre(x) == {y \in S : o[y] < o[x]}
            R(x) == Rank(S, o, x)
            rank == [x \in S |-> R(x) + 1]
<1>1. IsFiniteSet(S) /\ n \in Nat
  BY VFacts, FS_Subset, FS_CardinalityType
<1>2. o \in [V -> Nat] /\ \A u, w \in V : o[u] = o[w] => u = w
  OBVIOUS
<1>3. \A x \in S : IsFiniteSet(pre(x)) /\ R(x) \in Nat
  <2>1. \A x \in S : IsFiniteSet(pre(x))
    BY <1>1, FS_Subset
  <2>. QED
    BY <2>1, FS_CardinalityType DEF Rank
<1>4. \A x \in S : R(x) <= n - 1
  <2>1. TAKE x \in S
  <2>2. pre(x) \subseteq S \ {x}
    BY <1>2
  <2>3. IsFiniteSet(S \ {x}) /\ Cardinality(S \ {x}) = n - 1
    BY <1>1, FS_RemoveElement
  <2>. QED
    BY <1>1, <2>2, <2>3, FS_Subset DEF Rank
<1>5. \A x, y \in S : o[x] < o[y] => R(x) < R(y)
  <2>1. SUFFICES ASSUME NEW x \in S, NEW y \in S, o[x] < o[y]
                 PROVE  Cardinality(pre(x)) < Cardinality(pre(y))
    BY DEF Rank
  <2>2. pre(x) \subseteq pre(y)
    BY <1>2, <2>1
  <2>3. x \in pre(y) /\ x \notin pre(x)
    BY <1>2, <2>1
  <2>4. Cardinality(pre(x)) \in Nat /\ Cardinality(pre(y)) \in Nat
    BY <1>3, FS_CardinalityType
  <2>. QED
    <3>1. IsFiniteSet(pre(y)) /\ pre(x) # pre(y)
      BY <1>3, <2>3
    <3>. HIDE DEF pre
    <3>. QED
      BY <2>2, <2>4, <3>1, FS_Subset
<1>6. \A x, y \in S : x # y => o[x] < o[y] \/ o[y] < o[x]
  BY <1>2
<1>. HIDE DEF R, pre
<1>7. rank \in Injection(S, 1 .. n)
  <2>1. rank \in [S -> 1 .. n]
    BY <1>1, <1>3, <1>4
  <2>2. ASSUME NEW x \in S, NEW y \in S, rank[x] = rank[y]  PROVE x = y
    <3>1. R(x) = R(y) /\ R(x) \in Nat
      BY <1>3, <2>2
    <3>2. ~ o[x] < o[y] /\ ~ o[y] < o[x]
      BY <1>5, <3>1
    <3>. QED
      BY <1>6, <3>2
  <2>. HIDE DEF rank
  <2>. QED
    BY <2>1, <2>2, Fun_IsInj
<1>8. \A j \in 1 .. n : \E x \in S : rank[x] = j
  <2>1. IsFiniteSet(1 .. n) /\ Cardinality(1 .. n) = n
    BY <1>1, FS_Interval
  <2>. HIDE DEF rank
  <2>2. rank \in Surjection(S, 1 .. n)
    BY <1>7, <2>1, FS_Injection
  <2>. QED
    BY <2>2, Fun_SurjectionProperties
<1>9. \A j \in 1 .. n : s[j] \in S /\ R(s[j]) = j - 1
  <2>1. TAKE j \in 1 .. n
  <2>2. PICK x \in S : rank[x] = j
    BY <1>8
  <2>3. R(x) = j - 1
    BY <1>3, <2>2
  <2>4. s[j] = CHOOSE y \in S : R(y) = j - 1
    BY DEF Listed, R
  <2>. QED
    BY <2>3, <2>4
<1>10. s \in Seq(S) /\ Len(s) = n
  <2>1. s = [j \in 1 .. n |-> s[j]]
    BY DEF Listed
  <2>2. s \in [1 .. n -> S]
    BY <1>9, <2>1
  <2>. QED
    BY <1>1, <2>2
<1>11. \A x \in S : \E j \in 1 .. n : s[j] = x
  <2>1. TAKE x \in S
  <2>2. rank[x] \in 1 .. n /\ R(x) = rank[x] - 1
    BY <1>3, <1>4, <1>1
  <2>3. s[rank[x]] \in S /\ R(s[rank[x]]) = R(x)
    BY <1>9, <2>2
  <2>4. s[rank[x]] = x
    BY <1>3, <1>5, <1>6, <2>3
  <2>. QED
    BY <2>2, <2>4
<1>. HIDE DEF s
<1>12. Lists(s, S)
  BY <1>9, <1>10, <1>11 DEF Lists
<1>. QED
  BY <1>12 DEF s

\* What is left of a sequence without its last element.
LEMMA FrontFacts ==
    ASSUME NEW S, NEW s \in Seq(S), Len(s) >= 1
    PROVE  /\ Front(s) \in Seq(S) /\ Len(Front(s)) = Len(s) - 1
           /\ \A j \in 1 .. Len(s) - 1 : Front(s)[j] = s[j]
<1>. DEFINE n == Len(s) - 1
<1>1. n \in Nat /\ \A j \in 1 .. n : s[j] \in S
  OBVIOUS
<1>. HIDE DEF n
<1>2. /\ SubSeq(s, 1, n) \in Seq(S)
      /\ Len(SubSeq(s, 1, n)) = IF 1 <= n THEN n - 1 + 1 ELSE 0
      /\ \A i \in 1 .. n - 1 + 1 : SubSeq(s, 1, n)[i] = s[1 + i - 1]
  BY <1>1, SubSeqProperties
<1>3. Len(SubSeq(s, 1, n)) = n /\ \A i \in 1 .. n : SubSeq(s, 1, n)[i] = s[i]
  BY <1>1, <1>2
<1>. QED
  BY <1>2, <1>3 DEF Front, n

\* What a sequence becomes with one more element.
LEMMA AppendFacts ==
    ASSUME NEW S, NEW s \in Seq(S), NEW x \in S
    PROVE  /\ Append(s, x) \in Seq(S) /\ Len(Append(s, x)) = Len(s) + 1
           /\ \A j \in 1 .. Len(s) : Append(s, x)[j] = s[j]
           /\ Append(s, x)[Len(s) + 1] = x
OBVIOUS

\* A call begins with a vertex or with an edge.
LEMMA StartLenFacts == StartLen \in Nat /\ StartLen >= 1 /\ StartLen <= 2
BY DEF StartLen

\* The path of a call has between one and k vertices; v is the last.
LEMMA PathFacts ==
    ASSUME k \in Lengths, PathInv
    PROVE  /\ k \in Nat /\ k >= 3
           /\ Len(currentPath) \in Nat /\ Len(currentPath) >= 1 /\ Len(currentPath) <= k
           /\ Len(currentPath) >= StartLen
           /\ v = currentPath[Len(currentPath)] /\ v \in V
           /\ \A j \in 1 .. Len(currentPath) : currentPath[j] \in V
<1>. DEFINE n == Len(currentPath)
<1>1. k \in Nat /\ k >= 3
  BY LengthFacts
<1>2. currentPath \in Seq(V) /\ n \in StartLen .. k /\ n \in Nat
  BY DEF PathInv
<1>. HIDE DEF n
<1>3. n >= 1 /\ n <= k /\ n >= StartLen
  BY <1>1, <1>2, StartLenFacts
<1>4. \A j \in 1 .. n : currentPath[j] \in V
  BY <1>2 DEF n
<1>5. currentPath[n] \in V
  BY <1>2, <1>3, <1>4
<1>. QED
  BY <1>1, <1>2, <1>3, <1>4, <1>5 DEF n, v

\* A walk is a simple path along open edges.
LEMMA WalksFacts ==
    ASSUME NEW p \in Walks
    PROVE  /\ p \in SimplePaths(k) /\ p \in [1 .. k -> V]
           /\ \A j, m \in 1 .. k : p[j] = p[m] => j = m
           /\ \A j \in 1 .. k - 1 : Edge(p[j], p[j + 1]) \in Open
BY DEF Walks, SimplePaths

\* When the end of the path has no neighbour left to try, every walk that begins like
\* the path has been settled.
LEMMA Exhausted ==
    ASSUME k \in Lengths, PathInv, ListsInv, WalkedInv, Len(currentPath) < k, Untried = {},
           NEW p \in Walks, Begins(p, currentPath, Len(currentPath))
    PROVE  Settled(p)
<1>. DEFINE n == Len(currentPath)
<1>1. n \in 1 .. k - 1 /\ n \in StartLen .. k /\ n \in StartLen .. n /\ k \in Nat
  <2>1. n \in Nat /\ n < k /\ n >= 1 /\ n >= StartLen /\ k \in Nat
    BY PathFacts
  <2>. HIDE DEF n
  <2>. QED
    BY <2>1, StartLenFacts
<1>2. p[n] = v /\ v \in V /\ v = currentPath[n]
  BY <1>1, PathFacts DEF Begins
<1>3. p[n + 1] \in Nbrs(Open, v)
  <2>1. Edge(p[n], p[n + 1]) \in Open /\ p[n] # p[n + 1] /\ p[n + 1] \in V
    <3>1. n \in 1 .. k /\ n + 1 \in 1 .. k /\ n \in 1 .. k - 1 /\ n # n + 1
      BY <1>1
    <3>. QED
      BY <3>1, WalksFacts
  <2>2. Edge(p[n + 1], p[n]) = Edge(p[n], p[n + 1])
    BY DEF Edge
  <2>. QED
    BY <1>2, <2>1, <2>2 DEF Nbrs
<1>4. PICK m \in 1 .. Len(adjList[v]) : adjList[v][m] = p[n + 1]
  <2>1. Lists(adjList[v], Nbrs(Open, v))
    BY <1>2 DEF ListsInv
  <2>. QED
    BY <1>3, <2>1 DEF Lists
<1>5. p[n + 1] \notin visited
  <2>1. SUFFICES ASSUME NEW j \in 1 .. n, p[n + 1] = currentPath[j]  PROVE FALSE
    BY DEF PathInv
  <2>2. p[j] = p[n + 1] /\ j \in 1 .. k /\ n + 1 \in 1 .. k /\ j # n + 1
    BY <1>1, <2>1 DEF Begins
  <2>. QED
    BY <2>2, WalksFacts
<1>6. m <= inds[v]
  <2>1. inds[v] \in Nat /\ Len(adjList[v]) \in Nat
    BY <1>2 DEF ListsInv, Lists
  <2>2. m \notin inds[v] + 1 .. Len(adjList[v])
    BY <1>4, <1>5 DEF Untried
  <2>. QED
    BY <2>1, <2>2
<1>7. Walked(n, m)
  <2>1. inds[v] \in Nat
    BY <1>2 DEF ListsInv
  <2>2. Behind(n, m) /\ n \in StartLen .. Len(currentPath) /\ n < k
    BY <1>1, <1>2, <1>6, <2>1 DEF Behind
  <2>. QED
    BY <1>2, <1>4, <2>2 DEF WalkedInv
<1>. QED
  BY <1>2, <1>4, <1>7 DEF Walked

\* A step of a call: the edges to go along stay, and what is settled stays settled.
Stable ==
    /\ k' = k /\ kind' = kind /\ Open' = Open /\ adjList' = adjList
    /\ \A p \in Walks : Settled(p) => Settled(p)'

\* In a step of a call the walks stay the same.
LEMMA StableFacts ==
    ASSUME Stable
    PROVE  Walks' = Walks /\ StartLen' = StartLen
<1>1. SimplePaths(k)' = SimplePaths(k)
  BY DEF Stable, SimplePaths
<1>. QED
  BY <1>1 DEF Stable, Walks, StartLen

\* The path loses its end, after every walk that begins like it has been settled.
LEMMA PopKeeps ==
    ASSUME k \in Lengths, PathInv, ListsInv, WalkedInv, StartsInv,
           Len(currentPath) > StartLen, Pop, Stable,
           inds' \in [V -> Nat], \A x \in V \ {v} : inds'[x] = inds[x],
           \A p \in Walks : Begins(p, currentPath, Len(currentPath)) => Settled(p)'
    PROVE  PathInv' /\ ListsInv' /\ WalkedInv' /\ StartsInv'
<1>. DEFINE n == Len(currentPath)
            s == StartLen
<1>1. /\ n \in Nat /\ n <= k /\ k \in Nat /\ k' = k /\ kind' = kind /\ s \in Nat /\ s >= 1 /\ n > s /\ n >= 2
      /\ adjList' = adjList /\ Open' = Open
  BY PathFacts, StartLenFacts DEF Stable
<1>2. Walks' = Walks /\ StartLen' = s
  BY StableFacts
<1>3. currentPath \in Seq(V) /\ visited = {currentPath[j] : j \in 1 .. n}
  BY DEF PathInv
<1>4. v = currentPath[n] /\ \A j \in 1 .. n : currentPath[j] \in V
  BY PathFacts
<1>5. /\ \A j, m \in 1 .. n : currentPath[j] = currentPath[m] => j = m
      /\ \A j \in 1 .. n - 1 : Edge(currentPath[j], currentPath[j + 1]) \in Open
  BY DEF PathInv
<1>6. /\ currentPath' \in Seq(V) /\ Len(currentPath') = n - 1
      /\ \A j \in 1 .. n - 1 : currentPath'[j] = currentPath[j]
  <2>1. Len(currentPath) >= 1 /\ currentPath' = Front(currentPath)
    BY <1>1 DEF Pop
  <2>. QED
    BY <1>3, <2>1, FrontFacts
<1>7. /\ \A x \in V : Lists(adjList[x], Nbrs(Open, x))
      /\ inds \in [V -> Nat]
      /\ \A j \in s .. n - 1 :
            /\ inds[currentPath[j]] \in 1 .. Len(adjList[currentPath[j]])
            /\ currentPath[j + 1] = adjList[currentPath[j]][inds[currentPath[j]]]
  BY DEF ListsInv
<1>8. \A j \in s .. n : j < k => \A m \in 1 .. Len(adjList[currentPath[j]]) :
        m < inds[currentPath[j]] => Walked(j, m)
  BY DEF WalkedInv, Behind
<1>9. \A p \in Walks : Settled(p) => Settled(p)'
  BY DEF Stable
<1>10. \A p \in Walks : Begins(p, currentPath, n) => Settled(p)'
  OBVIOUS
<1>11. visited' = visited \ {v}
  BY DEF Pop
<1>. HIDE DEF n, s
<1>12. \A j \in 1 .. n - 1 : j \in 1 .. n /\ currentPath[j] \in V \ {v}
  <2>1. TAKE j \in 1 .. n - 1
  <2>2. j \in 1 .. n /\ n \in 1 .. n /\ j # n
    BY <1>1
  <2>. QED
    BY <1>4, <1>5, <2>2
<1>13. PathInv'
  <2>1. visited' = {currentPath'[j] : j \in 1 .. n - 1}
    <3>1. visited' = {currentPath[j] : j \in 1 .. n - 1}
      <4>1. 1 .. n = (1 .. n - 1) \cup {n}
        BY <1>1
      <4>2. \A j \in 1 .. n - 1 : currentPath[j] # currentPath[n]
        BY <1>4, <1>12
      <4>. QED
        BY <1>3, <1>4, <1>11, <4>1, <4>2
    <3>. QED
      BY <1>6, <3>1
  <2>2. \A j, m \in 1 .. n - 1 : currentPath'[j] = currentPath'[m] => j = m
    BY <1>5, <1>6, <1>12
  <2>3. \A j \in 1 .. (n - 1) - 1 : Edge(currentPath'[j], currentPath'[j + 1]) \in Open'
    <3>1. TAKE j \in 1 .. (n - 1) - 1
    <3>2. j \in 1 .. n - 1 /\ j + 1 \in 1 .. n - 1
      BY <1>1
    <3>. QED
      BY <1>1, <1>5, <1>6, <3>2
  <2>4. n - 1 \in s .. k'
    BY <1>1
  <2>. QED
    BY <1>2, <1>6, <2>1, <2>2, <2>3, <2>4 DEF PathInv
<1>14. ListsInv'
  <2>1. \A j \in s .. (n - 1) - 1 :
           /\ inds'[currentPath'[j]] \in 1 .. Len(adjList'[currentPath'[j]])
           /\ currentPath'[j + 1] = adjList'[currentPath'[j]][inds'[currentPath'[j]]]
    <3>1. TAKE j \in s .. (n - 1) - 1
    <3>2. j \in s .. n - 1 /\ j \in 1 .. n - 1 /\ j + 1 \in 1 .. n - 1
      BY <1>1
    <3>3. /\ currentPath'[j] = currentPath[j] /\ currentPath'[j + 1] = currentPath[j + 1]
          /\ inds'[currentPath[j]] = inds[currentPath[j]]
      BY <1>6, <1>12, <3>2
    <3>. QED
      BY <1>1, <1>7, <3>2, <3>3
  <2>. QED
    BY <1>1, <1>2, <1>6, <1>7, <2>1 DEF ListsInv
<1>15. WalkedInv'
  <2>1. ASSUME NEW j \in s .. n - 1, NEW m \in 1 .. Len(adjList[currentPath[j]]), Behind(j, m)',
               NEW p \in Walks, Begins(p, currentPath, j), p[j + 1] = adjList[currentPath[j]][m]
        PROVE  Settled(p)'
    <3>1. j \in 1 .. n - 1 /\ j \in s .. n /\ j < k
      BY <1>1
    <3>2. inds'[currentPath'[j]] = inds[currentPath[j]] /\ inds[currentPath[j]] \in Nat
      BY <1>6, <1>7, <1>12, <3>1
    <3>3. CASE m < inds[currentPath[j]]
      <4>1. Walked(j, m)
        BY <1>8, <2>1, <3>1, <3>3
      <4>. QED
        BY <1>9, <2>1, <4>1 DEF Walked
    <3>4. CASE j = n - 1 /\ m = inds[currentPath[j]]
      <4>1. p[n] = currentPath[n]
        <5>1. j + 1 = n /\ j \in s .. n - 1
          BY <1>1, <3>4
        <5>. QED
          BY <1>7, <2>1, <3>4, <5>1
      <4>2. Begins(p, currentPath, n)
        <5>1. \A b \in 1 .. n : b = n \/ b \in 1 .. j
          BY <1>1, <3>4
        <5>2. \A b \in 1 .. j : p[b] = currentPath[b]
          BY <2>1 DEF Begins
        <5>. QED
          BY <4>1, <5>1, <5>2 DEF Begins
      <4>. QED
        BY <1>10, <2>1, <4>2
    <3>. QED
      BY <1>1, <1>6, <2>1, <3>2, <3>3, <3>4 DEF Behind
  <2>2. ASSUME NEW j \in s .. n - 1, NEW m \in 1 .. Len(adjList[currentPath[j]]), Behind(j, m)'
        PROVE  Walked(j, m)'
    <3>1. j \in 1 .. n - 1
      BY <1>1
    <3>2. currentPath'[j] = currentPath[j] /\ \A p : Begins(p, currentPath', j) <=> Begins(p, currentPath, j)
      BY <1>1, <1>6, <3>1 DEF Begins
    <3>3. ASSUME NEW p \in Walks', Begins(p, currentPath', j), p[j + 1] = adjList'[currentPath'[j]][m]
          PROVE  Settled(p)'
      BY <1>1, <1>2, <2>1, <2>2, <3>2, <3>3
    <3>. QED
      BY <3>3 DEF Walked
  <2>3. \A j \in s .. n - 1 : adjList'[currentPath'[j]] = adjList[currentPath[j]]
    BY <1>1, <1>6
  <2>. QED
    BY <1>1, <1>2, <1>6, <2>2, <2>3 DEF WalkedInv
<1>16. StartsInv'
  <2>1. currentPath'[1] = currentPath[1]
    BY <1>1, <1>6
  <2>2. kind = "atLeastOne" => \A p \in Walks : p[1] < currentPath[1] => Settled(p)
    BY DEF StartsInv
  <2>. QED
    BY <1>1, <1>2, <1>9, <2>1, <2>2 DEF StartsInv
<1>. QED
  BY <1>13, <1>14, <1>15, <1>16

\* A full path is a walk.
LEMMA FullFacts ==
    ASSUME IInv, Full
    PROVE  /\ k \in Lengths /\ PathInv /\ ListsInv /\ WalkedInv /\ StartsInv /\ RecalledInv
           /\ currentPath \in Walks /\ Len(currentPath) = k /\ k \in Nat /\ k >= 3
           /\ closing = Edge(currentPath[1], currentPath[k])
           /\ currentPath # null /\ kind \in Kinds
<1>1. k \in Lengths /\ WalkInv /\ Len(currentPath) = k /\ kind \in Kinds
  BY DEF IInv, Full
<1>2. k \in Nat /\ k >= 3
  BY <1>1, LengthFacts
<1>3. currentPath \in [1 .. k -> V]
  BY <1>1 DEF WalkInv, PathInv
<1>4. currentPath \in Walks
  BY <1>1, <1>3 DEF WalkInv, PathInv, Walks, SimplePaths
<1>5. closing = Edge(currentPath[1], currentPath[k])
  BY <1>1 DEF closing, v
<1>6. currentPath # null
  <2>1. Len(null) = 0
    BY DEF null
  <2>. QED
    BY <1>1, <1>2, <2>1
<1>. QED
  BY <1>1, <1>2, <1>4, <1>5, <1>6 DEF WalkInv

\* A walk that begins like a full path is the path.
LEMMA SameWalk ==
    ASSUME IInv, Full, NEW p \in Walks, Begins(p, currentPath, Len(currentPath))
    PROVE  p = currentPath
<1>1. currentPath \in [1 .. k -> V] /\ p \in [1 .. k -> V] /\ Len(currentPath) = k
  BY FullFacts, WalksFacts
<1>2. \A j \in 1 .. k : p[j] = currentPath[j]
  BY <1>1 DEF Begins
<1>. QED
  BY <1>1, <1>2

\* What Settled says depends on these only.
LEMMA SettledKept ==
    ASSUME UNCHANGED <<kind, k>>, NEW p,
           kind = "atMostOne" => ones' = ones /\ (Known(p) => Known(p)'),
           kind # "atMostOne" => zeros \subseteq zeros',
           Settled(p)
    PROVE  Settled(p)'
BY DEF Settled

\* How a full path is recorded: it is settled, and what was settled before stays so.
LEMMA RecordFacts ==
    ASSUME IInv, Record
    PROVE  /\ Full /\ UNCHANGED <<kind, k, ones, pending, inds, adjList>> /\ zeros \subseteq zeros'
           /\ kind = "atLeastOne" => zeros' = zeros
           /\ \/ pc' = "failed"
              \/ pc' = "idle" /\ kind = "atLeastOne"
              \/ pc' = "search" /\ Pop
           /\ cycle' # cycle => cycle' = currentPath
           /\ kind # "atLeastOne" /\ cycle' # cycle => cycle = null /\ closing \in ones
<1>1. /\ pc = "search" /\ Full /\ UNCHANGED <<kind, k, ones, pending, inds, adjList>>
  BY DEF Record, RecordNo, RecordAtMostOne, RecordAtLeastOne, Full, post
<1>2. CASE RecordNo
  BY <1>1, <1>2 DEF RecordNo, Exclude
<1>3. CASE RecordAtMostOne
  BY <1>1, <1>3 DEF RecordAtMostOne, Exclude
<1>4. CASE RecordAtLeastOne
  BY <1>1, <1>4 DEF RecordAtLeastOne
<1>. QED
  BY <1>2, <1>3, <1>4 DEF Record

\* Recording a path takes nothing back of what was settled.
LEMMA RecordStable ==
    ASSUME IInv, Record
    PROVE  Stable
<1>1. /\ UNCHANGED <<kind, k, ones, adjList>> /\ zeros \subseteq zeros'
      /\ kind = "atLeastOne" => zeros' = zeros
      /\ kind # "atLeastOne" /\ cycle' # cycle => cycle = null
  BY RecordFacts
<1>2. Open' = Open
  BY <1>1 DEF Open
<1>3. ASSUME NEW p \in Walks, Settled(p)  PROVE Settled(p)'
  <2>1. ASSUME kind = "atMostOne", Known(p)  PROVE Known(p)'
    <3>1. cycle' = cycle /\ k' = k /\ kind' = kind
      BY <1>1, <2>1 DEF Known
    <3>2. cycleEdges(cycle)' = cycleEdges(cycle) /\ cycleEdges(p)' = cycleEdges(p)
      BY <3>1 DEF cycleEdges, At
    <3>. QED
      BY <2>1, <3>1, <3>2 DEF Known
  <2>. QED
    BY <1>1, <1>3, <2>1, SettledKept
<1>. QED
  BY <1>1, <1>2, <1>3 DEF Stable

\* A path that is popped when full has been settled.
LEMMA RecordSettles ==
    ASSUME IInv, Record, pc' = "search", NEW p, p = currentPath
    PROVE  Settled(p)'
<1>1. /\ k \in Lengths /\ p \in SimplePaths(k) /\ closing = Edge(p[1], p[k])
      /\ p # null /\ currentPath = p
  BY RecordFacts, FullFacts, WalksFacts
<1>2. k' = k /\ kind' = kind /\ ones' = ones
  BY RecordFacts
<1>4. CASE RecordNo
  <2>1. closing \in zeros' /\ kind = "no"
    BY <1>4 DEF RecordNo, Exclude
  <2>. QED
    BY <1>1, <1>2, <2>1 DEF Settled
<1>5. CASE RecordAtMostOne
  <2>1. kind = "atMostOne"
    BY <1>5 DEF RecordAtMostOne
  <2>2. /\ \A c : cycleEdges(c)' = cycleEdges(c)
    BY <1>2 DEF cycleEdges, At
  <2>3. CASE cycle' = currentPath
    <3>1. Known(p)'
      BY <1>1, <1>2, <2>1, <2>2, <2>3 DEF Known
    <3>. QED
      BY <1>1, <1>2, <2>1, <3>1 DEF Settled
  <2>4. CASE closing \notin ones
    BY <1>1, <1>2, <2>1, <2>4 DEF Settled
  <2>5. CASE cycle # null /\ isSameCycle(cycle, currentPath) /\ cycle' = cycle
    <3>1. cycle \in SimplePaths(k)
      BY <2>5 DEF IInv
    <3>2. cycleEdges(cycle) = cycleEdges(p)
      BY <1>1, <2>5, <3>1, SameCycle
    <3>3. Known(p)'
      BY <1>2, <2>1, <2>2, <2>5, <3>2 DEF Known
    <3>. QED
      BY <1>1, <1>2, <2>1, <3>3 DEF Settled
  <2>. QED
    BY <1>5, <2>3, <2>4, <2>5 DEF RecordAtMostOne, Exclude
<1>6. CASE RecordAtLeastOne
  <2>1. closing \in zeros /\ zeros' = zeros /\ kind = "atLeastOne"
    BY <1>6 DEF RecordAtLeastOne
  <2>. QED
    BY <1>1, <1>2, <2>1 DEF Settled
<1>. QED
  BY <1>4, <1>5, <1>6 DEF Record

\* The edges of a full path that closes: those of the path, and the one that closes it.
LEMMA FullEdges ==
    ASSUME IInv, Full, NEW S, closing \in S,
           \A j \in 1 .. k - 1 : Edge(currentPath[j], currentPath[j + 1]) \in S
    PROVE  cycleEdges(currentPath) \subseteq S
<1>1. /\ k \in Lengths /\ currentPath \in Walks /\ currentPath \in SimplePaths(k)
      /\ closing = Edge(currentPath[1], currentPath[k]) /\ k \in Nat /\ k >= 3
  BY FullFacts, WalksFacts
<1>2. ASSUME NEW j \in 1 .. k  PROVE Edge(currentPath[j], currentPath[Next1(j)]) \in S
  <2>1. CASE j < k
    <3>1. Next1(j) = j + 1 /\ j \in 1 .. k - 1
      BY <1>1, <2>1 DEF Next1
    <3>. QED
      BY <3>1
  <2>2. CASE j = k
    <3>1. Next1(j) = 1 /\ Edge(currentPath[j], currentPath[1]) = closing
      BY <1>1, <2>2 DEF Next1, Edge
    <3>. QED
      BY <3>1
  <2>. QED
    BY <1>1, <2>1, <2>2
<1>. QED
  BY <1>1, <1>2, CycleEdgesFacts

\* The edges of a full path that closes along an edge at 1 are at 1.
LEMMA FullCycle ==
    ASSUME IInv, Full, closing \in ones, kind # "atLeastOne"
    PROVE  cycleEdges(currentPath) \subseteq ones
<1>1. \A j \in 1 .. k - 1 : Edge(currentPath[j], currentPath[j + 1]) \in ones
  BY FullFacts, WalksFacts DEF Open
<1>. QED
  BY <1>1, FullEdges

\* Recording a full path keeps the invariant.
LEMMA RecordKeeps ==
    ASSUME IInv, Record
    PROVE  IInv'
<1>1. /\ Full /\ UNCHANGED <<kind, k, ones, pending, inds, adjList>>
      /\ pc' \in {"failed", "idle", "search"} /\ (pc' = "search" => Pop)
      /\ cycle' # cycle => cycle' = currentPath
      /\ kind # "atLeastOne" /\ cycle' # cycle => closing \in ones
  BY RecordFacts
<1>2. /\ k \in Lengths /\ PathInv /\ ListsInv /\ WalkedInv /\ StartsInv /\ RecalledInv
      /\ currentPath \in Walks /\ currentPath \in SimplePaths(k) /\ Len(currentPath) = k /\ k \in Nat /\ k >= 3
  BY <1>1, FullFacts, WalksFacts
<1>3. SimplePaths(k)' = SimplePaths(k) /\ \A c : cycleEdges(c)' = cycleEdges(c)
  BY <1>1 DEF SimplePaths, cycleEdges, At
<1>4. cycle' # null => cycle' \in SimplePaths(k)'
  BY <1>1, <1>2, <1>3 DEF IInv
<1>5. ASSUME pc' = "search"  PROVE WalkInv'
  <2>1. inds' \in [V -> Nat] /\ \A x \in V \ {v} : inds'[x] = inds[x]
    BY <1>1, <1>2 DEF ListsInv
  <2>2. \A p \in Walks : Begins(p, currentPath, Len(currentPath)) => Settled(p)'
    BY <1>1, <1>5, SameWalk, RecordSettles
  <2>3. Len(currentPath) > StartLen
    BY <1>2, StartLenFacts
  <2>4. Stable /\ Pop
    BY <1>1, <1>5, RecordStable
  <2>5. PathInv' /\ ListsInv' /\ WalkedInv' /\ StartsInv'
    BY <1>2, <2>1, <2>2, <2>3, <2>4, PopKeeps
  <2>6. RecalledInv'
    <3>1. ASSUME kind = "atMostOne", cycle' # null  PROVE cycleEdges(cycle') \subseteq ones
      <4>1. CASE cycle' = cycle
        BY <1>2, <3>1, <4>1 DEF RecalledInv
      <4>2. CASE cycle' # cycle
        BY <1>1, <3>1, <4>2, FullCycle
      <4>. QED
        BY <4>1, <4>2
    <3>2. cycleEdges(cycle)' = cycleEdges(cycle')
      BY <1>1 DEF cycleEdges, At
    <3>. QED
      BY <1>1, <3>1, <3>2 DEF RecalledInv
  <2>. QED
    BY <2>5, <2>6 DEF WalkInv
<1>. QED
  BY <1>1, <1>2, <1>4, <1>5 DEF IInv

\* A path begins: nothing lies behind its indices.
LEMMA StartKeeps ==
    ASSUME k \in Lengths, k' = k, kind' = kind, NEW path \in Seq(V), Start(path), Len(path) = StartLen,
           \A j, m \in 1 .. Len(path) : path[j] = path[m] => j = m,
           \A j \in 1 .. Len(path) - 1 : Edge(path[j], path[j + 1]) \in Open',
           \A x \in V : Lists(adjList'[x], Nbrs(Open', x))
    PROVE  PathInv' /\ ListsInv' /\ WalkedInv'
<1>. DEFINE s == StartLen
<1>1. s \in Nat /\ s >= 1 /\ s <= 2 /\ StartLen' = s /\ k \in Nat /\ k >= 3
  BY StartLenFacts, LengthFacts DEF StartLen
<1>2. currentPath' = path /\ visited' = {path[j] : j \in 1 .. Len(path)} /\ inds' = [x \in V |-> 0]
  BY DEF Start
<1>3. Len(path) = s
  OBVIOUS
<1>. HIDE DEF s
<1>4. PathInv'
  <2>1. s \in s .. k'
    BY <1>1
  <2>. QED
    BY <1>1, <1>2, <1>3, <2>1 DEF PathInv
<1>5. ListsInv'
  <2>1. s .. s - 1 = {}
    BY <1>1
  <2>2. inds' \in [V -> Nat]
    BY <1>2
  <2>. QED
    BY <1>1, <1>2, <1>3, <2>1, <2>2 DEF ListsInv
<1>6. WalkedInv'
  <2>1. ASSUME NEW j \in s .. s, NEW m \in 1 .. Len(adjList'[currentPath'[j]]), Behind(j, m)'
        PROVE  FALSE
    <3>1. j = s /\ s \in 1 .. Len(path)
      BY <1>1, <1>3
    <3>2. path[j] \in V
      BY <3>1
    <3>3. inds'[currentPath'[j]] = 0
      BY <1>2, <3>2
    <3>. QED
      BY <2>1, <3>3 DEF Behind
  <2>. QED
    BY <1>1, <1>2, <1>3, <2>1 DEF WalkedInv
<1>. QED
  BY <1>4, <1>5, <1>6

\* What is remembered stays at 1 as long as neither it nor the world changes.
LEMMA RecalledKept ==
    ASSUME UNCHANGED <<kind, k, ones, cycle>>, RecalledInv
    PROVE  RecalledInv'
<1>1. cycleEdges(cycle)' = cycleEdges(cycle)
  BY DEF cycleEdges, At
<1>. QED
  BY <1>1 DEF RecalledInv

\* What is remembered is an array of k different vertices, or nothing.
LEMMA CycleKept ==
    ASSUME IInv, k' = k, cycle' = cycle \/ cycle' = null
    PROVE  cycle' # null => cycle' \in SimplePaths(k)'
<1>1. SimplePaths(k)' = SimplePaths(k)
  BY DEF SimplePaths
<1>. QED
  BY <1>1 DEF IInv

\* The walk goes on in an unchanged world.
LEMMA UnchangedStable ==
    ASSUME UNCHANGED <<kind, k, ones, zeros, cycle, adjList>>
    PROVE  Stable
<1>1. Open' = Open
  BY DEF Open
<1>2. \A c : cycleEdges(c)' = cycleEdges(c)
  BY DEF cycleEdges, At
<1>3. \A p : Settled(p)' <=> Settled(p)
  BY <1>2 DEF Settled, Known
<1>. QED
  BY <1>1, <1>3 DEF Stable

\* The end of the path has been exhausted.
LEMMA RetreatKeeps ==
    ASSUME IInv, Retreat
    PROVE  IInv'
<1>. DEFINE n == Len(currentPath)
<1>1. /\ pc = "search" /\ n < k /\ Untried = {} /\ PathInv /\ ListsInv /\ WalkedInv /\ StartsInv /\ RecalledInv
      /\ k \in Lengths /\ kind \in Kinds /\ UNCHANGED <<kind, k, ones, zeros, pending, cycle, adjList>>
  BY DEF IInv, WalkInv, Retreat, post
<1>2. Stable /\ Open' = Open
  BY <1>1, UnchangedStable DEF Stable
<1>3. \A p \in Walks : Begins(p, currentPath, n) => Settled(p)
  BY <1>1, Exhausted
<1>4. /\ k \in Nat /\ n \in Nat /\ n >= StartLen /\ n >= 1 /\ v \in V /\ v = currentPath[n]
  BY <1>1, PathFacts
<1>5. RecalledInv' /\ (cycle' # null => cycle' \in SimplePaths(k)')
  BY <1>1, RecalledKept, CycleKept
<1>6. ASSUME WalkInv'  PROVE IInv'
  BY <1>1, <1>5, <1>6 DEF IInv
<1>7. ASSUME pc' # "search"  PROVE IInv'
  BY <1>1, <1>5, <1>7 DEF IInv
<1>8. CASE kind = "atLeastOne" /\ n = 1
  <2>1. CASE v = N - 1
    BY <1>7, <1>8, <2>1 DEF Retreat
  <2>2. CASE v # N - 1
    <3>. DEFINE path == <<v + 1>>
    <3>1. Start(path)
      BY <1>8, <2>2 DEF Retreat
    <3>2. v + 1 \in V /\ v \in Nat
      BY <1>4, <2>2, VFacts DEF V
    <3>3. path \in Seq(V) /\ Len(path) = 1 /\ path[1] = v + 1
      BY <3>2
    <3>4. StartLen = 1
      BY <1>8 DEF StartLen
    <3>5. \A x \in V : Lists(adjList'[x], Nbrs(Open', x))
      BY <1>1, <1>2 DEF ListsInv
    <3>6. currentPath' = path
      BY <3>1 DEF Start
    <3>. HIDE DEF path
    <3>7. /\ \A j, m \in 1 .. Len(path) : path[j] = path[m] => j = m
          /\ \A j \in 1 .. Len(path) - 1 : Edge(path[j], path[j + 1]) \in Open'
      BY <3>3
    <3>8. PathInv' /\ ListsInv' /\ WalkedInv'
      BY <1>1, <3>1, <3>3, <3>4, <3>5, <3>7, StartKeeps
    <3>9. StartsInv'
      <4>1. ASSUME NEW p \in Walks, p[1] < v + 1  PROVE Settled(p)'
        <5>1. p[1] \in V /\ p[1] \in Nat
          <6>1. 1 \in 1 .. k /\ V \subseteq Nat
            BY <1>4, LengthFacts, <1>1, VFacts
          <6>. QED
            BY <6>1, WalksFacts
        <5>2. CASE p[1] < v
          <6>1. Settled(p)
            BY <1>1, <1>4, <1>8, <5>2 DEF StartsInv
          <6>. QED
            BY <1>2, <6>1 DEF Stable
        <5>3. CASE p[1] = v
          <6>1. Begins(p, currentPath, n)
            BY <1>4, <1>8, <5>3 DEF Begins
          <6>. QED
            BY <1>2, <1>3, <6>1 DEF Stable
        <5>. QED
          BY <3>2, <4>1, <5>1, <5>2, <5>3
      <4>2. Walks' = Walks
        BY <1>2, StableFacts
      <4>. QED
        BY <1>1, <3>3, <3>6, <4>1, <4>2 DEF StartsInv
    <3>. QED
      BY <1>5, <1>6, <3>8, <3>9 DEF WalkInv
  <2>. QED
    BY <2>1, <2>2
<1>9. CASE ~ (kind = "atLeastOne" /\ n = 1)
  <2>1. /\ Pop /\ inds' = [inds EXCEPT ![v] = Len(adjList[v])]
        /\ pc' = IF kind # "atLeastOne" /\ n = 2 THEN "idle" ELSE pc
    BY <1>9 DEF Retreat
  <2>2. CASE kind # "atLeastOne" /\ n = 2
    BY <1>7, <2>1, <2>2
  <2>3. CASE ~ (kind # "atLeastOne" /\ n = 2)
    <3>1. Len(currentPath) > StartLen
      <4>1. n # StartLen /\ StartLen \in Nat
        BY <1>9, <2>3 DEF StartLen
      <4>2. n \in Nat /\ n >= StartLen
        BY <1>4
      <4>. HIDE DEF n
      <4>3. n > StartLen
        BY <4>1, <4>2
      <4>. QED
        BY <4>3 DEF n
    <3>2. Len(adjList[v]) \in Nat
      BY <1>1, <1>4 DEF ListsInv, Lists
    <3>3. inds' \in [V -> Nat] /\ \A x \in V \ {v} : inds'[x] = inds[x]
      BY <1>1, <1>4, <2>1, <3>2 DEF ListsInv
    <3>4. \A p \in Walks : Begins(p, currentPath, Len(currentPath)) => Settled(p)'
      BY <1>2, <1>3 DEF Stable
    <3>5. PathInv' /\ ListsInv' /\ WalkedInv' /\ StartsInv'
      BY <1>1, <1>2, <2>1, <3>1, <3>3, <3>4, PopKeeps
    <3>. QED
      BY <1>5, <1>6, <3>5 DEF WalkInv
  <2>. QED
    BY <2>2, <2>3
<1>. QED
  BY <1>8, <1>9

\* The first neighbour not on the path is taken: those before it are on the path,
\* so that no walk goes on with them.
LEMMA AdvanceKeeps ==
    ASSUME IInv, Advance
    PROVE  IInv'
<1>. DEFINE n == Len(currentPath)
            s == StartLen
<1>1. /\ pc = "search" /\ n < k /\ PathInv /\ ListsInv /\ WalkedInv /\ StartsInv /\ RecalledInv
      /\ k \in Lengths /\ kind \in Kinds /\ UNCHANGED <<kind, k, ones, zeros, pending, pc, cycle, adjList>>
  BY DEF IInv, WalkInv, Advance, post
<1>2. Stable /\ Open' = Open /\ Walks' = Walks /\ StartLen' = s
  BY <1>1, UnchangedStable, StableFacts DEF Stable
<1>3. PICK i \in Untried : /\ \A m \in Untried : i <= m
                           /\ currentPath' = Append(currentPath, adjList[v][i])
                           /\ visited' = visited \cup {adjList[v][i]}
                           /\ inds' = newInds(i)
  BY DEF Advance
<1>. DEFINE w == adjList[v][i]
<1>4. /\ k \in Nat /\ k >= 3 /\ n \in Nat /\ n >= s /\ n >= 1 /\ n < k /\ v \in V /\ v = currentPath[n]
      /\ s \in Nat /\ s >= 1 /\ \A j \in 1 .. n : currentPath[j] \in V
  BY <1>1, PathFacts, StartLenFacts
<1>5. Lists(adjList[v], Nbrs(Open, v)) /\ inds[v] \in Nat /\ inds \in [V -> Nat]
  BY <1>1, <1>4 DEF ListsInv
<1>6. Len(adjList[v]) \in Nat
  BY <1>5 DEF Lists
<1>7. i \in inds[v] + 1 .. Len(adjList[v]) /\ w \notin visited
  BY DEF Untried
<1>8. i \in 1 .. Len(adjList[v]) /\ i > inds[v] /\ i \in Nat
  BY <1>5, <1>6, <1>7
<1>9. w \in Nbrs(Open, v)
  BY <1>5, <1>8 DEF Lists
<1>10. w \in V /\ Edge(v, w) \in Open
  BY <1>9 DEF Nbrs, Edge
<1>11. \A j \in 1 .. n : currentPath[j] # w
  BY <1>1, <1>7 DEF PathInv
<1>12. currentPath' = Append(currentPath, w) /\ visited' = visited \cup {w}
  BY <1>3
<1>13. inds' = [inds EXCEPT ![w] = 0, ![v] = i]
  BY <1>3 DEF newInds
<1>. HIDE DEF w
<1>14. v # w
  BY <1>4, <1>11
<1>15. inds' \in [V -> Nat] /\ inds'[v] = i /\ inds'[w] = 0
  BY <1>4, <1>5, <1>8, <1>10, <1>13, <1>14
<1>16. /\ currentPath' \in Seq(V) /\ Len(currentPath') = n + 1 /\ currentPath'[n + 1] = w
       /\ \A j \in 1 .. n : currentPath'[j] = currentPath[j]
  <2>1. currentPath \in Seq(V)
    BY <1>1 DEF PathInv
  <2>. QED
    BY <1>10, <1>12, <2>1, AppendFacts
<1>17. /\ \A j, m \in 1 .. n : currentPath[j] = currentPath[m] => j = m
       /\ \A j \in 1 .. n - 1 : Edge(currentPath[j], currentPath[j + 1]) \in Open
       /\ visited = {currentPath[j] : j \in 1 .. n}
  BY <1>1 DEF PathInv
<1>18. \A j \in s .. n - 1 : /\ inds[currentPath[j]] \in 1 .. Len(adjList[currentPath[j]])
                             /\ currentPath[j + 1] = adjList[currentPath[j]][inds[currentPath[j]]]
  BY <1>1 DEF ListsInv
<1>19. \A j \in s .. n : j < k => \A m \in 1 .. Len(adjList[currentPath[j]]) : Behind(j, m) => Walked(j, m)
  BY <1>1 DEF WalkedInv
<1>20. \A j, m : Behind(j, m) <=> m < inds[currentPath[j]] \/ (j = n /\ m = inds[currentPath[j]])
  BY DEF Behind
<1>21. w = adjList[v][i]
  BY DEF w
<1>. HIDE DEF n, s
<1>22. \A j \in 1 .. n - 1 : inds'[currentPath[j]] = inds[currentPath[j]]
  <2>1. TAKE j \in 1 .. n - 1
  <2>2. j \in 1 .. n /\ n \in 1 .. n /\ j # n
    BY <1>4
  <2>3. currentPath[j] \in V /\ currentPath[j] # w /\ currentPath[j] # v
    BY <1>4, <1>11, <1>17, <2>2
  <2>. QED
    BY <1>5, <1>13, <2>3
<1>23. PathInv'
  <2>2. \A j \in 1 .. n + 1 : j \in 1 .. n \/ j = n + 1
    BY <1>4
  <2>3. \A j, m \in 1 .. n + 1 : currentPath'[j] = currentPath'[m] => j = m
    BY <1>11, <1>16, <1>17, <2>2
  <2>4. \A j \in 1 .. n : Edge(currentPath'[j], currentPath'[j + 1]) \in Open'
    <3>1. TAKE j \in 1 .. n
    <3>2. CASE j = n
      BY <1>2, <1>4, <1>10, <1>16, <3>2
    <3>3. CASE j # n
      <4>1. j \in 1 .. n - 1 /\ j + 1 \in 1 .. n
        BY <1>4, <3>3
      <4>. QED
        BY <1>2, <1>16, <1>17, <4>1
    <3>. QED
      BY <3>2, <3>3
  <2>5. visited' = {currentPath'[j] : j \in 1 .. n + 1}
    <3>1. {currentPath'[j] : j \in 1 .. n + 1} = {currentPath[j] : j \in 1 .. n} \cup {w}
      <4>1. 1 .. n + 1 = (1 .. n) \cup {n + 1}
        BY <1>4
      <4>. QED
        BY <1>16, <4>1
    <3>. QED
      BY <1>12, <1>17, <3>1
  <2>6. n + 1 \in s .. k' /\ 1 .. (n + 1) - 1 = 1 .. n
    BY <1>1, <1>4
  <2>7. \A j \in 1 .. (n + 1) - 1 : Edge(currentPath'[j], currentPath'[j + 1]) \in Open'
    BY <2>4, <2>6
  <2>. QED
    BY <1>2, <1>16, <2>3, <2>5, <2>6, <2>7 DEF PathInv
<1>24. ListsInv'
  <2>1. \A j \in s .. n :
           /\ inds'[currentPath'[j]] \in 1 .. Len(adjList'[currentPath'[j]])
           /\ currentPath'[j + 1] = adjList'[currentPath'[j]][inds'[currentPath'[j]]]
    <3>1. TAKE j \in s .. n
    <3>2. CASE j = n
      <4>1. currentPath'[j] = v /\ currentPath'[j + 1] = w
        BY <1>4, <1>16, <3>2
      <4>. QED
        BY <1>1, <1>8, <1>15, <1>21, <4>1
    <3>3. CASE j # n
      <4>1. j \in s .. n - 1 /\ j \in 1 .. n - 1 /\ j \in 1 .. n /\ j + 1 \in 1 .. n
        BY <1>4, <3>3
      <4>. QED
        BY <1>1, <1>16, <1>18, <1>22, <4>1
    <3>. QED
      BY <3>2, <3>3
  <2>2. s .. (n + 1) - 1 = s .. n
    BY <1>4
  <2>3. \A x \in V : Lists(adjList'[x], Nbrs(Open', x))
    BY <1>1, <1>2 DEF ListsInv
  <2>. QED
    BY <1>2, <1>15, <1>16, <2>1, <2>2, <2>3 DEF ListsInv
<1>25. WalkedInv'
  <2>1. ASSUME NEW j \in s .. n, NEW m \in 1 .. Len(adjList[currentPath[j]]), Behind(j, m)',
               NEW p \in Walks, Begins(p, currentPath, j), p[j + 1] = adjList[currentPath[j]][m]
        PROVE  Settled(p)
    <3>1. j < k /\ j \in 1 .. n /\ j # n + 1 /\ (j # n => j \in 1 .. n - 1)
      BY <1>4
    <3>2. m < inds'[currentPath[j]]
      BY <1>16, <2>1, <3>1 DEF Behind
    <3>3. CASE Behind(j, m)
      BY <1>19, <2>1, <3>1, <3>3 DEF Walked
    <3>4. CASE ~ Behind(j, m)
      <4>1. j = n
        BY <1>20, <1>22, <3>1, <3>2, <3>4
      <4>2. m > inds[v] /\ m < i /\ m \in 1 .. Len(adjList[v])
        <5>1. m < i /\ m \in 1 .. Len(adjList[v])
          BY <1>4, <1>15, <2>1, <3>2, <4>1
        <5>2. ~ m < inds[v] /\ m # inds[v]
          BY <1>4, <1>20, <3>4, <4>1
        <5>. QED
          BY <1>5, <1>6, <5>1, <5>2
      <4>3. adjList[v][m] \in visited
        <5>1. m \notin Untried
          BY <1>3, <1>8, <4>2
        <5>2. m \in inds[v] + 1 .. Len(adjList[v])
          BY <1>5, <1>6, <4>2
        <5>. QED
          BY <5>1, <5>2 DEF Untried
      <4>4. PICK b \in 1 .. n : currentPath[b] = p[n + 1]
        BY <1>4, <1>17, <2>1, <4>1, <4>3
      <4>5. p[b] = p[n + 1] /\ b \in 1 .. k /\ n + 1 \in 1 .. k /\ b # n + 1
        BY <1>4, <2>1, <4>1, <4>4 DEF Begins
      <4>. QED
        BY <4>5, WalksFacts
    <3>. QED
      BY <3>3, <3>4
  <2>2. ASSUME NEW j \in s .. n, NEW m \in 1 .. Len(adjList[currentPath[j]]), Behind(j, m)'
        PROVE  Walked(j, m)'
    <3>1. j \in 1 .. n
      BY <1>4
    <3>2. currentPath'[j] = currentPath[j] /\ \A p : Begins(p, currentPath', j) <=> Begins(p, currentPath, j)
      BY <1>4, <1>16, <3>1 DEF Begins
    <3>3. ASSUME NEW p \in Walks', Begins(p, currentPath', j), p[j + 1] = adjList'[currentPath'[j]][m]
          PROVE  Settled(p)'
      <4>1. p \in Walks /\ Settled(p)
        BY <1>1, <1>2, <2>1, <2>2, <3>2, <3>3
      <4>. QED
        BY <1>2, <4>1 DEF Stable
    <3>. QED
      BY <3>3 DEF Walked
  <2>3. ASSUME NEW j, j = n + 1, NEW m \in 1 .. Len(adjList[w]), Behind(j, m)'
        PROVE  FALSE
    BY <1>15, <1>16, <2>3 DEF Behind
  <2>4. \A j \in s .. n + 1 : j \in s .. n \/ j = n + 1
    BY <1>4
  <2>5. \A j \in s .. n : adjList'[currentPath'[j]] = adjList[currentPath[j]]
    BY <1>1, <1>4, <1>16
  <2>. QED
    <3>1. ASSUME NEW j \in s .. n + 1, NEW m \in 1 .. Len(adjList'[currentPath'[j]]), Behind(j, m)'
          PROVE  Walked(j, m)'
      BY <1>1, <1>16, <2>2, <2>3, <2>4, <2>5, <3>1
    <3>. QED
      BY <1>2, <1>16, <3>1 DEF WalkedInv
<1>26. StartsInv'
  <2>1. currentPath'[1] = currentPath[1]
    BY <1>4, <1>16
  <2>. QED
    BY <1>1, <1>2, <2>1 DEF StartsInv, Stable
<1>27. RecalledInv' /\ (cycle' # null => cycle' \in SimplePaths(k)')
  BY <1>1, RecalledKept, CycleKept
<1>. QED
  BY <1>1, <1>23, <1>24, <1>25, <1>26, <1>27 DEF IInv, WalkInv

\* A call begins with a chord of edges at 1.
LEMMA PropagateKeeps ==
    ASSUME IInv, NEW c \in pending, Propagate(c)
    PROVE  IInv'
<1>1. /\ k \in Lengths /\ kind \in Kinds /\ kind # "atLeastOne" /\ pending \subseteq Chords
      /\ c \in Chords /\ ends(c) \in ones /\ pending' = pending \ {c} /\ Start(c)
      /\ UNCHANGED <<kind, k, ones, zeros>> /\ \A d \in pending : ends(d) \in ones
      /\ cycle' = IF kind = "atMostOne" THEN recall ELSE cycle
  BY DEF IInv, Propagate, post
<1>2. Open = ones /\ Open' = ones /\ StartLen = 2
  BY <1>1 DEF Open, StartLen
<1>3. c \in V \X V /\ c[1] < c[2]
  BY <1>1 DEF Chords, Chord
<1>4. PICK o \in IterationOrders : adjList' = [x \in V |-> Listed(Nbrs(ones, x), o)]
  BY DEF Propagate
<1>5. o \in [V -> Nat] /\ \A u, w \in V : o[u] = o[w] => u = w
  BY IterationOrdersAssumption
<1>6. c \in Seq(V) /\ Len(c) = 2 /\ c[1] # c[2]
  <2>1. c = <<c[1], c[2]>> /\ c[1] \in V /\ c[2] \in V
    BY <1>3
  <2>2. \A a, b \in V : <<a, b>> \in Seq(V) /\ Len(<<a, b>>) = 2
    OBVIOUS
  <2>3. c[1] # c[2]
    <3>1. c[1] \in Nat /\ c[2] \in Nat
      BY <2>1, VFacts
    <3>. QED
      BY <1>3, <3>1
  <2>4. <<c[1], c[2]>> \in Seq(V) /\ Len(<<c[1], c[2]>>) = 2
    BY <2>1, <2>2
  <2>5. c \in Seq(V) /\ Len(c) = 2
    BY <2>1, <2>4
  <2>. QED
    BY <2>3, <2>5
<1>7. PathInv' /\ ListsInv' /\ WalkedInv'
  <2>1. \A j \in 1 .. 2 : j = 1 \/ j = 2
    OBVIOUS
  <2>2. \A j, m \in 1 .. Len(c) : c[j] = c[m] => j = m
    BY <1>6, <2>1
  <2>3. \A j \in 1 .. Len(c) - 1 : Edge(c[j], c[j + 1]) \in Open'
    <3>1. Edge(c[1], c[2]) \in ones
      BY <1>1 DEF ends
    <3>2. \A j \in 1 .. Len(c) - 1 : j = 1 /\ j + 1 = 2
      BY <1>6
    <3>. QED
      BY <1>2, <3>1, <3>2
  <2>4. ASSUME NEW x \in V  PROVE Lists(adjList'[x], Nbrs(Open', x))
    <3>1. Lists(Listed(Nbrs(ones, x), o), Nbrs(ones, x))
      BY <1>5, NbrsFacts, ListedEnumerates
    <3>. QED
      BY <1>2, <1>4, <3>1
  <2>. QED
    BY <1>1, <1>2, <1>6, <2>2, <2>3, <2>4, StartKeeps
<1>8. StartsInv'
  BY <1>1 DEF StartsInv
<1>9. RecalledInv'
  <2>1. \A d : cycleEdges(d)' = cycleEdges(d)
    BY <1>1 DEF cycleEdges, At
  <2>2. kind = "atMostOne" /\ cycle' # null => cycleEdges(cycle') \subseteq ones
    BY <1>1 DEF recall, isCycle
  <2>3. cycleEdges(cycle)' = cycleEdges(cycle')
    BY <1>1 DEF cycleEdges, At
  <2>. QED
    BY <1>1, <2>2, <2>3 DEF RecalledInv
<1>10. cycle' # null => cycle' \in SimplePaths(k)'
  <2>1. cycle' = cycle \/ cycle' = null
    BY <1>1 DEF recall
  <2>. QED
    BY <1>1, <2>1, CycleKept
<1>. QED
  BY <1>1, <1>7, <1>8, <1>9, <1>10 DEF IInv, WalkInv

\* PropAtLeastOneCycle begins at the first vertex.
LEMMA PropagateAllKeeps ==
    ASSUME IInv, PropagateAll
    PROVE  IInv'
<1>1. /\ k \in Lengths /\ kind \in Kinds /\ kind = "atLeastOne" /\ pending' = {} /\ pc = "idle"
      /\ UNCHANGED <<kind, k, ones, zeros>>
  BY DEF IInv, PropagateAll, post
<1>2. cycle' # null => cycle' \in SimplePaths(k)'
  <2>1. cycle' = cycle \/ cycle' = null
    BY DEF PropagateAll
  <2>. QED
    BY <1>1, <2>1, CycleKept
<1>3. CASE isCycle(cycle) \/ undetermined(cycle)
  <2>1. pc' = "idle"
    BY <1>1, <1>3 DEF PropagateAll
  <2>. QED
    BY <1>1, <1>2, <2>1 DEF IInv
<1>4. CASE ~ (isCycle(cycle) \/ undetermined(cycle))
  <2>. DEFINE path == <<0>>
  <2>1. Start(path) /\ adjList' = [x \in V |-> Listed(Nbrs(AllEdges \ zeros, x), Upwards)]
    BY <1>4 DEF PropagateAll
  <2>2. path \in Seq(V) /\ Len(path) = 1 /\ path[1] = 0
    BY VFacts
  <2>3. StartLen = 1 /\ Open' = AllEdges \ zeros
    BY <1>1 DEF StartLen, Open
  <2>4. Upwards \in [V -> Nat] /\ \A u, w \in V : Upwards[u] = Upwards[w] => u = w
    <3>1. V \subseteq Nat
      BY VFacts
    <3>. QED
      BY <3>1 DEF Upwards
  <2>5. ASSUME NEW x \in V  PROVE Lists(adjList'[x], Nbrs(Open', x))
    <3>1. Lists(Listed(Nbrs(AllEdges \ zeros, x), Upwards), Nbrs(AllEdges \ zeros, x))
      BY <2>4, NbrsFacts, ListedEnumerates
    <3>. QED
      BY <2>1, <2>3, <3>1
  <2>6. currentPath' = path
    BY <2>1 DEF Start
  <2>. HIDE DEF path
  <2>7. /\ \A j, m \in 1 .. Len(path) : path[j] = path[m] => j = m
        /\ \A j \in 1 .. Len(path) - 1 : Edge(path[j], path[j + 1]) \in Open'
    BY <2>2
  <2>8. PathInv' /\ ListsInv' /\ WalkedInv'
    BY <1>1, <2>1, <2>2, <2>3, <2>5, <2>7, StartKeeps
  <2>9. StartsInv'
    <3>1. ASSUME NEW p \in Walks'  PROVE ~ p[1] < 0
      <4>1. k \in Nat /\ 1 \in 1 .. k /\ k' = k /\ V \subseteq Nat
        BY <1>1, LengthFacts, VFacts
      <4>2. p \in [1 .. k -> V]
        BY <4>1 DEF Walks, SimplePaths
      <4>3. p[1] \in Nat
        BY <4>1, <4>2
      <4>. QED
        BY <4>3
    <3>. QED
      BY <2>2, <2>6, <3>1 DEF StartsInv
  <2>10. RecalledInv'
    BY <1>1 DEF RecalledInv
  <2>. QED
    BY <1>1, <1>2, <2>8, <2>9, <2>10 DEF IInv, WalkInv
<1>. QED
  BY <1>3, <1>4

\* The world that was left last.
LEMMA LastWorld ==
    ASSUME Worlds, trail # <<>>
    PROVE  /\ Len(trail) \in Nat \ {0} /\ trail[Len(trail)] \in World
           /\ trail[Len(trail)].ones \subseteq AllEdges /\ trail[Len(trail)].zeros \subseteq AllEdges
           /\ trail[Len(trail)].chord \in Chords /\ Cycle \subseteq trail[Len(trail)].ones
           /\ Front(trail) \in Seq(World) /\ Len(Front(trail)) = Len(trail) - 1
           /\ \A i \in 1 .. Len(trail) - 1 : Front(trail)[i] = trail[i]
<1>1. trail \in Seq(World)
  BY DEF Worlds
<1>2. Len(trail) \in Nat \ {0} /\ Len(trail) >= 1 /\ trail[Len(trail)] \in World
  BY <1>1
<1>3. /\ Front(trail) \in Seq(World) /\ Len(Front(trail)) = Len(trail) - 1
      /\ \A i \in 1 .. Len(trail) - 1 : Front(trail)[i] = trail[i]
  BY <1>1, <1>2, FrontFacts
<1>. QED
  BY <1>2, <1>3 DEF World

\* The search changes the world only between calls.
LEMMA SearchKeeps ==
    ASSUME IInv, Worlds, Search
    PROVE  IInv'
<1>1. k \in Lengths /\ kind \in Kinds /\ kind' = kind /\ k' = k /\ cycle' = cycle
  BY DEF Search, Others, Decide, Solved, Refute, Idle, IInv, post
<1>2. pc' # "search"
  BY DEF Search, Others, Decide, Solved, Refute, Idle
<1>3. pending' \subseteq Chords /\ (kind # "atLeastOne" => \A c \in pending' : ends(c) \in ones')
  <2>1. pending \subseteq Chords /\ (kind # "atLeastOne" => \A c \in pending : ends(c) \in ones)
    BY DEF IInv
  <2>2. CASE Others
    <3>1. ForcedOnes \subseteq Chords /\ ForcedZeros \subseteq Chords
      BY DEF ForcedOnes, ForcedZeros, Undefined
    <3>2. CASE Left = {}
      BY <2>1, <2>2, <3>2 DEF Others
    <3>3. CASE Left # {}
      <4>1. /\ ones' = ones \cup {ends(c) : c \in ForcedOnes}
            /\ pending' = pending \cup ForcedOnes \cup (IF kind = "atLeastOne" THEN ForcedZeros ELSE {})
        BY <2>2, <3>3 DEF Others
      <4>. QED
        BY <2>1, <3>1, <4>1
    <3>. QED
      BY <3>2, <3>3
  <2>3. CASE Decide
    BY <2>3 DEF Decide, Undefined
  <2>4. CASE Solved
    BY <2>1, <2>4 DEF Solved
  <2>5. CASE Refute
    <3>1. CASE trail = <<>>
      BY <2>5, <3>1 DEF Refute
    <3>2. CASE trail # <<>>
      <4>1. pending' = IF kind = "atLeastOne" THEN {trail[Len(trail)].chord} ELSE {}
        BY <2>5, <3>2 DEF Refute
      <4>2. trail[Len(trail)].chord \in Chords
        BY <3>2, LastWorld
      <4>. QED
        BY <1>1, <4>1, <4>2
    <3>. QED
      BY <3>1, <3>2
  <2>. QED
    BY <2>2, <2>3, <2>4, <2>5 DEF Search
<1>4. cycle' # null => cycle' \in SimplePaths(k)'
  BY <1>1, CycleKept
<1>. QED
  BY <1>1, <1>2, <1>3, <1>4 DEF IInv

\* What a call changes of the world: an edge that would close the path may become 0.
LEMMA CallFacts ==
    ASSUME IInv, Call \/ Walk
    PROVE  /\ UNCHANGED <<kind, k, allowed, ones, trail, solutions, cnt>>
           /\ pc \in {"idle", "search"} /\ pc' \in {"idle", "search", "failed"}
           /\ zeros' = zeros \/ (Full /\ closing \notin ones /\ zeros' = zeros \cup {closing})
<1>1. CASE Call
  BY <1>1 DEF Call, Propagate, PropagateAll, Start, post, choco
<1>2. CASE Record
  BY <1>2 DEF Record, RecordNo, RecordAtMostOne, RecordAtLeastOne, Exclude, Full, post, choco
<1>3. CASE Advance
  BY <1>3 DEF Advance, post, choco
<1>4. CASE Retreat
  BY <1>4 DEF Retreat, Start, post, choco
<1>. QED
  BY <1>1, <1>2, <1>3, <1>4 DEF Walk

\* The edge that closes a full path joins two different vertices.
LEMMA ClosingIn ==
    ASSUME IInv, Full
    PROVE  closing \in AllEdges
<1>1. /\ k \in Lengths /\ currentPath \in SimplePaths(k) /\ k \in Nat /\ k >= 3
      /\ closing = Edge(currentPath[1], currentPath[k])
  BY FullFacts, WalksFacts
<1>. QED
  BY <1>1, CycleEdgesFacts

\* The worlds on the trail and the present one contain the fixed cycle.
LEMMA WorldsKept ==
    ASSUME IInv, Worlds, Next
    PROVE  Worlds'
<1>1. trail \in Seq(World) /\ ones \subseteq AllEdges /\ zeros \subseteq AllEdges /\ Cycle \subseteq ones
  BY DEF Worlds
<1>2. CASE Call \/ Walk
  <2>1. ones' = ones /\ trail' = trail /\ zeros' \subseteq AllEdges
    BY <1>1, <1>2, CallFacts, ClosingIn
  <2>. QED
    BY <1>1, <2>1 DEF Worlds
<1>3. CASE Others
  <2>1. \A c \in ForcedOnes \cup ForcedZeros : ends(c) \in AllEdges
    BY ChordFacts DEF ForcedOnes, ForcedZeros, Undefined
  <2>2. trail' = trail /\ ones \subseteq ones' /\ ones' \subseteq AllEdges /\ zeros' \subseteq AllEdges
    <3>1. CASE Left = {}
      BY <1>1, <1>3, <3>1 DEF Others, choco
    <3>2. CASE Left # {}
      <4>1. /\ ones' = ones \cup {ends(c) : c \in ForcedOnes}
            /\ zeros' = zeros \cup {ends(c) : c \in ForcedZeros}
            /\ trail' = trail
        BY <1>3, <3>2 DEF Others, choco
      <4>. HIDE DEF ForcedOnes, ForcedZeros
      <4>. QED
        BY <1>1, <2>1, <4>1
    <3>. QED
      BY <3>1, <3>2
  <2>. QED
    BY <1>1, <2>2 DEF Worlds
<1>4. CASE Decide
  <2>1. PICK c \in Undefined :
          /\ trail' = Append(trail, [ones |-> ones, zeros |-> zeros, chord |-> c])
          /\ ones' = ones \cup {ends(c)} /\ zeros' = zeros
    BY <1>4 DEF Decide
  <2>2. c \in Chords /\ ends(c) \in AllEdges
    BY <2>1, ChordFacts DEF Undefined
  <2>3. [ones |-> ones, zeros |-> zeros, chord |-> c] \in World
    BY <1>1, <2>2 DEF World
  <2>4. trail' \in Seq(World)
    BY <1>1, <2>1, <2>3, AppendFacts
  <2>. QED
    BY <1>1, <2>1, <2>2, <2>4 DEF Worlds
<1>5. CASE Solved
  BY <1>1, <1>5 DEF Solved, Worlds
<1>6. CASE Refute /\ trail # <<>>
  <2>. DEFINE w == trail[Len(trail)]
  <2>1. ones' = w.ones /\ zeros' = w.zeros \cup {ends(w.chord)} /\ trail' = Front(trail)
    BY <1>6 DEF Refute
  <2>2. /\ w.ones \subseteq AllEdges /\ w.zeros \subseteq AllEdges /\ w.chord \in Chords
        /\ Cycle \subseteq w.ones /\ Front(trail) \in Seq(World)
    BY <1>6, LastWorld
  <2>3. ends(w.chord) \in AllEdges
    BY <2>2, ChordFacts
  <2>. HIDE DEF w
  <2>. QED
    BY <2>1, <2>2, <2>3 DEF Worlds
<1>7. CASE Refute /\ trail = <<>>
  BY <1>1, <1>7 DEF Refute, Worlds
<1>. QED
  BY <1>2, <1>3, <1>4, <1>5, <1>6, <1>7 DEF Next, Search

\* What the constructors begin with.
LEMMA IInvInit == Init => IInv /\ Worlds
<1>1. SUFFICES ASSUME Init  PROVE IInv /\ Worlds
  OBVIOUS
<1>2. k \in Lengths /\ kind \in Kinds /\ pc = "idle" /\ ones = Cycle /\ zeros = {} /\ trail = <<>>
  BY <1>1 DEF Init
<1>3. k \in Nat /\ k >= 3 /\ k < N /\ N \in Nat
  BY <1>2, LengthFacts
<1>4. cycle # null => cycle \in SimplePaths(k)
  <2>1. CASE kind = "atLeastOne"
    <3>1. cycle = [j \in 1 .. k |-> j - 1]
      BY <1>1, <2>1 DEF Init
    <3>2. \A j \in 1 .. k : j - 1 \in V
      BY <1>3 DEF V
    <3>3. \A j, m \in 1 .. k : j - 1 = m - 1 => j = m
      BY <1>3
    <3>. QED
      BY <3>1, <3>2, <3>3 DEF SimplePaths
  <2>2. CASE kind # "atLeastOne"
    BY <1>1, <2>2 DEF Init
  <2>. QED
    BY <2>1, <2>2
<1>5. pending \subseteq Chords /\ (kind # "atLeastOne" => pending = {})
  BY <1>1 DEF Init
<1>6. Worlds
  BY <1>2, CycleIn DEF Worlds
<1>. QED
  BY <1>2, <1>4, <1>5, <1>6 DEF IInv

\* The invariants hold after a step that changes nothing.
LEMMA StutterKeeps ==
    ASSUME IInv, UNCHANGED vars
    PROVE  IInv'
<1>1. UNCHANGED <<kind, k, ones, zeros, pending, pc, cycle, currentPath, visited, inds, adjList>>
  BY DEF vars, post, walk
<1>2. Stable /\ Open' = Open /\ Walks' = Walks /\ StartLen' = StartLen
  BY <1>1, UnchangedStable, StableFacts DEF Stable
<1>3. cycle' # null => cycle' \in SimplePaths(k)'
  BY <1>1, CycleKept
<1>4. ASSUME pc' = "search"  PROVE WalkInv'
  <2>1. WalkInv
    BY <1>1, <1>4 DEF IInv
  <2>2. PathInv' /\ ListsInv'
    BY <1>1, <1>2, <2>1 DEF WalkInv, PathInv, ListsInv
  <2>3. WalkedInv'
    <3>1. \A j, m : (Behind(j, m)' <=> Behind(j, m)) /\ (Walked(j, m) => Walked(j, m)')
      <4>1. \A j, m : Behind(j, m)' <=> Behind(j, m)
        BY <1>1 DEF Behind
      <4>2. ASSUME NEW j, NEW m, Walked(j, m), NEW p \in Walks, Begins(p, currentPath, j),
                   p[j + 1] = adjList[currentPath[j]][m]
            PROVE  Settled(p)'
        BY <1>2, <4>2 DEF Walked, Stable
      <4>. QED
        BY <1>1, <1>2, <4>1, <4>2 DEF Walked
    <3>. QED
      BY <1>1, <1>2, <2>1, <3>1 DEF WalkInv, WalkedInv
  <2>4. StartsInv'
    BY <1>1, <1>2, <2>1 DEF WalkInv, StartsInv, Stable
  <2>5. RecalledInv'
    BY <1>1, <2>1, RecalledKept DEF WalkInv
  <2>. QED
    BY <2>2, <2>3, <2>4, <2>5 DEF WalkInv
<1>. QED
  BY <1>1, <1>3, <1>4 DEF IInv

\* The invariant of the walks is inductive.
LEMMA IInvNext == IInv /\ Worlds /\ [Next]_vars => IInv' /\ Worlds'
<1>1. CASE Next
  BY <1>1, PropagateKeeps, PropagateAllKeeps, RecordKeeps, AdvanceKeeps, RetreatKeeps, SearchKeeps, WorldsKept
  DEF Next, Call, Walk
<1>2. CASE UNCHANGED vars
  BY <1>2, StutterKeeps DEF vars, choco, Worlds
<1>. QED
  BY <1>1, <1>2

\* Whatever a propagator walks, what lies behind the indices of its path has been seen
\* to, and the path is a simple one along edges it may go along.
THEOREM WalkInvariant == Spec => [](IInv /\ Worlds)
<1>. QED
  BY IInvInit, IInvNext, PTL DEF Spec

\* A call of PropNoCycle that returns has walked every path of k vertices from its
\* chord: each edge that would close one of them is at 0.
THEOREM WalksComplete == Spec => WalkComplete
<1>1. ASSUME IInv, Next, kind = "no", pc = "search", pc' = "idle",
             NEW p \in [1 .. k -> V], Begins(p, currentPath, 2), IsPath(p)
      PROVE  Edge(p[1], p[k]) \in zeros'
  <2>1. Retreat /\ Len(currentPath) = 2
    <3>1. ~ Call /\ ~ Search
      BY <1>1 DEF Call, PropagateAll, Propagate, Search, Others, Decide, Solved, Refute, Idle
    <3>2. ~ Record /\ ~ Advance
      BY <1>1 DEF Record, RecordNo, RecordAtMostOne, RecordAtLeastOne, Full, Exclude, Advance
    <3>3. Retreat
      BY <1>1, <3>1, <3>2 DEF Next, Walk
    <3>. QED
      BY <1>1, <3>3 DEF Retreat
  <2>2. /\ k \in Lengths /\ PathInv /\ ListsInv /\ WalkedInv
        /\ Len(currentPath) < k /\ Untried = {} /\ zeros' = zeros
    BY <1>1, <2>1 DEF IInv, WalkInv, Retreat
  <2>3. p \in Walks
    BY <1>1 DEF IsPath, Walks, SimplePaths, Open
  <2>4. Settled(p)
    BY <1>1, <2>1, <2>2, <2>3, Exhausted
  <2>. QED
    BY <1>1, <2>2, <2>4 DEF Settled
<1>2. IInv /\ [Next]_vars =>
        [kind = "no" /\ pc = "search" /\ pc' = "idle" =>
           \A p \in [1 .. k -> V] :
              Begins(p, currentPath, 2) /\ IsPath(p) => Edge(p[1], p[k]) \in zeros']_vars
  BY <1>1
<1>. QED
  BY <1>2, WalkInvariant, PTL DEF Spec, WalkComplete

\* What PropNoCycle and PropAtMostOneCycle set to 0, or fail on, closes a path of k
\* vertices along edges at 1; the second does so only beside another cycle.
ExclusionCloses ==
    [][pc = "search" /\ kind # "atLeastOne" /\ (zeros' # zeros \/ pc' = "failed") =>
          \E p \in [1 .. k -> V] :
              /\ IsPath(p) /\ zeros' \subseteq zeros \cup {Edge(p[1], p[k])}
              /\ pc' = "failed" => Edge(p[1], p[k]) \in ones
              /\ kind = "atMostOne" => /\ isCycle(cycle)
                                       /\ cycleEdges(cycle) # cycleEdges(p)]_vars

\* What a call excludes, or fails on, would be a cycle of k vertices, or a second one.
THEOREM ExclusionsSound == Spec => ExclusionCloses
<1>1. ASSUME IInv, Next, pc = "search", kind # "atLeastOne", zeros' # zeros \/ pc' = "failed"
      PROVE  \E p \in [1 .. k -> V] :
                /\ IsPath(p) /\ zeros' \subseteq zeros \cup {Edge(p[1], p[k])}
                /\ pc' = "failed" => Edge(p[1], p[k]) \in ones
                /\ kind = "atMostOne" => isCycle(cycle) /\ cycleEdges(cycle) # cycleEdges(p)
  <2>1. /\ Record /\ Full /\ Exclude
        /\ kind = "atMostOne" => cycle # null /\ ~ isSameCycle(cycle, currentPath)
    <3>1. ~ Call /\ ~ Search
      BY <1>1 DEF Call, PropagateAll, Propagate, Search, Others, Decide, Solved, Refute, Idle
    <3>2. ~ Advance /\ ~ Retreat
      BY <1>1 DEF Advance, Retreat
    <3>3. Record
      BY <1>1, <3>1, <3>2 DEF Next, Walk
    <3>4. CASE RecordNo
      BY <3>3, <3>4 DEF RecordNo
    <3>5. CASE RecordAtMostOne
      BY <1>1, <3>3, <3>5 DEF RecordAtMostOne
    <3>6. CASE RecordAtLeastOne
      BY <1>1, <3>6 DEF RecordAtLeastOne
    <3>. QED
      BY <3>3, <3>4, <3>5, <3>6 DEF Record
  <2>2. /\ currentPath \in Walks /\ currentPath \in SimplePaths(k) /\ k \in Lengths /\ RecalledInv
        /\ closing = Edge(currentPath[1], currentPath[k])
    BY <1>1, <2>1, FullFacts, WalksFacts
  <2>3. currentPath \in [1 .. k -> V] /\ IsPath(currentPath)
    BY <1>1, <2>2, WalksFacts DEF IsPath, Open
  <2>4. /\ zeros' \subseteq zeros \cup {closing}
        /\ pc' = "failed" => closing \in ones
    BY <1>1, <2>1 DEF Exclude
  <2>5. ASSUME kind = "atMostOne"  PROVE isCycle(cycle) /\ cycleEdges(cycle) # cycleEdges(currentPath)
    <3>1. cycle \in SimplePaths(k) /\ cycle # null /\ cycleEdges(cycle) \subseteq ones
      BY <1>1, <2>1, <2>2, <2>5 DEF IInv, RecalledInv
    <3>. QED
      BY <2>1, <2>2, <2>5, <3>1, SameCycle DEF isCycle
  <2>. QED
    BY <2>2, <2>3, <2>4, <2>5
<1>2. IInv /\ [Next]_vars =>
        [pc = "search" /\ kind # "atLeastOne" /\ (zeros' # zeros \/ pc' = "failed") =>
          \E p \in [1 .. k -> V] :
              /\ IsPath(p) /\ zeros' \subseteq zeros \cup {Edge(p[1], p[k])}
              /\ pc' = "failed" => Edge(p[1], p[k]) \in ones
              /\ kind = "atMostOne" => /\ isCycle(cycle)
                                       /\ cycleEdges(cycle) # cycleEdges(p)]_vars
  BY <1>1
<1>. QED
  BY <1>2, WalkInvariant, PTL DEF Spec, ExclusionCloses

-----------------------------------------------------------------------------
(***************************************************************************)
(* The search.                                                             *)
(***************************************************************************)

\* A decision puts a world on the trail.
LEMMA DecideFacts ==
    ASSUME Worlds, Decide
    PROVE  \E c \in Undefined :
              /\ c \in Chords /\ ends(c) \notin ones \cup zeros
              /\ ones' = ones \cup {ends(c)} /\ pending' = {c}
              /\ Len(trail) \in Nat /\ Len(trail') = Len(trail) + 1
              /\ \A i \in 1 .. Len(trail) : trail'[i] = trail[i]
              /\ trail'[Len(trail) + 1].ones = ones /\ trail'[Len(trail) + 1].zeros = zeros
              /\ trail'[Len(trail) + 1].chord = c
              /\ Idle /\ UNCHANGED <<kind, k, allowed, zeros, pc, cycle, solutions, cnt>>
<1>1. PICK c \in Undefined :
        /\ trail' = Append(trail, [ones |-> ones, zeros |-> zeros, chord |-> c])
        /\ ones' = ones \cup {ends(c)} /\ pending' = {c}
  BY DEF Decide
<1>2. Idle /\ UNCHANGED <<kind, k, allowed, zeros, pc, cycle, solutions, cnt>>
  BY DEF Decide, post
<1>3. c \in Chords /\ ends(c) \notin ones \cup zeros
  BY DEF Undefined
<1>. DEFINE w == [ones |-> ones, zeros |-> zeros, chord |-> c]
<1>4. w \in World /\ trail \in Seq(World) /\ w.ones = ones /\ w.zeros = zeros /\ w.chord = c
  BY <1>3 DEF World, Worlds
<1>5. trail' = Append(trail, w)
  BY <1>1
<1>. HIDE DEF w
<1>6. /\ Len(trail) \in Nat /\ Len(trail') = Len(trail) + 1 /\ trail'[Len(trail) + 1] = w
      /\ \A i \in 1 .. Len(trail) : trail'[i] = trail[i]
  BY <1>4, <1>5, AppendFacts
<1>. QED
  BY <1>1, <1>2, <1>3, <1>4, <1>6

\* Backtracking takes one off.
LEMMA RefuteFacts ==
    ASSUME Worlds, Refute, trail # <<>>
    PROVE  LET n == Len(trail) IN
           /\ n \in Nat \ {0} /\ n \in 1 .. n /\ Len(trail') = n - 1
           /\ \A i \in 1 .. n - 1 : trail'[i] = trail[i] /\ i \in 1 .. n /\ n \in i + 1 .. n
           /\ ones' = trail[n].ones /\ zeros' = trail[n].zeros \cup {ends(trail[n].chord)}
           /\ pc' = "idle" /\ pc \in {"failed", "solved"}
           /\ pending' = IF kind = "atLeastOne" THEN {trail[n].chord} ELSE {}
           /\ UNCHANGED <<kind, k, allowed, cycle, solutions, cnt>>
<1>. DEFINE n == Len(trail)
<1>1. n \in Nat \ {0} /\ Len(Front(trail)) = n - 1 /\ \A i \in 1 .. n - 1 : Front(trail)[i] = trail[i]
  BY LastWorld
<1>2. /\ trail' = Front(trail)
      /\ ones' = trail[n].ones /\ zeros' = trail[n].zeros \cup {ends(trail[n].chord)}
      /\ pc' = "idle" /\ pc \in {"failed", "solved"}
      /\ pending' = IF kind = "atLeastOne" THEN {trail[n].chord} ELSE {}
      /\ UNCHANGED <<kind, k, allowed, cycle, solutions, cnt>>
  BY DEF Refute, post
<1>. HIDE DEF n
<1>3. n \in 1 .. n /\ \A i \in 1 .. n - 1 : i \in 1 .. n /\ n \in i + 1 .. n
  BY <1>1
<1>. QED
  BY <1>1, <1>2, <1>3 DEF n

\* When no decision is left to refute the search is over.
LEMMA RefuteLast ==
    ASSUME Refute, trail = <<>>
    PROVE  /\ pc \in {"failed", "solved"} /\ pc' = "done" /\ pending' = {}
           /\ UNCHANGED <<kind, k, allowed, ones, zeros, trail, cycle, solutions, cnt>>
BY DEF Refute, post

\* The other constraints put to 1 what all graphs left have, and to 0 what none has.
LEMMA OthersFacts ==
    ASSUME Others
    PROVE  /\ pc = "idle" /\ UNCHANGED <<kind, k, allowed, trail, cycle, solutions, cnt>>
           /\ \/ Left = {} /\ pc' = "failed" /\ UNCHANGED <<ones, zeros, pending>>
              \/ /\ Left # {} /\ pc' = "idle" /\ ForcedOnes \cup ForcedZeros # {}
                 /\ ones' = ones \cup {ends(c) : c \in ForcedOnes}
                 /\ zeros' = zeros \cup {ends(c) : c \in ForcedZeros}
                 /\ pending' = pending \cup ForcedOnes
                        \cup (IF kind = "atLeastOne" THEN ForcedZeros ELSE {})
BY DEF Others, post, choco

\* A solution changes nothing but what has been found.
LEMMA SolvedFacts ==
    ASSUME Solved
    PROVE  /\ Idle /\ Undefined = {} /\ pc' = "solved" /\ solutions' = solutions \cup {ones} /\ cnt' = cnt + 1
           /\ UNCHANGED <<kind, k, allowed, ones, zeros, pending, trail, cycle>>
BY DEF Solved, post

\* What the search's own steps leave alone.
LEMMA KindKept == [Next]_vars => UNCHANGED <<kind, k, allowed>>
BY DEF Next, Call, Walk, Search, PropagateAll, Propagate, Record, Advance, Retreat,
       Others, Decide, Solved, Refute, vars, post

\* Worlds stay nested.
LEMMA NestedKept ==
    ASSUME IInv, Worlds, Nested, Next
    PROVE  Nested'
<1>. DEFINE n == Len(trail)
<1>1. n \in Nat
  BY DEF Worlds
<1>2. /\ ones \cap zeros = {}
      /\ \A i \in 1 .. n : /\ trail[i].ones \cap trail[i].zeros = {}
                           /\ ends(trail[i].chord) \notin trail[i].ones \cup trail[i].zeros
                           /\ Grown(i) \subseteq ones
                           /\ \A j \in i + 1 .. n : Grown(i) \subseteq trail[j].ones
  BY DEF Nested
<1>3. ASSUME trail' = trail, ones \subseteq ones', ones' \cap zeros' = {}
      PROVE  Nested'
  <2>1. \A i : Grown(i)' = Grown(i)
    BY <1>3 DEF Grown
  <2>. QED
    BY <1>2, <1>3, <2>1 DEF Nested
<1>4. CASE Call \/ Walk
  <2>1. trail' = trail /\ ones' = ones /\ ones' \cap zeros' = {}
    BY <1>2, <1>4, CallFacts
  <2>. QED
    BY <1>3, <2>1
<1>5. CASE Others
  <2>1. trail' = trail
    BY <1>5, OthersFacts
  <2>2. CASE UNCHANGED <<ones, zeros>>
    BY <1>2, <1>3, <2>1, <2>2
  <2>3. CASE /\ Left # {} /\ ones' = ones \cup {ends(c) : c \in ForcedOnes}
             /\ zeros' = zeros \cup {ends(c) : c \in ForcedZeros}
    <3>1. PICK g \in Left : TRUE
      BY <2>3
    <3>2. \A c \in ForcedOnes : ends(c) \in g /\ ends(c) \notin zeros
      BY DEF ForcedOnes, Undefined
    <3>3. \A c \in ForcedZeros : ends(c) \notin g /\ ends(c) \notin ones
      BY DEF ForcedZeros, Undefined
    <3>. HIDE DEF ForcedOnes, ForcedZeros
    <3>4. ones' \cap zeros' = {}
      BY <1>2, <2>3, <3>2, <3>3
    <3>. QED
      BY <1>3, <2>1, <2>3, <3>4
  <2>. QED
    BY <1>5, <2>2, <2>3, OthersFacts
<1>6. CASE Decide
  <2>1. PICK c \in Undefined :
          /\ c \in Chords /\ ends(c) \notin ones \cup zeros
          /\ ones' = ones \cup {ends(c)} /\ zeros' = zeros
          /\ Len(trail') = n + 1 /\ \A i \in 1 .. n : trail'[i] = trail[i]
          /\ trail'[n + 1].ones = ones /\ trail'[n + 1].zeros = zeros /\ trail'[n + 1].chord = c
    BY <1>6, DecideFacts
  <2>. HIDE DEF n
  <2>2. \A i \in 1 .. n : Grown(i)' = Grown(i)
    BY <2>1 DEF Grown
  <2>3. ASSUME NEW i, i = n + 1 PROVE Grown(i)' = ones'
    BY <2>1, <2>3 DEF Grown
  <2>4. ASSUME NEW i \in 1 .. n
        PROVE  /\ trail'[i].ones \cap trail'[i].zeros = {}
               /\ ends(trail'[i].chord) \notin trail'[i].ones \cup trail'[i].zeros
               /\ Grown(i)' \subseteq ones'
               /\ \A j \in i + 1 .. n + 1 : Grown(i)' \subseteq trail'[j].ones
    <3>1. \A j \in i + 1 .. n + 1 : (j \in i + 1 .. n /\ j \in 1 .. n) \/ j = n + 1
      BY <1>1
    <3>. QED
      BY <1>2, <2>1, <2>2, <3>1
  <2>5. ASSUME NEW i, i = n + 1
        PROVE  /\ trail'[i].ones \cap trail'[i].zeros = {}
               /\ ends(trail'[i].chord) \notin trail'[i].ones \cup trail'[i].zeros
               /\ Grown(i)' \subseteq ones'
               /\ \A j \in i + 1 .. n + 1 : Grown(i)' \subseteq trail'[j].ones
    <3>1. i + 1 .. n + 1 = {}
      BY <1>1, <2>5
    <3>2. Grown(i)' = ones'
      BY <2>3, <2>5
    <3>. QED
      BY <1>2, <2>1, <2>5, <3>1, <3>2
  <2>6. \A i \in 1 .. n + 1 : i \in 1 .. n \/ i = n + 1
    BY <1>1
  <2>7. ones' \cap zeros' = {}
    BY <1>2, <2>1
  <2>. QED
    BY <2>1, <2>4, <2>5, <2>6, <2>7 DEF Nested
<1>7. CASE Solved
  <2>1. UNCHANGED <<ones, zeros, trail>>
    BY <1>7, SolvedFacts
  <2>. QED
    BY <1>2, <1>3, <2>1
<1>8. CASE Refute /\ trail # <<>>
  <2>1. /\ n \in 1 .. n /\ Len(trail') = n - 1
        /\ \A i \in 1 .. n - 1 : trail'[i] = trail[i] /\ i \in 1 .. n /\ n \in i + 1 .. n
        /\ ones' = trail[n].ones /\ zeros' = trail[n].zeros \cup {ends(trail[n].chord)}
    BY <1>8, RefuteFacts
  <2>. HIDE DEF n
  <2>2. \A i \in 1 .. n - 1 : Grown(i)' = Grown(i)
    BY <2>1 DEF Grown
  <2>3. ones' \cap zeros' = {}
    BY <1>2, <2>1
  <2>4. ASSUME NEW i \in 1 .. n - 1
        PROVE  /\ trail'[i].ones \cap trail'[i].zeros = {}
               /\ ends(trail'[i].chord) \notin trail'[i].ones \cup trail'[i].zeros
               /\ Grown(i)' \subseteq ones'
               /\ \A j \in i + 1 .. n - 1 : Grown(i)' \subseteq trail'[j].ones
    <3>1. \A j \in i + 1 .. n - 1 : j \in i + 1 .. n /\ j \in 1 .. n - 1
      BY <1>1
    <3>. QED
      BY <1>2, <2>1, <2>2, <3>1
  <2>. QED
    BY <2>1, <2>3, <2>4 DEF Nested
<1>9. CASE Refute /\ trail = <<>>
  <2>1. UNCHANGED <<ones, zeros, trail>>
    BY <1>9, RefuteLast
  <2>. QED
    BY <1>2, <1>3, <2>1
<1>. QED
  BY <1>4, <1>5, <1>6, <1>7, <1>8, <1>9 DEF Next, Search

-----------------------------------------------------------------------------
(***************************************************************************)
(* No cycle goes unnoticed: what is remembered, and what is still in doubt.*)
(***************************************************************************)

\* A step that does not change what is remembered changes nothing of what is known.
LEMMA KnownKept ==
    ASSUME UNCHANGED <<kind, k, cycle>>, NEW q
    PROVE  Known(q)' = Known(q) /\ cycleEdges(q)' = cycleEdges(q)
<1>1. \A c : cycleEdges(c)' = cycleEdges(c)
  BY DEF cycleEdges, At
<1>2. cycleEdges(cycle)' = cycleEdges(cycle)
  BY DEF cycleEdges, At
<1>. QED
  BY <1>1, <1>2 DEF Known

\* A step of a call keeps what is known, and resolves a doubt or leaves it.
LEMMA CyclesCarried ==
    ASSUME kind # "atLeastOne", UNCHANGED <<kind, k, ones, trail>>, Nested, CyclesInv,
           \A q \in SimplePaths(k) : cycleEdges(q) \subseteq ones /\ Known(q) => Known(q)',
           \A q \in SimplePaths(k) :
               pc' \in {"idle", "search"} /\ cycleEdges(q) \subseteq ones => Known(q)' \/ Doubtful(q)'
    PROVE  CyclesInv'
<1>1. SimplePaths(k)' = SimplePaths(k) /\ \A q : cycleEdges(q)' = cycleEdges(q)
  BY DEF SimplePaths, cycleEdges, At
<1>2. \A i \in 1 .. Len(trail) : trail[i].ones \subseteq ones
  BY DEF Nested, Grown
<1>3. ASSUME NEW q \in SimplePaths(k), NEW i \in 1 .. Len(trail), cycleEdges(q) \subseteq trail[i].ones
      PROVE  Known(q)'
  BY <1>2, <1>3 DEF CyclesInv
<1>. QED
  BY <1>1, <1>3 DEF CyclesInv

\* A call begins: its chord is on the path.
LEMMA PropagateCycles ==
    ASSUME IInv, Worlds, Nested, CyclesInv, NEW c \in pending, Propagate(c)
    PROVE  CyclesInv'
<1>1. /\ kind # "atLeastOne" /\ UNCHANGED <<kind, k, ones, trail>> /\ pc = "idle" /\ pc' = "search"
      /\ pending' = pending \ {c} /\ currentPath' = c
      /\ cycle' = IF kind = "atMostOne" THEN recall ELSE cycle
  BY DEF Propagate, Start, post, choco
<1>2. ASSUME NEW q \in SimplePaths(k), cycleEdges(q) \subseteq ones, Known(q)  PROVE Known(q)'
  <2>1. cycle' = cycle
    BY <1>1, <1>2 DEF Known, recall, isCycle
  <2>. QED
    BY <1>1, <1>2, <2>1, KnownKept
<1>3. ASSUME NEW q \in SimplePaths(k), cycleEdges(q) \subseteq ones  PROVE Known(q)' \/ Doubtful(q)'
  <2>1. CASE Known(q)
    BY <1>2, <1>3, <2>1
  <2>2. CASE ~ Known(q)
    <3>1. cycleEdges(q)' = cycleEdges(q)
      BY <1>1 DEF cycleEdges, At
    <3>2. Doubtful(q)
      BY <1>1, <1>3, <2>2 DEF CyclesInv
    <3>3. PICK d \in pending : ends(d) \in cycleEdges(q)
      BY <1>1, <3>2 DEF Doubtful
    <3>4. CASE d = c
      <4>1. Edge(currentPath'[1], currentPath'[2]) \in cycleEdges(q)'
        BY <1>1, <3>1, <3>3, <3>4 DEF ends
      <4>. QED
        BY <1>1, <4>1 DEF Doubtful
    <3>5. CASE d # c
      BY <1>1, <3>1, <3>3, <3>5 DEF Doubtful
    <3>. QED
      BY <3>4, <3>5
  <2>. QED
    BY <2>1, <2>2
<1>. QED
  BY <1>1, <1>2, <1>3, CyclesCarried

\* The walk goes on from the same chord.
LEMMA WalkCycles ==
    ASSUME kind # "atLeastOne", UNCHANGED <<kind, k, ones, trail, pending>>, Nested, CyclesInv,
           pc = "search", pc' \in {"search", "failed"},
           \A q \in SimplePaths(k) : cycleEdges(q) \subseteq ones /\ Known(q) => Known(q)',
           pc' = "search" => currentPath'[1] = currentPath[1] /\ currentPath'[2] = currentPath[2]
    PROVE  CyclesInv'
<1>1. ASSUME NEW q \in SimplePaths(k), pc' = "search", cycleEdges(q) \subseteq ones
      PROVE  Known(q)' \/ Doubtful(q)'
  <2>1. CASE Known(q)
    BY <1>1, <2>1
  <2>2. CASE ~ Known(q)
    <3>1. cycleEdges(q)' = cycleEdges(q)
      BY DEF cycleEdges, At
    <3>2. Doubtful(q)
      BY <1>1, <2>2 DEF CyclesInv
    <3>. QED
      BY <1>1, <3>1, <3>2 DEF Doubtful
  <2>. QED
    BY <2>1, <2>2
<1>. QED
  BY <1>1, CyclesCarried

\* A path of more than two vertices keeps its first two when it loses its end.
LEMMA PopBegins ==
    ASSUME k \in Lengths, PathInv, Len(currentPath) > 2, Pop
    PROVE  currentPath'[1] = currentPath[1] /\ currentPath'[2] = currentPath[2]
<1>. DEFINE n == Len(currentPath)
<1>1. currentPath \in Seq(V) /\ currentPath' = Front(currentPath) /\ n \in Nat /\ n > 2
  BY DEF PathInv, Pop
<1>2. \A j \in 1 .. n - 1 : currentPath'[j] = currentPath[j]
  BY <1>1, FrontFacts
<1>. HIDE DEF n
<1>3. 1 \in 1 .. n - 1 /\ 2 \in 1 .. n - 1
  BY <1>1
<1>. QED
  BY <1>2, <1>3

\* A full path is recorded: a cycle is remembered only where none was.
LEMMA RecordCycles ==
    ASSUME IInv, Nested, CyclesInv, Record
    PROVE  CyclesInv'
<1>1. /\ Full /\ UNCHANGED <<kind, k, ones, trail, pending>> /\ pc = "search"
      /\ kind = "atLeastOne" => zeros' = zeros
      /\ pc' \in {"failed", "search"} \/ (pc' = "idle" /\ kind = "atLeastOne")
      /\ pc' = "search" => Pop
      /\ kind # "atLeastOne" /\ cycle' # cycle => cycle = null
  <2>1. trail' = trail /\ pc = "search"
    BY DEF Record, choco, RecordNo, RecordAtMostOne, RecordAtLeastOne, Full
  <2>. QED
    BY <2>1, RecordFacts
<1>2. k \in Lengths /\ PathInv /\ Len(currentPath) = k /\ k \in Nat /\ k >= 3 /\ currentPath \in Walks
  BY <1>1, FullFacts
<1>3. CASE kind # "atLeastOne"
  <2>1. ASSUME NEW q, Known(q)  PROVE Known(q)'
    <3>1. cycle' = cycle
      BY <1>1, <1>3, <2>1 DEF Known
    <3>. QED
      BY <1>1, <2>1, <3>1, KnownKept
  <2>2. pc' = "search" => currentPath'[1] = currentPath[1] /\ currentPath'[2] = currentPath[2]
    <3>1. Len(currentPath) > 2
      BY <1>2
    <3>. QED
      BY <1>1, <1>2, <3>1, PopBegins
  <2>. QED
    BY <1>1, <1>3, <2>1, <2>2, WalkCycles
<1>4. CASE kind = "atLeastOne"
  <2>1. ASSUME pc' = "idle"  PROVE cycle' # null /\ cycleEdges(cycle') \cap zeros = {}
    <3>1. cycle' = currentPath /\ closing \notin zeros
      BY <1>1, <1>4, <2>1 DEF Record, RecordNo, RecordAtMostOne, RecordAtLeastOne
    <3>2. currentPath # null
      BY <1>1, FullFacts
    <3>3. \A j \in 1 .. k - 1 : Edge(currentPath[j], currentPath[j + 1]) \in AllEdges \ zeros
      BY <1>2, <1>4, WalksFacts DEF Open
    <3>4. cycleEdges(currentPath) \subseteq AllEdges \ zeros
      BY <1>1, <3>1, <3>3, ClosingIn, FullEdges
    <3>. QED
      BY <3>1, <3>2, <3>4
  <2>2. cycleEdges(cycle)' = cycleEdges(cycle')
    BY <1>1 DEF cycleEdges, At
  <2>. QED
    BY <1>1, <1>4, <2>1, <2>2 DEF CyclesInv
<1>. QED
  BY <1>3, <1>4

\* A call from a chord ends: it has seen to every cycle through the chord.
LEMMA RetreatCycles ==
    ASSUME IInv, Nested, CyclesInv, Retreat
    PROVE  CyclesInv'
<1>. DEFINE n == Len(currentPath)
<1>1. /\ pc = "search" /\ n < k /\ Untried = {} /\ PathInv /\ ListsInv /\ WalkedInv
      /\ k \in Lengths /\ kind \in Kinds /\ UNCHANGED <<kind, k, ones, zeros, pending, cycle, trail>>
  BY DEF IInv, WalkInv, Retreat, post, choco
<1>2. CASE kind = "atLeastOne"
  <2>1. pc' # "idle"
    BY <1>1, <1>2 DEF Retreat, Start
  <2>. QED
    BY <1>1, <1>2, <2>1 DEF CyclesInv
<1>3. CASE kind # "atLeastOne"
  <2>1. Pop /\ pc' = IF n = 2 THEN "idle" ELSE pc
    BY <1>3 DEF Retreat
  <2>2. n \in Nat /\ n >= 2
    BY <1>1, <1>3, PathFacts DEF StartLen
  <2>3. \A q : Known(q)' = Known(q) /\ cycleEdges(q)' = cycleEdges(q)
    BY <1>1, KnownKept
  <2>4. CASE n # 2
    <3>1. n > 2
      <4>. HIDE DEF n
      <4>. QED
        BY <2>2, <2>4
    <3>2. currentPath'[1] = currentPath[1] /\ currentPath'[2] = currentPath[2]
      BY <1>1, <2>1, <3>1, PopBegins
    <3>. QED
      BY <1>1, <1>3, <2>1, <2>3, <2>4, <3>2, WalkCycles
  <2>5. CASE n = 2
    <3>1. ASSUME NEW q \in SimplePaths(k), cycleEdges(q) \subseteq ones, ~ Known(q),
                 Edge(currentPath[1], currentPath[2]) \in cycleEdges(q)
          PROVE  FALSE
      <4>1. PICK r \in SimplePaths(k) :
              r[1] = currentPath[1] /\ r[2] = currentPath[2] /\ cycleEdges(r) = cycleEdges(q)
        BY <1>1, <3>1, ReadFromEdge
      <4>2. r \in Walks /\ Edge(r[1], r[k]) \in ones
        <5>1. \A j \in 1 .. k - 1 : Edge(r[j], r[j + 1]) \in ones
          BY <1>1, <3>1, <4>1, CycleEdgesFacts
        <5>2. Edge(r[1], r[k]) \in ones
          BY <1>1, <3>1, <4>1, CycleEdgesFacts
        <5>. QED
          BY <1>3, <5>1, <5>2 DEF Walks, Open
      <4>3. Begins(r, currentPath, n)
        <5>1. \A j \in 1 .. 2 : j = 1 \/ j = 2
          OBVIOUS
        <5>. QED
          BY <2>5, <4>1, <5>1 DEF Begins
      <4>4. Settled(r)
        BY <1>1, <4>2, <4>3, Exhausted
      <4>5. CASE kind = "atMostOne"
        <5>1. Known(r)
          BY <4>2, <4>4, <4>5 DEF Settled
        <5>. QED
          BY <3>1, <4>1, <5>1 DEF Known
      <4>6. CASE kind # "atMostOne"
        BY <4>2, <4>4, <4>6 DEF Settled, Nested
      <4>. QED
        BY <4>5, <4>6
    <3>2. ASSUME NEW q \in SimplePaths(k), cycleEdges(q) \subseteq ones  PROVE Known(q)' \/ Doubtful(q)'
      <4>1. CASE Known(q)
        BY <2>3, <4>1
      <4>2. CASE ~ Known(q)
        <5>1. Doubtful(q)
          BY <1>1, <1>3, <3>2, <4>2 DEF CyclesInv
        <5>2. \E c \in pending : ends(c) \in cycleEdges(q)
          BY <3>1, <3>2, <4>2, <5>1 DEF Doubtful
        <5>. QED
          BY <1>1, <2>3, <5>2 DEF Doubtful
      <4>. QED
        BY <4>1, <4>2
    <3>. QED
      BY <1>1, <1>3, <2>3, <3>2, CyclesCarried
  <2>. QED
    BY <2>4, <2>5
<1>. QED
  BY <1>2, <1>3

\* The walk goes on.
LEMMA AdvanceCycles ==
    ASSUME IInv, Nested, CyclesInv, Advance
    PROVE  CyclesInv'
<1>. DEFINE n == Len(currentPath)
<1>1. /\ pc = "search" /\ pc' = "search" /\ PathInv /\ ListsInv /\ k \in Lengths
      /\ UNCHANGED <<kind, k, ones, zeros, pending, cycle, trail>>
  BY DEF IInv, WalkInv, Advance, post, choco
<1>2. CASE kind = "atLeastOne"
  BY <1>1, <1>2 DEF CyclesInv
<1>3. CASE kind # "atLeastOne"
  <2>1. \A q : Known(q)' = Known(q)
    BY <1>1, KnownKept
  <2>2. PICK i \in Untried : currentPath' = Append(currentPath, adjList[v][i])
    BY DEF Advance
  <2>3. n \in Nat /\ n >= 2 /\ currentPath \in Seq(V) /\ v \in V
    BY <1>1, <1>3, PathFacts DEF StartLen, PathInv
  <2>4. adjList[v][i] \in V
    <3>1. Lists(adjList[v], Nbrs(Open, v)) /\ inds[v] \in Nat
      BY <1>1, <2>3 DEF ListsInv
    <3>2. i \in inds[v] + 1 .. Len(adjList[v]) /\ Len(adjList[v]) \in Nat
      BY <3>1 DEF Untried, Lists
    <3>3. i \in 1 .. Len(adjList[v])
      BY <3>1, <3>2
    <3>4. adjList[v][i] \in Nbrs(Open, v)
      BY <3>1, <3>3 DEF Lists
    <3>. QED
      BY <3>4 DEF Nbrs
  <2>5. \A j \in 1 .. n : currentPath'[j] = currentPath[j]
    BY <2>2, <2>3, <2>4, AppendFacts
  <2>. HIDE DEF n
  <2>6. 1 \in 1 .. n /\ 2 \in 1 .. n
    BY <2>3
  <2>. QED
    BY <1>1, <1>3, <2>1, <2>5, <2>6, WalkCycles
<1>. QED
  BY <1>2, <1>3

\* PropAtLeastOneCycle rests as long as none of the remembered edges is at 0.
LEMMA PropagateAllCycles ==
    ASSUME IInv, Nested, CyclesInv, PropagateAll
    PROVE  CyclesInv'
<1>1. kind = "atLeastOne" /\ UNCHANGED <<kind, k, ones, zeros, trail>>
  BY DEF PropagateAll, post, choco
<1>2. CASE isCycle(cycle) \/ undetermined(cycle)
  <2>1. cycle' = cycle
    BY <1>2 DEF PropagateAll
  <2>2. cycle # null /\ cycleEdges(cycle) \cap zeros = {}
    BY <1>2 DEF isCycle, undetermined, Nested
  <2>3. cycleEdges(cycle)' = cycleEdges(cycle)
    BY <1>1, <2>1 DEF cycleEdges, At
  <2>. QED
    BY <1>1, <2>1, <2>2, <2>3 DEF CyclesInv
<1>3. CASE ~ (isCycle(cycle) \/ undetermined(cycle))
  <2>1. pc' = "search"
    BY <1>3 DEF PropagateAll, Start
  <2>. QED
    BY <1>1, <2>1 DEF CyclesInv
<1>. QED
  BY <1>2, <1>3

\* The search's own steps: a new edge at 1 is that of a chord whose call is to come.
LEMMA SearchCycles ==
    ASSUME IInv, Worlds, Nested, CyclesInv, Search
    PROVE  CyclesInv'
<1>. DEFINE n == Len(trail)
<1>1. n \in Nat /\ UNCHANGED <<kind, k, cycle>>
  BY DEF Worlds, Search, Others, Decide, Solved, Refute, post
<1>2. SimplePaths(k)' = SimplePaths(k) /\ \A q : Known(q)' = Known(q) /\ cycleEdges(q)' = cycleEdges(q)
  BY <1>1, KnownKept DEF SimplePaths
<1>3. ASSUME Idle, NEW q \in SimplePaths(k), cycleEdges(q) \subseteq ones, kind # "atLeastOne"
      PROVE  Known(q)
  BY <1>3 DEF CyclesInv, Idle, Doubtful
<1>4. ASSUME NEW q \in SimplePaths(k), kind # "atLeastOne", NEW i \in 1 .. n, cycleEdges(q) \subseteq trail[i].ones
      PROVE  Known(q)
  BY <1>4 DEF CyclesInv
<1>5. CASE Others
  <2>1. pc = "idle" /\ trail' = trail
    BY <1>5, OthersFacts
  <2>2. CASE pc' = "failed"
    BY <1>1, <1>2, <1>4, <2>1, <2>2 DEF CyclesInv
  <2>3. CASE pc' # "failed"
    <3>1. /\ ForcedOnes \cup ForcedZeros # {}
          /\ ones' = ones \cup {ends(c) : c \in ForcedOnes}
          /\ pending' = pending \cup ForcedOnes
                 \cup (IF kind = "atLeastOne" THEN ForcedZeros ELSE {})
      BY <1>5, <2>3, OthersFacts
    <3>. HIDE DEF ForcedOnes, ForcedZeros
    <3>2. CASE kind = "atLeastOne"
      BY <1>1, <3>1, <3>2 DEF CyclesInv
    <3>3. CASE kind # "atLeastOne"
      <4>1. ASSUME NEW q \in SimplePaths(k), cycleEdges(q) \subseteq ones'
            PROVE  Known(q) \/ \E c \in pending' : ends(c) \in cycleEdges(q)
        <5>1. CASE cycleEdges(q) \subseteq ones
          <6>1. Known(q) \/ Doubtful(q)
            BY <2>1, <3>3, <5>1 DEF CyclesInv
          <6>. QED
            BY <2>1, <3>1, <6>1 DEF Doubtful
        <5>2. CASE ~ cycleEdges(q) \subseteq ones
          <6>1. PICK c \in ForcedOnes : ends(c) \in cycleEdges(q)
            BY <3>1, <4>1, <5>2
          <6>. QED
            BY <3>1, <6>1
        <5>. QED
          BY <5>1, <5>2
      <4>2. ASSUME NEW q \in SimplePaths(k), cycleEdges(q) \subseteq ones'
            PROVE  Known(q)' \/ Doubtful(q)'
        BY <1>2, <4>1, <4>2 DEF Doubtful
      <4>. QED
        BY <1>1, <1>2, <1>4, <2>1, <3>3, <4>2 DEF CyclesInv
    <3>. QED
      BY <3>2, <3>3
  <2>. QED
    BY <2>2, <2>3
<1>6. CASE Decide
  <2>1. PICK c \in Undefined :
          /\ ones' = ones \cup {ends(c)} /\ pending' = {c} /\ Idle
          /\ Len(trail') = n + 1 /\ \A i \in 1 .. n : trail'[i] = trail[i]
          /\ trail'[n + 1].ones = ones
    BY <1>6, DecideFacts
  <2>2. CASE kind = "atLeastOne"
    BY <1>1, <2>1, <2>2 DEF CyclesInv
  <2>3. CASE kind # "atLeastOne"
    <3>1. ASSUME NEW q \in SimplePaths(k), cycleEdges(q) \subseteq ones'  PROVE Known(q)' \/ Doubtful(q)'
      <4>1. CASE cycleEdges(q) \subseteq ones
        BY <1>2, <1>3, <2>1, <2>3, <4>1
      <4>2. CASE ~ cycleEdges(q) \subseteq ones
        <5>1. ends(c) \in cycleEdges(q)
          BY <2>1, <3>1, <4>2
        <5>. QED
          BY <1>2, <2>1, <5>1 DEF Doubtful
      <4>. QED
        BY <4>1, <4>2
    <3>2. ASSUME NEW q \in SimplePaths(k), NEW i \in 1 .. n + 1, cycleEdges(q) \subseteq trail'[i].ones
          PROVE  Known(q)'
      <4>1. i \in 1 .. n \/ i = n + 1
        BY <1>1
      <4>. HIDE DEF n
      <4>2. Known(q)
        BY <1>3, <1>4, <2>1, <2>3, <3>2, <4>1
      <4>. QED
        BY <1>2, <4>2
    <3>. QED
      BY <1>1, <1>2, <2>1, <2>3, <3>1, <3>2 DEF CyclesInv
  <2>. QED
    BY <2>2, <2>3
<1>7. CASE Solved
  <2>1. trail' = trail /\ pc' = "solved"
    BY <1>7, SolvedFacts
  <2>. QED
    BY <1>1, <1>2, <1>4, <2>1 DEF CyclesInv
<1>8. CASE Refute /\ trail # <<>>
  <2>1. /\ n \in 1 .. n /\ Len(trail') = n - 1
        /\ \A i \in 1 .. n - 1 : trail'[i] = trail[i] /\ i \in 1 .. n
        /\ ones' = trail[n].ones
        /\ pending' = IF kind = "atLeastOne" THEN {trail[n].chord} ELSE {}
    BY <1>8, RefuteFacts
  <2>2. CASE kind = "atLeastOne"
    BY <1>1, <2>1, <2>2 DEF CyclesInv
  <2>3. CASE kind # "atLeastOne"
    <3>1. ASSUME NEW q \in SimplePaths(k), cycleEdges(q) \subseteq ones'  PROVE Known(q)'
      BY <1>2, <1>4, <2>1, <2>3, <3>1
    <3>2. ASSUME NEW q \in SimplePaths(k), NEW i \in 1 .. n - 1, cycleEdges(q) \subseteq trail'[i].ones
          PROVE  Known(q)'
      BY <1>2, <1>4, <2>1, <2>3, <3>2
    <3>. QED
      BY <1>1, <1>2, <2>1, <2>3, <3>1, <3>2 DEF CyclesInv
  <2>. QED
    BY <2>2, <2>3
<1>9. CASE Refute /\ trail = <<>>
  <2>1. trail' = trail /\ pc' = "done"
    BY <1>9, RefuteLast
  <2>. QED
    BY <1>1, <1>2, <1>4, <2>1 DEF CyclesInv
<1>. QED
  BY <1>5, <1>6, <1>7, <1>8, <1>9 DEF Search

\* No step lets a cycle pass.
LEMMA CyclesKept ==
    ASSUME IInv, Worlds, Nested, CyclesInv, Next
    PROVE  CyclesInv'
BY PropagateCycles, PropagateAllCycles, RecordCycles, AdvanceCycles, RetreatCycles, SearchCycles
   DEF Next, Call, Walk

-----------------------------------------------------------------------------
(***************************************************************************)
(* No graph that is sought is lost.                                        *)
(***************************************************************************)

\* A graph that is allowed is the fixed cycle and some chords.
LEMMA GraphFacts ==
    ASSUME NEW g \in Graphs
    PROVE  Cycle \subseteq g /\ g \subseteq AllEdges
<1>1. PICK cs \in SUBSET Chords : g = Cycle \cup {ends(c) : c \in cs}
  BY DEF Graphs
<1>2. \A c \in Chords : ends(c) \in AllEdges
  BY ChordFacts
<1>. QED
  BY <1>1, <1>2, CycleIn

\* What a call puts to 0, or fails on, is in no graph that is sought.
LEMMA ExcludeSound ==
    ASSUME IInv, Record, kind # "atLeastOne", zeros' # zeros \/ pc' = "failed",
           NEW g \in Sought, ones \subseteq g
    PROVE  /\ Full /\ Exclude /\ closing \notin g
<1>1. /\ Full /\ Exclude
      /\ kind = "atMostOne" => cycle # null /\ ~ isSameCycle(cycle, currentPath)
  <2>1. CASE RecordNo
    BY <2>1 DEF RecordNo
  <2>2. CASE RecordAtMostOne
    BY <2>2 DEF RecordAtMostOne, Full
  <2>3. CASE RecordAtLeastOne
    BY <2>3 DEF RecordAtLeastOne
  <2>. QED
    BY <2>1, <2>2, <2>3 DEF Record
<1>2. /\ k \in Lengths /\ currentPath \in SimplePaths(k) /\ currentPath \in Walks /\ kind \in Kinds /\ RecalledInv
  BY <1>1, FullFacts, WalksFacts
<1>3. g \in Wanted[kind][k]
  BY DEF Sought
<1>4. ASSUME closing \in g  PROVE FALSE
  <2>1. cycleEdges(currentPath) \subseteq g
    <3>1. \A j \in 1 .. k - 1 : Edge(currentPath[j], currentPath[j + 1]) \in g
      BY <1>2, WalksFacts DEF Open
    <3>. QED
      BY <1>1, <1>4, <3>1, FullEdges
  <2>2. CASE kind = "no"
    BY <1>2, <1>3, <2>1, <2>2, WantedMeans
  <2>3. CASE kind = "atMostOne"
    <3>1. cycle \in SimplePaths(k) /\ cycleEdges(cycle) \subseteq g
      BY <1>1, <1>2, <2>3 DEF IInv, RecalledInv
    <3>2. cycleEdges(cycle) = cycleEdges(currentPath)
      BY <1>2, <1>3, <2>1, <2>3, <3>1, WantedMeans
    <3>. QED
      BY <1>1, <1>2, <2>3, <3>1, <3>2, SameCycle
  <2>. QED
    BY <1>2, <2>2, <2>3, KindsAssumption
<1>. QED
  BY <1>1, <1>4

\* A call keeps every graph that is sought: PropAtLeastOneCycle fails only when no
\* graph left has a cycle of k vertices.
LEMMA CallLosesNone ==
    ASSUME IInv, Worlds, allowed \subseteq Graphs, Call \/ Walk, NEW g \in Sought, Allows(ones, zeros, g)
    PROVE  pc' # "failed" /\ Allows(ones', zeros', g)
<1>1. ones' = ones /\ ones \subseteq g /\ g \cap zeros = {}
  BY CallFacts DEF Allows
<1>2. CASE Call \/ Advance
  <2>1. pc' # "failed" /\ zeros' = zeros
    BY <1>2 DEF Call, Propagate, PropagateAll, Start, Advance
  <2>. QED
    BY <1>1, <2>1 DEF Allows
<1>3. CASE Record
  <2>1. CASE zeros' = zeros /\ pc' # "failed"
    BY <1>1, <2>1 DEF Allows
  <2>2. CASE kind # "atLeastOne" /\ (zeros' # zeros \/ pc' = "failed")
    <3>1. Full /\ Exclude /\ closing \notin g
      BY <1>1, <1>3, <2>2, ExcludeSound
    <3>2. closing \notin ones /\ zeros' = zeros \cup {closing} /\ pc' = pc
      BY <1>1, <3>1 DEF Exclude
    <3>. QED
      BY <1>1, <3>1, <3>2 DEF Allows, Full
  <2>3. CASE kind = "atLeastOne"
    <3>1. zeros' = zeros /\ pc' # "failed"
      BY <1>3, <2>3 DEF Record, RecordNo, RecordAtMostOne, RecordAtLeastOne, Full
    <3>. QED
      BY <1>1, <3>1 DEF Allows
  <2>. QED
    BY <2>1, <2>2, <2>3
<1>4. CASE Retreat
  <2>1. zeros' = zeros
    BY <1>4 DEF Retreat
  <2>2. ASSUME pc' = "failed"  PROVE FALSE
    <3>1. /\ pc = "search" /\ kind = "atLeastOne" /\ Len(currentPath) = 1 /\ v = N - 1
          /\ Len(currentPath) < k /\ Untried = {}
      BY <1>4, <2>2 DEF Retreat, Start
    <3>2. k \in Lengths /\ kind \in Kinds /\ PathInv /\ ListsInv /\ WalkedInv /\ StartsInv
      BY <3>1 DEF IInv, WalkInv
    <3>3. g \in Wanted[kind][k] /\ g \subseteq AllEdges
      BY GraphFacts DEF Sought
    <3>4. PICK q \in SimplePaths(k) : cycleEdges(q) \subseteq g
      BY <3>1, <3>2, <3>3, WantedMeans
    <3>5. Edge(q[1], q[k]) \in g /\ \A j \in 1 .. k - 1 : Edge(q[j], q[j + 1]) \in g
      BY <3>2, <3>4, CycleEdgesFacts
    <3>6. q \in Walks
      BY <1>1, <3>1, <3>3, <3>5 DEF Walks, Open
    <3>7. v = currentPath[1] /\ N \in Nat
      BY <3>1, VFacts DEF v
    <3>8. q[1] \in Nat /\ q[1] < N
      <4>1. k \in Nat /\ 1 \in 1 .. k
        BY <3>2, LengthFacts
      <4>2. q[1] \in V
        BY <4>1, <3>6, WalksFacts
      <4>. QED
        BY <3>7, <4>2 DEF V
    <3>9. Settled(q)
      <4>1. CASE q[1] < N - 1
        BY <3>1, <3>2, <3>6, <3>7, <4>1 DEF StartsInv
      <4>2. CASE q[1] = N - 1
        <5>1. Begins(q, currentPath, Len(currentPath))
          BY <3>1, <3>7, <4>2 DEF Begins
        <5>. QED
          BY <3>1, <3>2, <3>6, <5>1, Exhausted
      <4>. QED
        BY <3>7, <3>8, <4>1, <4>2
    <3>. QED
      BY <1>1, <3>1, <3>5, <3>9 DEF Settled
  <2>. QED
    BY <1>1, <2>1, <2>2 DEF Allows
<1>. QED
  BY <1>2, <1>3, <1>4 DEF Walk

\* The other constraints keep every graph they allow.
LEMMA OthersLoseNone ==
    ASSUME Others, NEW g \in Sought, Allows(ones, zeros, g)
    PROVE  pc' # "failed" /\ Allows(ones', zeros', g)
<1>1. g \in Left /\ ones \subseteq g /\ g \cap zeros = {}
  BY DEF Sought, Allows, Left
<1>2. /\ pc' = "idle" /\ ones' = ones \cup {ends(c) : c \in ForcedOnes}
      /\ zeros' = zeros \cup {ends(c) : c \in ForcedZeros}
  BY <1>1, OthersFacts
<1>3. (\A c \in ForcedOnes : ends(c) \in g) /\ \A c \in ForcedZeros : ends(c) \notin g
  BY <1>1 DEF ForcedOnes, ForcedZeros
<1>. HIDE DEF ForcedOnes, ForcedZeros
<1>. QED
  BY <1>1, <1>2, <1>3 DEF Allows

\* What propagation changes: nothing but the edges at 1 and at 0, of which there are more.
LEMMA PropagationFacts ==
    ASSUME IInv, Call \/ Walk \/ Others
    PROVE  /\ UNCHANGED <<kind, k, allowed, trail, solutions, cnt>>
           /\ ones \subseteq ones' /\ zeros \subseteq zeros'
           /\ pc \in {"idle", "search"} /\ pc' \in {"idle", "search", "failed"}
<1>1. CASE Call \/ Walk
  BY <1>1, CallFacts
<1>2. CASE Others
  BY <1>2, OthersFacts
<1>. QED
  BY <1>1, <1>2

\* So propagation keeps every graph that is sought.
LEMMA PropagationLosesNone ==
    ASSUME IInv, Worlds, allowed \subseteq Graphs, Call \/ Walk \/ Others,
           NEW g \in Sought, Allows(ones, zeros, g)
    PROVE  pc' # "failed" /\ Allows(ones', zeros', g)
BY CallLosesNone, OthersLoseNone

\* Where every variable is fixed, one graph is left.
LEMMA SolvedGraph ==
    ASSUME Worlds, Undefined = {}, NEW g \in Graphs, Allows(ones, zeros, g)
    PROVE  g = ones
<1>1. SUFFICES ASSUME NEW d \in g  PROVE d \in ones
  BY DEF Allows
<1>2. CASE d \in Cycle
  BY <1>2 DEF Worlds
<1>3. CASE d \notin Cycle
  <2>1. d \in AllEdges
    BY GraphFacts
  <2>2. PICK c \in Chords : d = ends(c)
    BY <1>3, <2>1, CycleOrChord
  <2>3. d \in ones \cup zeros
    BY <2>2 DEF Undefined
  <2>. QED
    BY <1>1, <2>3 DEF Allows
<1>. QED
  BY <1>2, <1>3

\* A world is left because none of its graphs is sought, or because its only graph has
\* been reported.
LEMMA ReasonsKept ==
    ASSUME IInv, Worlds, allowed \subseteq Graphs, Reasons, Next
    PROVE  Reasons'
<1>1. Sought' = Sought
  BY KindKept DEF Sought
<1>2. CASE Call \/ Walk \/ Others
  <2>1. /\ ones \subseteq ones' /\ zeros \subseteq zeros' /\ pc' # "solved"
    BY <1>2, PropagationFacts
  <2>2. ASSUME pc' = "failed", NEW g \in Sought, Allows(ones', zeros', g)  PROVE FALSE
    <3>1. Allows(ones, zeros, g)
      BY <2>1, <2>2 DEF Allows
    <3>. QED
      BY <1>2, <2>2, <3>1, PropagationLosesNone
  <2>. QED
    BY <1>1, <2>1, <2>2 DEF Reasons, Allows
<1>3. CASE Decide
  <2>1. pc' = "idle"
    BY <1>3, DecideFacts DEF Idle
  <2>. QED
    BY <2>1 DEF Reasons
<1>4. CASE Solved
  <2>1. pc' = "solved" /\ ones' = ones /\ zeros' = zeros /\ ones \in solutions' /\ Undefined = {}
    BY <1>4, SolvedFacts
  <2>2. Undefined' = Undefined
    BY <2>1 DEF Undefined
  <2>. QED
    BY <2>1, <2>2 DEF Reasons
<1>5. CASE Refute
  <2>1. pc' \in {"idle", "done"}
    BY <1>5, RefuteFacts, RefuteLast
  <2>. QED
    BY <2>1 DEF Reasons
<1>. QED
  BY <1>2, <1>3, <1>4, <1>5 DEF Next, Search

\* A graph that is sought has been reported, or is allowed in a world still to come.
LEMMA AllAheadKept ==
    ASSUME IInv, Worlds, allowed \subseteq Graphs, Reasons, AllAhead, Next
    PROVE  AllAhead'
<1>. DEFINE n == Len(trail)
<1>1. n \in Nat /\ trail \in Seq(World)
  BY DEF Worlds
<1>2. Sought' = Sought /\ Sought \subseteq Graphs
  BY KindKept DEF Sought
<1>3. solutions \subseteq solutions'
  BY CallFacts, OthersFacts, DecideFacts, SolvedFacts, RefuteFacts, RefuteLast DEF Next, Search
<1>4. SUFFICES ASSUME NEW g \in Sought, g \notin solutions'
               PROVE  pc' # "done" /\ Ahead(g)'
  BY <1>2 DEF AllAhead
<1>5. pc # "done" /\ Ahead(g)
  BY <1>3, <1>4 DEF AllAhead
<1>6. CASE Call \/ Walk \/ Others
  <2>1. trail' = trail /\ pc' # "done"
    BY <1>6, PropagationFacts
  <2>2. CASE Allows(ones, zeros, g)
    <3>1. Allows(ones', zeros', g)
      BY <1>6, <2>2, PropagationLosesNone
    <3>. QED
      BY <2>1, <3>1 DEF Ahead
  <2>3. CASE ~ Allows(ones, zeros, g)
    <3>1. PICK i \in 1 .. n : Refuted(i, g)
      BY <1>5, <2>3 DEF Ahead
    <3>. QED
      BY <2>1, <3>1 DEF Ahead, Refuted
  <2>. QED
    BY <2>2, <2>3
<1>7. CASE Decide
  <2>1. PICK c \in Undefined :
          /\ ones' = ones \cup {ends(c)} /\ zeros' = zeros /\ pc' = pc
          /\ Len(trail') = n + 1 /\ \A i \in 1 .. n : trail'[i] = trail[i]
          /\ trail'[n + 1].ones = ones /\ trail'[n + 1].zeros = zeros /\ trail'[n + 1].chord = c
    BY <1>7, DecideFacts
  <2>2. CASE Allows(ones, zeros, g) /\ ends(c) \in g
    <3>1. Allows(ones', zeros', g)
      BY <2>1, <2>2 DEF Allows
    <3>. QED
      BY <1>5, <2>1, <3>1 DEF Ahead
  <2>3. CASE Allows(ones, zeros, g) /\ ends(c) \notin g
    <3>1. Allows(ones, zeros \cup {ends(c)}, g)
      BY <2>3 DEF Allows
    <3>2. PICK i \in 1 .. Len(trail') : i = n + 1
      BY <1>1, <2>1
    <3>3. Refuted(i, g)'
      BY <2>1, <3>1, <3>2 DEF Refuted
    <3>. QED
      BY <1>5, <2>1, <3>2, <3>3 DEF Ahead
  <2>4. CASE ~ Allows(ones, zeros, g)
    <3>1. PICK i \in 1 .. n : Refuted(i, g)
      BY <1>5, <2>4 DEF Ahead
    <3>2. i \in 1 .. Len(trail') /\ trail'[i] = trail[i]
      <4>1. i \in 1 .. n + 1
        BY <1>1
      <4>. QED
        BY <2>1, <4>1
    <3>3. Refuted(i, g)'
      BY <3>1, <3>2 DEF Refuted
    <3>. QED
      BY <1>5, <2>1, <3>2, <3>3 DEF Ahead
  <2>. QED
    BY <2>2, <2>3, <2>4
<1>8. CASE Solved
  <2>1. UNCHANGED <<ones, zeros, trail>> /\ pc' = "solved"
    BY <1>8, SolvedFacts
  <2>. QED
    BY <1>5, <2>1 DEF Ahead, Refuted, Allows
<1>9. CASE Refute
  <2>1. ~ Allows(ones, zeros, g)
    <3>1. SUFFICES ASSUME Allows(ones, zeros, g)  PROVE FALSE
      OBVIOUS
    <3>2. CASE pc = "failed"
      BY <1>4, <3>1, <3>2 DEF Reasons
    <3>3. CASE pc = "solved"
      <4>1. g = ones
        BY <1>2, <3>1, <3>3, SolvedGraph DEF Reasons
      <4>. QED
        BY <1>3, <1>4, <3>3, <4>1 DEF Reasons
    <3>. QED
      BY <1>9, <3>2, <3>3 DEF Refute
  <2>2. PICK m \in 1 .. n : Refuted(m, g)
    BY <1>5, <2>1 DEF Ahead
  <2>3. trail # <<>>
    BY <2>2
  <2>4. /\ n \in Nat \ {0} /\ Len(trail') = n - 1
        /\ \A i \in 1 .. n - 1 : trail'[i] = trail[i]
        /\ ones' = trail[n].ones /\ zeros' = trail[n].zeros \cup {ends(trail[n].chord)}
        /\ pc' = "idle"
    BY <1>9, <2>3, RefuteFacts
  <2>5. CASE m = n
    <3>1. Allows(ones', zeros', g)
      BY <2>2, <2>4, <2>5 DEF Refuted
    <3>. QED
      BY <2>4, <3>1 DEF Ahead
  <2>6. CASE m # n
    <3>1. m \in 1 .. n - 1
      BY <2>4, <2>6
    <3>2. m \in 1 .. Len(trail') /\ Refuted(m, g)'
      BY <2>2, <2>4, <3>1 DEF Refuted
    <3>. QED
      BY <2>4, <3>2 DEF Ahead
  <2>. QED
    BY <2>5, <2>6
<1>. QED
  BY <1>6, <1>7, <1>8, <1>9 DEF Next, Search

\* A graph that has been reported is in no world still to come.
LEMMA NoneAheadKept ==
    ASSUME IInv, Worlds, Nested, NoneAhead, Next
    PROVE  NoneAhead'
<1>. DEFINE n == Len(trail)
<1>1. n \in Nat /\ trail \in Seq(World)
  BY DEF Worlds
<1>2. CASE Call \/ Walk \/ Others
  <2>1. /\ trail' = trail /\ solutions' = solutions /\ ones \subseteq ones' /\ zeros \subseteq zeros'
        /\ pc \in {"idle", "search"}
    BY <1>2, PropagationFacts
  <2>2. ASSUME NEW g \in solutions
        PROVE  ~ Allows(ones', zeros', g) /\ \A i \in 1 .. n : ~ Refuted(i, g)
    BY <2>1, <2>2 DEF NoneAhead, Allows
  <2>3. \A g, i : Refuted(i, g)' = Refuted(i, g)
    BY <2>1 DEF Refuted
  <2>. QED
    BY <2>1, <2>2, <2>3 DEF NoneAhead
<1>3. CASE Decide
  <2>1. PICK c \in Undefined :
          /\ ones' = ones \cup {ends(c)} /\ zeros' = zeros /\ solutions' = solutions /\ pc = "idle"
          /\ Len(trail') = n + 1 /\ \A i \in 1 .. n : trail'[i] = trail[i]
          /\ trail'[n + 1].ones = ones /\ trail'[n + 1].zeros = zeros /\ trail'[n + 1].chord = c
    BY <1>3, DecideFacts DEF Idle
  <2>2. SUFFICES ASSUME NEW g \in solutions
                 PROVE  ~ Allows(ones', zeros', g) /\ \A i \in 1 .. Len(trail') : ~ Refuted(i, g)'
    BY <2>1 DEF NoneAhead
  <2>3. ~ Allows(ones, zeros, g) /\ \A i \in 1 .. n : ~ Refuted(i, g)
    BY <2>1 DEF NoneAhead
  <2>4. ~ Allows(ones', zeros', g)
    BY <2>1, <2>3 DEF Allows
  <2>5. ASSUME NEW i \in 1 .. n  PROVE ~ Refuted(i, g)'
    <3>1. trail'[i] = trail[i] /\ ~ Refuted(i, g)
      BY <2>1, <2>3
    <3>. QED
      BY <3>1 DEF Refuted
  <2>6. ASSUME NEW i, i = n + 1  PROVE ~ Refuted(i, g)'
    <3>1. ~ Allows(ones, zeros \cup {ends(c)}, g)
      BY <2>3 DEF Allows
    <3>. QED
      BY <2>1, <2>6, <3>1 DEF Refuted
  <2>7. \A i \in 1 .. Len(trail') : i \in 1 .. n \/ i = n + 1
    BY <1>1, <2>1
  <2>. QED
    BY <2>4, <2>5, <2>6, <2>7
<1>4. CASE Solved
  <2>1. /\ UNCHANGED <<ones, zeros, trail>> /\ pc' = "solved" /\ solutions' = solutions \cup {ones}
    BY <1>4, SolvedFacts
  <2>2. ASSUME NEW i \in 1 .. n  PROVE ~ Refuted(i, ones)
    BY DEF Nested, Grown, Refuted, Allows
  <2>3. ASSUME NEW g \in solutions', NEW i \in 1 .. n  PROVE ~ Refuted(i, g)
    BY <2>1, <2>2 DEF NoneAhead
  <2>4. \A g, i : Refuted(i, g)' = Refuted(i, g)
    BY <2>1 DEF Refuted
  <2>. QED
    BY <2>1, <2>3, <2>4 DEF NoneAhead
<1>5. CASE Refute /\ trail # <<>>
  <2>1. /\ n \in 1 .. n /\ Len(trail') = n - 1 /\ solutions' = solutions
        /\ \A i \in 1 .. n - 1 : trail'[i] = trail[i] /\ i \in 1 .. n
        /\ ones' = trail[n].ones /\ zeros' = trail[n].zeros \cup {ends(trail[n].chord)}
    BY <1>5, RefuteFacts
  <2>2. SUFFICES ASSUME NEW g \in solutions
                 PROVE  ~ Allows(ones', zeros', g) /\ \A i \in 1 .. Len(trail') : ~ Refuted(i, g)'
    BY <2>1 DEF NoneAhead
  <2>3. \A i \in 1 .. n : ~ Refuted(i, g)
    BY DEF NoneAhead
  <2>4. ~ Allows(ones', zeros', g)
    BY <2>1, <2>3 DEF Refuted
  <2>5. ASSUME NEW i \in 1 .. n - 1  PROVE ~ Refuted(i, g)'
    BY <2>1, <2>3 DEF Refuted
  <2>. QED
    BY <2>1, <2>4, <2>5
<1>6. CASE Refute /\ trail = <<>>
  <2>1. pc' = "done" /\ UNCHANGED <<trail, solutions>>
    BY <1>6, RefuteLast
  <2>. QED
    BY <2>1 DEF NoneAhead, Refuted
<1>. QED
  BY <1>2, <1>3, <1>4, <1>5, <1>6 DEF Next, Search

\* What the search reports is sought.
LEMMA ReportsSought ==
    ASSUME IInv, Worlds, Nested, CyclesInv, allowed \subseteq Graphs, Solved
    PROVE  ones \in Sought
<1>1. /\ pc = "idle" /\ pending = {} /\ Left # {} /\ Undefined = {} /\ k \in Lengths /\ kind \in Kinds
  BY SolvedFacts DEF Idle, IInv
<1>2. ones \in allowed
  <2>1. PICK g \in Left : TRUE
    BY <1>1
  <2>2. g \in allowed /\ Allows(ones, zeros, g)
    BY DEF Left, Allows
  <2>. QED
    BY <1>1, <2>2, SolvedGraph
<1>3. \A q : ~ Doubtful(q)
  BY <1>1 DEF Doubtful
<1>4. ones \in Graphs
  BY <1>2
<1>5. CASE kind = "no"
  <2>1. \A q \in SimplePaths(k) : ~ cycleEdges(q) \subseteq ones
    BY <1>1, <1>3, <1>5 DEF CyclesInv, Known
  <2>. QED
    BY <1>1, <1>2, <1>4, <1>5, <2>1, WantedMeans DEF Sought
<1>6. CASE kind = "atMostOne"
  <2>1. \A q \in SimplePaths(k) : cycleEdges(q) \subseteq ones => cycleEdges(cycle) = cycleEdges(q)
    BY <1>1, <1>3, <1>6 DEF CyclesInv, Known
  <2>2. \A q, r \in SimplePaths(k) :
            cycleEdges(q) \subseteq ones /\ cycleEdges(r) \subseteq ones => cycleEdges(q) = cycleEdges(r)
    BY <2>1
  <2>. QED
    BY <1>1, <1>2, <1>4, <1>6, <2>2, WantedMeans DEF Sought
<1>7. CASE kind = "atLeastOne"
  <2>1. cycle # null /\ cycleEdges(cycle) \cap zeros = {} /\ cycle \in SimplePaths(k)
    BY <1>1, <1>7 DEF CyclesInv, IInv
  <2>2. ASSUME NEW d \in cycleEdges(cycle)  PROVE d \in ones
    <3>1. d \in AllEdges /\ d \notin zeros
      BY <1>1, <2>1, CycleEdgesFacts
    <3>2. CASE d \in Cycle
      BY <3>2 DEF Worlds
    <3>3. CASE d \notin Cycle
      <4>1. PICK c \in Chords : d = ends(c)
        BY <3>1, <3>3, CycleOrChord
      <4>. QED
        BY <1>1, <3>1, <4>1 DEF Undefined
    <3>. QED
      BY <3>2, <3>3
  <2>3. \E q \in SimplePaths(k) : cycleEdges(q) \subseteq ones
    BY <2>1, <2>2
  <2>. QED
    BY <1>1, <1>2, <1>4, <1>7, <2>3, WantedMeans DEF Sought
<1>. QED
  BY <1>1, <1>5, <1>6, <1>7, KindsAssumption

\* The search begins with the fixed cycle, which has no shorter one in it.
LEMMA EInvInit == Init => EInv
<1>1. SUFFICES ASSUME Init  PROVE EInv
  OBVIOUS
<1>2. /\ kind \in Kinds /\ k \in Lengths /\ allowed \in Posted /\ pc = "idle"
      /\ ones = Cycle /\ zeros = {} /\ trail = <<>> /\ solutions = {}
      /\ kind = "atLeastOne" => pending = Chords
  BY <1>1 DEF Init
<1>3. IInv /\ Worlds /\ allowed \subseteq Graphs
  BY <1>1, <1>2, IInvInit, PostedAssumption
<1>4. Nested
  BY <1>2 DEF Nested
<1>5. CyclesInv
  <2>1. ASSUME NEW q \in SimplePaths(k)  PROVE ~ cycleEdges(q) \subseteq ones
    BY <1>2, NoShortCycle
  <2>2. ASSUME kind = "atLeastOne", pending = {}
        PROVE  cycle # null /\ cycleEdges(cycle) \cap zeros = {}
    <3>1. cycle = [j \in 1 .. k |-> j - 1] /\ k \in Nat /\ k >= 3
      BY <1>1, <1>2, <2>2, LengthFacts DEF Init
    <3>2. DOMAIN null = {} /\ 1 \in DOMAIN cycle
      BY <3>1 DEF null
    <3>. QED
      BY <1>2, <3>2
  <2>. QED
    BY <1>2, <2>1, <2>2 DEF CyclesInv
<1>6. Reasons /\ NoneAhead /\ solutions \subseteq Sought
  BY <1>2 DEF Reasons, NoneAhead
<1>7. AllAhead
  <2>1. ASSUME NEW g \in Sought  PROVE Allows(ones, zeros, g)
    <3>1. g \in Graphs
      BY <1>3 DEF Sought
    <3>. QED
      BY <1>2, <3>1, GraphFacts DEF Allows
  <2>. QED
    BY <1>2, <2>1 DEF AllAhead, Ahead
<1>. QED
  BY <1>3, <1>4, <1>5, <1>6, <1>7 DEF EInv

\* The invariant of the search is inductive.
LEMMA EInvStep == EInv /\ [Next]_vars => EInv'
<1>1. ASSUME EInv, Next  PROVE EInv'
  <2>1. IInv' /\ Worlds'
    BY <1>1, IInvNext DEF EInv
  <2>2. Nested' /\ CyclesInv' /\ Reasons' /\ AllAhead' /\ NoneAhead'
    BY <1>1, NestedKept, CyclesKept, ReasonsKept, AllAheadKept, NoneAheadKept DEF EInv
  <2>3. allowed' = allowed /\ Sought' = Sought
    BY <1>1, KindKept DEF Sought
  <2>4. solutions' \subseteq Sought
    <3>1. CASE Solved
      <4>1. ones \in Sought /\ solutions' = solutions \cup {ones}
        BY <1>1, <3>1, ReportsSought, SolvedFacts DEF EInv
      <4>. QED
        BY <1>1, <4>1 DEF EInv
    <3>2. CASE Call \/ Walk \/ Others
      BY <1>1, <3>2, PropagationFacts DEF EInv
    <3>3. CASE Decide \/ Refute
      BY <1>1, <3>3, DecideFacts, RefuteFacts, RefuteLast DEF EInv
    <3>. QED
      BY <1>1, <3>1, <3>2, <3>3 DEF Next, Search
  <2>. QED
    BY <1>1, <2>1, <2>2, <2>3, <2>4 DEF EInv
<1>2. ASSUME EInv, UNCHANGED vars  PROVE EInv'
  <2>1. IInv' /\ Worlds'
    BY <1>2, IInvNext DEF EInv
  <2>2. UNCHANGED <<kind, k, allowed, ones, zeros, pending, pc, cycle, currentPath, trail, solutions>>
    BY <1>2 DEF vars, post, walk, choco
  <2>3. Sought' = Sought /\ Nested'
    BY <1>2, <2>2 DEF EInv, Sought, Nested, Grown
  <2>4. CyclesInv'
    <3>1. SimplePaths(k)' = SimplePaths(k) /\ \A q : Known(q)' = Known(q) /\ cycleEdges(q)' = cycleEdges(q)
      BY <2>2, KnownKept DEF SimplePaths
    <3>2. cycleEdges(cycle)' = cycleEdges(cycle) /\ \A q : Doubtful(q)' = Doubtful(q)
      BY <2>2, <3>1 DEF cycleEdges, At, Doubtful
    <3>3. CyclesInv
      BY <1>2 DEF EInv
    <3>. QED
      BY <2>2, <3>1, <3>2, <3>3 DEF CyclesInv
  <2>5. Reasons' /\ AllAhead' /\ NoneAhead'
    <3>1. Undefined' = Undefined
      BY <2>2 DEF Undefined
    <3>2. Reasons'
      BY <1>2, <2>2, <2>3, <3>1 DEF EInv, Reasons, Allows
    <3>3. \A g, i : Refuted(i, g)' = Refuted(i, g)
      BY <2>2 DEF Refuted
    <3>4. \A g : Ahead(g)' = Ahead(g) /\ Allows(ones, zeros, g)' = Allows(ones, zeros, g)
      BY <2>2, <3>3 DEF Ahead, Allows
    <3>. QED
      BY <1>2, <2>2, <2>3, <3>2, <3>3, <3>4 DEF EInv, AllAhead, NoneAhead
  <2>. QED
    BY <1>2, <2>1, <2>2, <2>3, <2>4, <2>5 DEF EInv
<1>. QED
  BY <1>1, <1>2

\* Every step of the search reports a graph that is sought and not yet found, ends the
\* enumeration when all have been found, or changes nothing of it.
LEMMA SearchSteps ==
    EInv /\ EInv' /\ [Next]_vars =>
        [E!Report \/ E!Finish]_<<solutions, cnt, pc = "done">>
<1>1. ASSUME EInv, Solved  PROVE E!Report
  <2>1. /\ pc = "idle" /\ pc' = "solved" /\ cnt' = cnt + 1 /\ solutions' = solutions \cup {ones}
    BY <1>1, SolvedFacts DEF Idle
  <2>2. ones \in Wanted[kind][k] \cap allowed
    BY <1>1, ReportsSought DEF EInv, Sought
  <2>3. ones \notin solutions
    BY <1>1, <2>1 DEF EInv, Nested, NoneAhead, Allows
  <2>4. ones \in solutions' \ solutions
    BY <2>1, <2>3
  <2>5. (pc = "done") = FALSE /\ (pc' = "done") = FALSE
    BY <2>1
  <2>. QED
    BY <2>1, <2>2, <2>4, <2>5 DEF E!Report
<1>2. ASSUME EInv, EInv', Refute, trail = <<>>  PROVE E!Finish
  <2>1. pc # "done" /\ pc' = "done" /\ UNCHANGED <<kind, k, allowed, solutions, cnt>>
    BY <1>2, RefuteLast
  <2>2. solutions = Wanted[kind][k] \cap allowed
    <3>1. AllAhead' /\ solutions \subseteq Sought
      BY <1>2 DEF EInv
    <3>2. Sought' = Sought
      BY <2>1 DEF Sought
    <3>3. \A g \in Sought : g \in solutions
      BY <2>1, <3>1, <3>2 DEF AllAhead
    <3>. QED
      BY <3>1, <3>3 DEF Sought
  <2>. QED
    BY <2>1, <2>2 DEF E!Finish
<1>3. ASSUME EInv, Call \/ Walk \/ Others \/ Decide \/ (Refute /\ trail # <<>>)
      PROVE  UNCHANGED <<solutions, cnt, pc = "done">>
  <2>1. UNCHANGED <<solutions, cnt>> /\ pc # "done" /\ pc' # "done"
    <3>1. CASE Call \/ Walk \/ Others
      BY <1>3, <3>1, PropagationFacts DEF EInv
    <3>2. CASE Decide
      BY <1>3, <3>2, DecideFacts DEF EInv, Idle
    <3>3. CASE Refute /\ trail # <<>>
      BY <1>3, <3>3, RefuteFacts DEF EInv
    <3>. QED
      BY <1>3, <3>1, <3>2, <3>3
  <2>. QED
    BY <2>1
<1>4. ASSUME UNCHANGED vars  PROVE UNCHANGED <<solutions, cnt, pc = "done">>
  BY <1>4 DEF vars, choco
<1>. QED
  BY <1>1, <1>2, <1>3, <1>4 DEF Next, Search

\* Beside any other constraints, the search with one of the three propagators reports
\* the graphs with no, at most one or at least one cycle of k vertices that these allow,
\* none twice, counts them, and returns only when it has reported them all.
THEOREM SearchEnumerates == Spec => Enumerates
<1>1. Init => E!Init
  BY DEF Init, E!Init
<1>. QED
  BY <1>1, EInvInit, EInvStep, SearchSteps, PTL DEF Spec, Enumerates, E!Spec

\* Between calls PropAtMostOneCycle remembers the cycle of k vertices of the graph, if
\* there is one, whatever it remembered in worlds that have been left.
THEOREM CycleRemembered == Spec => []Remembered
<1>1. ASSUME EInv  PROVE Remembered
  <2>1. SUFFICES ASSUME kind = "atMostOne", Idle, NEW c \in CyclesOf(ones, k)
                 PROVE  cycle # null /\ cycleEdges(cycle) = c
    BY DEF Remembered
  <2>2. k \in Lengths /\ CyclesInv /\ pc = "idle" /\ pending = {}
    BY <1>1, <2>1 DEF EInv, IInv, Idle
  <2>3. PICK q \in SimplePaths(k) : c = cycleEdges(q) /\ c \subseteq ones
    BY <2>1, <2>2, CyclesOfMeans
  <2>4. ~ Doubtful(q)
    BY <2>2 DEF Doubtful
  <2>5. Known(q)
    BY <2>1, <2>2, <2>3, <2>4 DEF CyclesInv
  <2>. QED
    BY <2>3, <2>5 DEF Known
<1>. QED
  BY <1>1, EInvInit, EInvStep, PTL DEF Spec
=============================================================================
