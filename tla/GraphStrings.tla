----------------------------- MODULE GraphStrings -----------------------------
(***************************************************************************)
(* The graphs of the C++ part, the strings of bits that order them, and    *)
(* lex implications.  An adjacency matrix of order n is the set of its     *)
(* pairs <<i, j>>, i < j, that are true; a permutation of 0 .. n-1 is also *)
(* one of the larger orders, where it leaves the new vertices in place.    *)
(***************************************************************************)
EXTENDS Integers, FiniteSets

CONSTANTS
    MaxOrder,           \* the largest order of the run
    Indexing        \* CanonicalIndexing: "rows" or "cols"

ASSUME OrdersAssumption == MaxOrder \in Nat /\ Indexing \in {"rows", "cols"}

Verts(n) == 0 .. n - 1
Edges(n) == {d \in Verts(n) \X Verts(n) : d[1] < d[2]}
Graphs(n) == SUBSET Edges(n)

\* Matrix.get(i, j) for i # j, which is Matrix.get(j, i).
Pair(a, b) == IF a < b THEN <<a, b>> ELSE <<b, a>>

\* newPermutation: int variables in 0 .. n-1 that are all different.
Perms == [n \in 0 .. MaxOrder |->
            {p \in [Verts(n) -> Verts(n)] : \A j, k \in Verts(n) : p[j] = p[k] => j = k}]

\* Matrix.permute: permuted(i, j) = get(pi, pj), where p is the identity
\* beyond its size.  d is an edge of permuted iff Image(p, d) is one of g.
Moved(p, x) == IF x \in DOMAIN p THEN p[x] ELSE x
Image(p, d) == Pair(Moved(p, d[1]), Moved(p, d[2]))

(***************************************************************************)
(* The order in which upperTriangle (rows) and lowerTriangle (columns of   *)
(* the upper triangle) push the pairs, and a pair's place in the string.   *)
(***************************************************************************)
Precedes(c, d) ==
    IF Indexing = "rows" THEN c[1] < d[1] \/ (c[1] = d[1] /\ c[2] < d[2])
                         ELSE c[2] < d[2] \/ (c[2] = d[2] /\ c[1] < d[1])
Before(n, d) == {c \in Edges(n) : Precedes(c, d)}
position == [n \in 0 .. MaxOrder |-> [d \in Edges(n) |-> Cardinality(Before(n, d)) + 1]]

\* g and g.permute(p) have the same bits before d.
SamePrefix(n, g, p, d) == \A c \in Before(n, d) : c \in g <=> Image(p, c) \in g

\* Variant: the strings are swapped.
SatisfiesSwapped(n, g, imp) ==
    \A d \in Edges(n) :
        /\ position[n][d] = imp.length /\ SamePrefix(n, g, imp.perm, d)
        /\ Image(imp.perm, d) \in g
            => d \in g

\* boolArraysLexImplication(g, g.permute(p), length): if the first length - 1
\* bits are equal then the next bit of g is at most that of g.permute(p).
Satisfies(n, g, imp) ==
    \A d \in Edges(n) :
        position[n][d] = imp.length /\ SamePrefix(n, g, imp.perm, d) /\ d \in g
            => Image(imp.perm, d) \in g

\* boolArraysLexLtImplication(g.permute(p), g, length): g.permute(p) is less
\* than g and differs from it first in the bit number length.
LtImplication(n, g, p, length) ==
    \E d \in Edges(n) :
        /\ position[n][d] = length /\ SamePrefix(n, g, p, d)
        /\ d \in g /\ Image(p, d) \notin g

(***************************************************************************)
(* Reference definitions.                                                  *)
(***************************************************************************)
Permuted(n, g, p) == {d \in Edges(n) : Image(p, d) \in g}
Isomorphic(n, g, h) == \E p \in Perms[n] : h = Permuted(n, g, p)

\* g.permute(p) is lexicographically less than g.
Smaller(n, g, p) ==
    \E d \in Edges(n) : SamePrefix(n, g, p, d) /\ d \in g /\ Image(p, d) \notin g
LexLeaders == [n \in 0 .. MaxOrder |->
                {g \in Graphs(n) : \A p \in Perms[n] : ~ Smaller(n, g, p)}]
=============================================================================
