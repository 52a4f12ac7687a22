-------------------------- MODULE SearchStrategyUHG --------------------------
(***************************************************************************)
(* SearchStrategyUHG.getDecision: the undefined edge with the smallest     *)
(* vector, the first of them in the order of the two loops, to be tried    *)
(* with its upper bound 1 first.  g is the graph of the edges at 1.        *)
(***************************************************************************)
EXTENDS HamGraphs, FiniteSetsExt

degree(g, u) == Cardinality(Nbrs(g, u))
sumDegreesPS(g, u) == degree(g, Mod(u - 1)) + degree(g, Mod(u + 1))

vector(g, c) ==
    LET ds == {degree(g, c[1]), degree(g, c[2])}
        sums == {sumDegreesPS(g, c[1]), sumDegreesPS(g, c[2])}
    IN << Max(ds), Min(ds), - Max(sums), Min(sums),
          Cardinality(Nbrs(g, c[1]) \cap Nbrs(g, c[2])) >>

lexGt(a, b) == \E k \in 1 .. 5 : a[k] > b[k] /\ \A j \in 1 .. k - 1 : a[j] = b[j]

getDecision(g, undefined) ==
    CHOOSE c \in undefined : \A d \in undefined \ {c} :
        \/ lexGt(vector(g, d), vector(g, c))
        \/ vector(g, c) = vector(g, d) /\ Earlier(c, d)
=============================================================================
