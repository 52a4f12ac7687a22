------------------------ MODULE EncodedLexImplications ------------------------
(***************************************************************************)
(* LexImplications with its solver: the adjacency matrices, permutation    *)
(* and lex constraints as ConstraintSolver encodes them, and the two files *)
(* that LexImplicationsReducer writes for ./glucoseReducer.                *)
(***************************************************************************)
EXTENDS LexImplications, SolverEncodings

VARIABLE solver     \* m_solver

evars == <<vars, solver>>

(***************************************************************************)
(* Adjacency matrices: the variable of each pair, numbered by rows, and    *)
(* the string of one, in the order of Indexing.                            *)
(***************************************************************************)
RowIndex(m, d) == Cardinality({c \in Edges(m) : c[1] < d[1] \/ (c[1] = d[1] /\ c[2] < d[2])})
AdjMatrix(m, base) == [d \in Edges(m) |-> base + RowIndex(m, d)]
EdgeAt == [m \in 0 .. MaxOrder |-> [k \in 1 .. Cardinality(Edges(m)) |->
                                      CHOOSE d \in Edges(m) : position[m][d] = k]]
indexing(m, g) == [k \in 1 .. Cardinality(Edges(m)) |-> g[EdgeAt[m][k]]]
permute(m, g, p) == [d \in Edges(m) |-> g[Image(p, d)]]

\* The pairs (k, l), k # l, in the order of the two loops.
OrderedPairs(m) ==
    [q \in 1 .. m * (m - 1) |->
        LET k == (q - 1) \div (m - 1)  l == (q - 1) % (m - 1)
        IN <<k, IF l < k THEN l ELSE l + 1>>]

\* Variant: perm(i) = k and perm(j) = l.
isomorphicInverse(s, m, g1, g2, perm) ==
    LET conjunct(q, d, c) ==
            AddClauses(newBoolVar(q), And3Clauses(intEqReif(perm, m, d[1], c[1]),
                                                  intEqReif(perm, m, d[2], c[2]),
                                                  g2[Pair(c[1], c[2])], q.nextBoolID))
        edge(r, d) ==
            boolArrayOrReif(FoldLeft(LAMBDA q, c : conjunct(q, d, c), Free(r, g1[d]), OrderedPairs(m)),
                      [q \in 1 .. m * (m - 1) |-> r.nextBoolID + q - 1], g1[d])
    IN FoldLeft(edge, s, EdgeAt[m])

\* The models do not depend on the order of variables and clauses: those of g1
\* join here, each with the clauses that determine it.
\* g1(i, j) is the disjunction, over k # l, of perm(k) = i /\ perm(l) = j /\ g2(k, l).
isomorphic(s, m, g1, g2, perm) ==
    LET conjunct(q, d, c) ==
            AddClauses(newBoolVar(q), And3Clauses(intEqReif(perm, m, c[1], d[1]),
                                                  intEqReif(perm, m, c[2], d[2]),
                                                  g2[Pair(c[1], c[2])], q.nextBoolID))
        edge(r, d) ==
            boolArrayOrReif(FoldLeft(LAMBDA q, c : conjunct(q, d, c), Free(r, g1[d]), OrderedPairs(m)),
                      [q \in 1 .. m * (m - 1) |-> r.nextBoolID + q - 1], g1[d])
    IN FoldLeft(edge, s, EdgeAt[m])

(***************************************************************************)
(* The model of one length.  The variables are numbered as they are made.  *)
(***************************************************************************)
G1(m) == AdjMatrix(m, 2)
G2(m) == AdjMatrix(m, 2 + Cardinality(Edges(m)))
Perm(m) == 2 + 2 * Cardinality(Edges(m))

PostImplication(s, m, imp) ==
    boolArraysLexImplication(s, indexing(m, G1(m)), indexing(m, permute(m, G1(m), imp.perm)), imp.length)

\* newModel up to isomorphic, and "embed subgraph": the same for every length.
Base == [m \in MinOrder .. MaxOrder |->
    LET perm == newPermutation([newModel(<<>>) EXCEPT !.nextBoolID = Perm(m)], m)
        g2 == FoldLeft(LAMBDA s, d : Free(s, G2(m)[d]), perm, EdgeAt[m])
        iso == isomorphic(g2, m, G1(m), G2(m), Perm(m))
    IN AddClauses(iso, {{IF d \in Sub THEN G1(m)[d] ELSE -G1(m)[d]} : d \in Edges(K)})]

Model(m, l, given, found) ==
    LET lt == boolArraysLexLtImplication(Base[m], indexing(m, G2(m)), indexing(m, G1(m)), l)
    IN FoldLeft(LAMBDA s, imp : PostImplication(s, m, imp), lt, SetToSeq(given) \o found)

(***************************************************************************)
(* LexImplicationsReducer: the file of definitions, given implications and *)
(* subgraph, and a clause for each implication that delta lists.  Pairs    *)
(* are variables from 1, there is no constant.                             *)
(***************************************************************************)
AdjVars == AdjMatrix(n, 1)
Permuted1(imp) == indexing(n, permute(n, AdjVars, imp.perm))

TseitenCnfFile ==
    LET pairs == NewBoolVars([nextBoolID |-> 1, models |-> {{}}, cache |-> <<>>], Cardinality(Edges(n)))
        given == FoldLeft(LAMBDA s, imp : boolArraysLexImplication(s, indexing(n, AdjVars), Permuted1(imp), imp.length),
                          pairs, SetToSeq(canset))
        defined == FoldLeft(LAMBDA s, imp : PrefixIffs(s, indexing(n, AdjVars), Permuted1(imp), imp.length - 1),
                            given, delta)
    IN AddClauses(defined, {{IF d \in Sub THEN AdjVars[d] ELSE -AdjVars[d]} : d \in Edges(K)})

ImplicationsCnfFile(file) ==
    [k \in DOMAIN delta |->
        ImplicationClause(file, indexing(n, AdjVars), Permuted1(delta[k]), delta[k].length)]

\* ./glucoseReducer may drop k: the other clauses kept imply its clause.
CnfRedundant(k) ==
    LET file == TseitenCnfFile
        clause == ImplicationsCnfFile(file)
        True(m, j) == \E b \in clause[j] : Holds(m, b)
    IN {m \in file.models : (\A j \in kept \ {k} : True(m, j)) /\ ~ True(m, k)} = {}

(***************************************************************************)
(* The steps of LexImplications, as the solver and the files decide them.  *)
(***************************************************************************)
SolverFinds(m) ==
    /\ pc = "solve"
    /\ LET imp == [perm |-> decodeIntArray(m, Perm(n), n), length |-> length] IN
       /\ delta' = Append(delta, imp)
       /\ solver' = PostImplication(solver, n, imp)
    /\ UNCHANGED <<n, canset, length, pc, kept, outFile>>

\* The model of the next length, when there is one.
NextModel ==
    solver' = IF pc' = "solve" THEN Model(n', length', canset', delta') ELSE solver

SolverExhausted ==
    /\ pc = "solve" /\ solver.models = {}
    /\ IF length % 5 = 0 \/ length = maxLen(n)
       THEN pc' = "reduce" /\ kept' = DOMAIN delta /\ UNCHANGED length
       ELSE length' = length + 1 /\ UNCHANGED <<pc, kept>>
    /\ UNCHANGED <<n, canset, delta, outFile>>
    /\ NextModel

CnfDrops(k) ==
    /\ pc = "reduce" /\ CnfRedundant(k)
    /\ kept' = kept \ {k}
    /\ UNCHANGED <<n, canset, delta, length, pc, outFile, solver>>

EInit == Init /\ solver = Model(n, 1, {}, <<>>)

SolverFind == \E m \in solver.models : SolverFinds(m)
CnfDrop == \E k \in kept : CnfDrops(k)
CnfWrites == ReducerWrites /\ NextModel
CnfFails == ReducerFails /\ NextModel
ENextOrder == NextOrder /\ NextModel

ENext == SolverFind \/ SolverExhausted \/ CnfDrop \/ CnfWrites \/ CnfFails \/ ENextOrder
ESpec == EInit /\ [][ENext]_evars

-----------------------------------------------------------------------------
\* The encoding implements LexImplications: the solver's answers are graphs and
\* permutations as Found asks for, its refutations leave none, and what the
\* files make redundant is redundant.
ImplementsAlgorithm == Spec
=============================================================================
