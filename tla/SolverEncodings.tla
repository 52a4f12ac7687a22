---------------------------- MODULE SolverEncodings ----------------------------
(***************************************************************************)
(* The constraints of ConstraintSolver as clauses.  A BoolVarRef is the    *)
(* number of a variable, or its negative for the negation; variable 1 is   *)
(* true.  The SAT solver's clauses are represented by what they leave: the *)
(* models, each the set of the variables that are true in it.  A solver is *)
(* a record                                                                *)
(*   nextBoolID, models, cache (m_iffReifCache, by pairs of BoolVarRefs).  *)
(***************************************************************************)
EXTENDS Integers, SequencesExt, TLC

trueConst == 1
falseConst == -1

Holds(m, b) == IF b > 0 THEN b \in m ELSE -b \notin m

\* addClause, for each clause (a set of BoolVarRefs) of a set.
AddClauses(s, clauses) ==
    [s EXCEPT !.models = {m \in @ : \A c \in clauses : \E b \in c : Holds(m, b)}]

\* The models with a variable that no clause mentions yet.
Free(s, v) == [s EXCEPT !.models = @ \cup {m \cup {v} : m \in @}]

newBoolVar(s) == [Free(s, s.nextBoolID) EXCEPT !.nextBoolID = @ + 1]
NewBoolVars(s, k) == FoldLeft(LAMBDA r, j : newBoolVar(r), s, [j \in 1 .. k |-> j])

\* The constructor and newModel: the true constant and nothing else.
\* Variant: the cache is not cleared.
newModelKeepsCache(s) == [nextBoolID |-> 2, models |-> {{1}}, cache |-> s.cache]
newModel(s) == [nextBoolID |-> 2, models |-> {{1}}, cache |-> <<>>]

(***************************************************************************)
(* Reifications.                                                           *)
(***************************************************************************)
IffClauses(a, b, t) == {{a, b, t}, {-a, -b, t}, {a, -b, -t}, {-a, b, -t}}

\* Variant: the last clause is missing, as it is in boolOrReif.
AndClausesShort(a, b, t) == {{a, -t}, {b, -t}}
AndClauses(a, b, t) == {{a, -t}, {b, -t}, {-a, -b, t}}
And3Clauses(a, b, c, t) == {{a, -t}, {b, -t}, {c, -t}, {-a, -b, -c, t}}
OrClauses(a, b, t) == {{a, b, -t}, {a, -b, t}, {-a, b, t}}

\* boolIffReif(b1, b2) finds the pair in the cache, either way round, or adds it.
Cached(s, a, b) == {<<a, b>>, <<b, a>>} \cap DOMAIN s.cache # {}
IffReif(s, a, b) == IF <<a, b>> \in DOMAIN s.cache THEN s.cache[<<a, b>>]
                                                   ELSE s.cache[<<b, a>>]
boolIffReif(s, a, b) ==
    IF Cached(s, a, b) THEN s
    ELSE [AddClauses(newBoolVar(s), IffClauses(a, b, s.nextBoolID))
            EXCEPT !.cache = (<<a, b>> :> s.nextBoolID) @@ @]

\* boolIffReif(arr1[j], arr2[j], t) with a new t for each of the first k places;
\* the new variables are numbered from s.nextBoolID.
NewIffs(s, arr1, arr2, k) ==
    FoldLeft(LAMBDA r, j : AddClauses(newBoolVar(r), IffClauses(arr1[j], arr2[j], r.nextBoolID)),
             s, [j \in 1 .. k |-> j])

\* The chain of reifications of an array: ti is a new variable for each element
\* between the first and the last.
ArrayReif(s, bvars, t, Clauses(_, _, _)) ==
    LET last == Len(bvars)
        step(r, j) == [solver |-> AddClauses(newBoolVar(r.solver),
                                             Clauses(r.ti, bvars[j], r.solver.nextBoolID)),
                       ti |-> r.solver.nextBoolID]
        r == FoldLeft(step, [solver |-> s, ti |-> bvars[1]], [j \in 1 .. last - 2 |-> j + 1])
    IN AddClauses(r.solver, Clauses(bvars[last], r.ti, t))
boolArrayAndReif(s, bvars, t) == ArrayReif(s, bvars, t, AndClauses)
boolArrayOrReif(s, bvars, t) == ArrayReif(s, bvars, t, OrClauses)

(***************************************************************************)
(* Orders of arrays.                                                       *)
(***************************************************************************)
boolArraysLex(s, arr1, arr2) ==
    LET k == Len(arr1)
        reif(j) == s.nextBoolID + j - 1
    IN AddClauses(NewIffs(s, arr1, arr2, k - 1),
                  {{-reif(j) : j \in 1 .. i - 1} \cup {-arr1[i], arr2[i]} : i \in 1 .. k})

\* boolIffReif(arr1[j], arr2[j]) for the first k places, and the clause that,
\* where they agree, the next bit of arr1 is at most that of arr2.
PrefixIffs(s, arr1, arr2, k) ==
    FoldLeft(LAMBDA r, j : boolIffReif(r, arr1[j], arr2[j]), s, [j \in 1 .. k |-> j])

ImplicationClause(s, arr1, arr2, length) ==
    {-IffReif(s, arr1[j], arr2[j]) : j \in 1 .. length - 1} \cup {-arr1[length], arr2[length]}

boolArraysLexImplication(s, arr1, arr2, length) ==
    LET r == PrefixIffs(s, arr1, arr2, length - 1)
    IN AddClauses(r, {ImplicationClause(r, arr1, arr2, length)})

boolArraysLexLtImplication(s, arr1, arr2, length) ==
    AddClauses(NewIffs(s, arr1, arr2, length - 1),
               {{s.nextBoolID + j - 1} : j \in 1 .. length - 1} \cup {{-arr1[length]}, {arr2[length]}})

boolArraysLexLt(s, arr1, arr2) ==
    LET k == Len(arr1)
        eqReif(j) == s.nextBoolID + j - 1
        first == s.nextBoolID + k - 1       \* ts[0]
        bvars(i) == [j \in 1 .. i - 1 |-> eqReif(j)] \o <<-arr1[i], arr2[i]>>
        r == FoldLeft(LAMBDA q, i : boolArrayAndReif(q, bvars(i), first + i - 1),
                      NewBoolVars(NewIffs(s, arr1, arr2, k - 1), k), [i \in 1 .. k |-> i])
    IN AddClauses(r, {{first + i - 1 : i \in 1 .. k}})

(***************************************************************************)
(* Integers, as one variable for each value, and permutations.             *)
(***************************************************************************)
exactlyOne(s, bools) ==
    AddClauses(s, {{bools[i] : i \in 1 .. Len(bools)}} \cup
        UNION {{{-bools[i], -bools[j]} : j \in i + 1 .. Len(bools)} : i \in 1 .. Len(bools)})

\* newPermutation(n) starts with n calls of newIntVar(0, n-1); the variable for
\* perm(x) = c, which intEqReif returns, has this number.
intEqReif(base, n, x, c) == base + x * n + c

newPermutation(s, n) ==
    LET base == s.nextBoolID
        row(x) == [c \in 1 .. n |-> intEqReif(base, n, x, c - 1)]
        col(c) == [x \in 1 .. n |-> intEqReif(base, n, x - 1, c)]
        ints == FoldLeft(LAMBDA r, x : exactlyOne(NewBoolVars(r, n), row(x)), s,
                         [x \in 1 .. n |-> x - 1])
    IN FoldLeft(LAMBDA r, c : exactlyOne(r, col(c)), ints, [c \in 1 .. n |-> c - 1])

\* decodeIntArray: getIntAssignment is lb when no variable is true.
decodeIntArray(m, base, n) ==
    [x \in 0 .. n - 1 |->
        LET S == {c \in 0 .. n - 1 : intEqReif(base, n, x, c) \in m}
        IN IF S = {} THEN 0 ELSE CHOOSE c \in S : \A d \in S : c <= d]
=============================================================================
