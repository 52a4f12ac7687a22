--------------------------- MODULE ConstraintSolver ---------------------------
(***************************************************************************)
(* A ConstraintSolver in use: constraints are posted in any order on the   *)
(* variables of a model, solutions are counted, a new model is begun.      *)
(***************************************************************************)
EXTENDS SolverEncodings, FiniteSets

CONSTANTS
    NBools,         \* the variables the caller creates: 2 .. NBools + 1
    Arrays,         \* arrays of BoolVarRefs over them, all of one length
    MaxPosts,       \* the calls that post a constraint in one model
    Operations      \* the methods called

ASSUME StoreAssumption ==
    /\ NBools \in Nat /\ MaxPosts \in Nat
    /\ \A a \in Arrays : \A k \in DOMAIN a : a[k] # 0 /\ a[k] \in -NBools - 1 .. NBools + 1

VARIABLES
    solver,
    posted,         \* the calls of the current model
    pc,             \* "post", "count" in countSolutions, or "counted"
    count

vars == <<solver, posted, pc, count>>

User == 2 .. NBools + 1
WithUserVars(s) == NewBoolVars(s, NBools)

\* One of the orders on two arrays; length is 0 where the method has none.
ArrayCalls ==
    {[op |-> o, a |-> x, b |-> y, length |-> l] :
        o \in Operations \cap {"lex", "lexLt", "lexImplication", "lexLtImplication"},
        x \in Arrays, y \in Arrays, l \in 0 .. 3}
HasLength(c) == c.op \in {"lexImplication", "lexLtImplication"}
Sensible(c) == IF HasLength(c) THEN c.length \in DOMAIN c.a ELSE c.length = 0

\* A reification of two or three variables by the variable t.
ReifCalls ==
    {[op |-> o, a |-> x, t |-> v] : o \in Operations \cap {"and", "or", "and3", "one"},
                                    x \in Arrays, v \in User}

\* The clauses of a call.
PostArrays(s, c) ==
    CASE c.op = "lex" -> boolArraysLex(s, c.a, c.b)
      [] c.op = "lexLt" -> boolArraysLexLt(s, c.a, c.b)
      [] c.op = "lexImplication" -> boolArraysLexImplication(s, c.a, c.b, c.length)
      [] c.op = "lexLtImplication" -> boolArraysLexLtImplication(s, c.a, c.b, c.length)

PostReif(s, c) ==
    CASE c.op = "and" -> boolArrayAndReif(s, c.a, c.t)
      [] c.op = "or" -> boolArrayOrReif(s, c.a, c.t)
      [] c.op = "and3" -> AddClauses(s, And3Clauses(c.a[1], c.a[2], c.a[3], c.t))
      [] c.op = "one" -> exactlyOne(s, c.a)

\* isomorphic calls boolArrayOrReif for variables of which at most one is true.
Exclusive(c) ==
    \A m \in solver.models, i, j \in DOMAIN c.a :
        Holds(m, c.a[i]) /\ Holds(m, c.a[j]) => i = j

Post(c) ==
    /\ pc = "post" /\ Len(posted) < MaxPosts
    /\ posted' = Append(posted, c)
    /\ UNCHANGED <<pc, count>>
PostOrder(c) == Sensible(c) /\ Post(c) /\ solver' = PostArrays(solver, c)
PostReified(c) ==
    /\ c.op = "or" => Exclusive(c)
    /\ Post(c) /\ solver' = PostReif(solver, c)

(***************************************************************************)
(* countSolutions(projected) for all of the caller's variables.            *)
(***************************************************************************)
StartCount ==
    /\ pc = "post" /\ "count" \in Operations
    /\ pc' = "count" /\ count' = 0 /\ UNCHANGED <<solver, posted>>

\* Variant: the clause blocks the solution's true variables only.
BlockTrue(m) ==
    /\ pc = "count"
    /\ solver' = AddClauses(solver, {{-v : v \in User \cap m}})
    /\ count' = count + 1 /\ UNCHANGED <<posted, pc>>

\* solve() is l_True, with the model m, whose values are excluded.
Block(m) ==
    /\ pc = "count"
    /\ solver' = AddClauses(solver, {{IF v \in m THEN -v ELSE v : v \in User}})
    /\ count' = count + 1 /\ UNCHANGED <<posted, pc>>

\* solve() is l_False.
Counted ==
    /\ pc = "count" /\ solver.models = {}
    /\ pc' = "counted" /\ UNCHANGED <<solver, posted, count>>

NewModel ==
    /\ pc # "count"
    /\ solver' = WithUserVars(newModel(solver))
    /\ posted' = <<>> /\ pc' = "post" /\ count' = 0

Init ==
    /\ solver = WithUserVars(newModel([cache |-> <<>>]))
    /\ posted = <<>> /\ pc = "post" /\ count = 0

Orders == \E c \in ArrayCalls : PostOrder(c)
Reifs == \E c \in ReifCalls : PostReified(c)
Count == \E m \in solver.models : Block(m)

Next == Orders \/ Reifs \/ StartCount \/ Count \/ Counted \/ NewModel
Spec == Init /\ [][Next]_vars

-----------------------------------------------------------------------------
(***************************************************************************)
(* What the methods are for, of the caller's variables: m is the set of    *)
(* those that are true, with variable 1.                                   *)
(***************************************************************************)
Agree(m, c, k) == \A j \in 1 .. k : Holds(m, c.a[j]) <=> Holds(m, c.b[j])
LessAt(m, c, k) == Agree(m, c, k - 1) /\ ~ Holds(m, c.a[k]) /\ Holds(m, c.b[k])

Means(c, m) ==
    CASE c.op = "lexLt" -> \E k \in DOMAIN c.a : LessAt(m, c, k)
      [] c.op = "lex" -> Agree(m, c, Len(c.a)) \/ \E k \in DOMAIN c.a : LessAt(m, c, k)
      [] c.op = "lexImplication" ->
            Agree(m, c, c.length - 1) /\ Holds(m, c.a[c.length]) => Holds(m, c.b[c.length])
      [] c.op = "lexLtImplication" -> LessAt(m, c, c.length)
      [] c.op \in {"and", "and3"} -> c.t \in m <=> \A k \in DOMAIN c.a : Holds(m, c.a[k])
      [] c.op = "or" -> c.t \in m <=> \E k \in DOMAIN c.a : Holds(m, c.a[k])
      [] c.op = "one" -> Cardinality({k \in DOMAIN c.a : Holds(m, c.a[k])}) = 1

Solutions == {m \in {{1} \cup v : v \in SUBSET User} : \A k \in DOMAIN posted : Means(posted[k], m)}
Projected == {m \cap (1 .. NBools + 1) : m \in solver.models}

\* The clauses posted so far mean what the calls say, neither more nor less, in
\* whatever order they came and whatever reifications they share in the cache.
Exact == pc = "post" => Projected = Solutions

\* A solution of the caller's variables fixes the auxiliary ones, so that no
\* solution is met twice.
Determined == \A l, m \in solver.models : l \cap User = m \cap User => l = m

\* countSolutions returns the number of solutions.
CountExact == pc = "counted" => count = Cardinality(Solutions)
=============================================================================
