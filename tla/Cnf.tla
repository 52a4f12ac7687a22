---------------------------------- MODULE Cnf ----------------------------------
(***************************************************************************)
(* Literals and the meaning of sets of clauses.  The literal mkLit(v, s)   *)
(* of SolverTypes.h is v, or -v when s is set; variables count from 1, so  *)
(* that 0 is free for lit_Undef and for CRef_Undef.  A clause is here the  *)
(* set of its literals, a formula a set of clauses.                        *)
(***************************************************************************)
EXTENDS Integers, FiniteSets

CONSTANT MaxVars    \* bound on the number of variables

ASSUME MaxVarsAssumption == MaxVars \in Nat

Undef == 0
Vars == 1 .. MaxVars
LitsOver(V) == {l \in -MaxVars .. MaxVars : l \in V \/ -l \in V}
var(l) == IF l < 0 THEN -l ELSE l
mkLit(v, sign) == IF sign THEN -v ELSE v

Assignments == [Vars -> BOOLEAN]
Holds(m, l) == IF l > 0 THEN m[l] ELSE ~ m[-l]
Satisfies(m, clause) == \E l \in clause : Holds(m, l)
Models(F) == {m \in Assignments : \A c \in F : Satisfies(m, c)}

\* The clause follows from the formula.
Implies(F, clause) == \A m \in Models(F) : Satisfies(m, clause)
=============================================================================
