----------------------- MODULE MCEncodedLexImplications -----------------------
(***************************************************************************)
(* The behaviours of EncodedLexImplications in which the solver and the    *)
(* reducer are deterministic: of the models, one is taken whose            *)
(* permutation comes first from one of Starts.                             *)
(***************************************************************************)
EXTENDS EncodedLexImplications, FiniteSetsExt, Folds

CONSTANT Starts

VARIABLE start
ovars == <<evars, start>>

Number(p) == FoldFunction(+, 0, [x \in DOMAIN p |-> p[x] * 6 ^ x])
Place(m) == (Number(decodeIntArray(m, Perm(n), n)) - start) % (6 ^ n)

OFind ==
    /\ solver.models # {}
    /\ LET least == Min({Place(m) : m \in solver.models})
       IN SolverFinds(CHOOSE m \in solver.models : Place(m) = least)
ODrop ==
    /\ pc = "reduce"
    /\ LET R == {k \in kept : CnfRedundant(k)}
       IN R # {} /\ CnfDrops(CHOOSE k \in R : \A j \in R : k <= j)
OWrite == pc = "reduce" /\ (\A k \in kept : ~ CnfRedundant(k)) /\ CnfWrites

OInit == EInit /\ start \in Starts
ONext == (OFind \/ SolverExhausted \/ ODrop \/ OWrite \/ ENextOrder) /\ UNCHANGED start
OrderedSpec == OInit /\ [][ONext]_ovars
=============================================================================
