--------------------------- MODULE LexImplications ---------------------------
(***************************************************************************)
(* CanonizingLexImplicationsAlg under the three drivers of Main: for each  *)
(* order n from MinOrder to MaxOrder a set of lex implications is extended *)
(* until it allows only the lex leaders of the classes of graphs.          *)
(*   runDirect(n):            MinOrder = MaxOrder = n, K = 0               *)
(*   runIncremental(n):       MinOrder = 3, MaxOrder = n, K = 0            *)
(*   runIncrementalSubgraph:  MinOrder = K + 1, the subgraph Sub           *)
(* compute() is extend() of the empty set.  For each length the solver is  *)
(* asked for a graph, allowed so far, and a permutation that makes it      *)
(* smaller, first in bit number length; the permutation becomes an         *)
(* implication.  ./glucoseReducer, an external program, thins the list.    *)
(***************************************************************************)
EXTENDS GraphStrings, Sequences, Functions

CONSTANTS
    MinOrder,
    K, Sub,             \* the embedded subgraph; K = 0 when there is none
    ReducerMayFail      \* system() may fail, e.g. for want of ./glucoseReducer

ASSUME DriverAssumption ==
    /\ MinOrder \in 3 .. MaxOrder
    /\ K \in 0 .. MinOrder - 1 /\ Sub \in Graphs(K)
    /\ ReducerMayFail \in BOOLEAN

VARIABLES
    n,              \* m_nvertices
    canset,         \* Main's canset, given to extend as impSet: a set here
    delta,          \* the implications this call of extend has found
    length,         \* i
    pc,             \* "solve", "reduce", "return", "done", or "crashed"
    kept,           \* in "reduce": the indices the reducer still keeps
    outFile         \* reduced_<pid>.indices; each line is an index

vars == <<n, canset, delta, length, pc, kept, outFile>>

Implication == {[perm |-> p, length |-> l] :
                    p \in UNION {Perms[m] : m \in MinOrder .. MaxOrder},
                    l \in 1 .. MaxOrder * MaxOrder}

\* Variant: one length less.
maxLenShort(m) == (m * (m - 1)) \div 2 - 2
maxLen(m) == (m * (m - 1)) \div 2 - 1

(***************************************************************************)
(* The model: newModel and the constraints posted since.  Every length     *)
(* posts the given implications and those found before it again.           *)
(***************************************************************************)
Listed(indices) == {delta[k] : k \in indices}
Posted == canset \cup Listed(DOMAIN delta)

\* "embed subgraph": g1's first K rows and columns are fixed.
Embeddings(m) == {Sub \cup h : h \in SUBSET (Edges(m) \ Edges(K))}

\* The graphs that a set of implications allows.
Allowed(m, imps) == {g \in Embeddings(m) : \A imp \in imps : Satisfies(m, g, imp)}

Counterexample(g, p) == LtImplication(n, g, p, length)

\* Variant: the inverse permutation is listed.
FoundInverse(p) ==
    /\ pc = "solve"
    /\ \E g \in Allowed(n, Posted) : Counterexample(g, p)
    /\ delta' = Append(delta, [perm |-> [x \in Verts(n) |-> CHOOSE y \in Verts(n) : p[y] = x],
                               length |-> length])
    /\ UNCHANGED <<n, canset, length, pc, kept, outFile>>

\* solve() is l_True and perm decodes to p, whose implication is posted.
Found(p) ==
    /\ pc = "solve"
    /\ \E g \in Allowed(n, Posted) : Counterexample(g, p)
    /\ delta' = Append(delta, [perm |-> p, length |-> length])
    /\ UNCHANGED <<n, canset, length, pc, kept, outFile>>

\* Variants: the list is not reduced after the last length; i stays.
ExhaustedReducesByFive ==
    /\ pc = "solve"
    /\ LET A == Allowed(n, Posted) IN \A p \in Perms[n], g \in A : ~ Counterexample(g, p)
    /\ IF length % 5 = 0
       THEN pc' = "reduce" /\ kept' = DOMAIN delta /\ UNCHANGED length
       ELSE length' = length + 1 /\ UNCHANGED <<pc, kept>>
    /\ UNCHANGED <<n, canset, delta, outFile>>
ExhaustedSameLength ==
    /\ pc = "solve"
    /\ LET A == Allowed(n, Posted) IN \A p \in Perms[n], g \in A : ~ Counterexample(g, p)
    /\ IF length % 5 = 0 \/ length = maxLen(n)
       THEN pc' = "reduce" /\ kept' = DOMAIN delta
       ELSE UNCHANGED <<pc, kept>>
    /\ UNCHANGED <<n, canset, delta, length, outFile>>

\* solve() is l_False.
Exhausted ==
    /\ pc = "solve"
    /\ LET A == Allowed(n, Posted) IN \A p \in Perms[n], g \in A : ~ Counterexample(g, p)
    /\ IF length % 5 = 0 \/ length = maxLen(n)
       THEN pc' = "reduce" /\ kept' = DOMAIN delta /\ UNCHANGED length
       ELSE length' = length + 1 /\ UNCHANGED <<pc, kept>>
    /\ UNCHANGED <<n, canset, delta, outFile>>

(***************************************************************************)
(* The reducer drops implications that the given ones and the others kept  *)
(* imply, for graphs with the subgraph, and writes the indices it keeps.   *)
(***************************************************************************)
Redundant(k) ==
    \A g \in Allowed(n, canset \cup Listed(kept \ {k})) : Satisfies(n, g, delta[k])

ReducerDrops(k) ==
    /\ pc = "reduce" /\ k \in kept /\ Redundant(k)
    /\ kept' = kept \ {k}
    /\ UNCHANGED <<n, canset, delta, length, pc, outFile>>

\* runReducer reads the indices from the file, whoever wrote it, and extend
\* goes on with the implications they select.
Read(file) ==
    /\ kept' = {}
    /\ IF Range(file) \subseteq DOMAIN delta
       THEN /\ delta' = [k \in DOMAIN file |-> delta[file[k]]]
            /\ IF length < maxLen(n)
               THEN length' = length + 1 /\ pc' = "solve"
               ELSE pc' = "return" /\ UNCHANGED length
       ELSE pc' = "crashed" /\ UNCHANGED <<delta, length>>
    /\ UNCHANGED <<n, canset>>

\* A set of indices in ascending order.
Ascending(S) ==
    [j \in 1 .. Cardinality(S) |-> CHOOSE k \in S : Cardinality({l \in S : l < k}) = j - 1]

\* Variant: the file is read before the reducer writes it.
ReducerWritesLate ==
    /\ pc = "reduce"
    /\ outFile' = Ascending(kept)
    /\ Read(outFile)

ReducerWrites ==
    /\ pc = "reduce"
    /\ outFile' = Ascending(kept)
    /\ Read(outFile')

\* The status of system() is not looked at.
ReducerFails ==
    /\ pc = "reduce" /\ ReducerMayFail
    /\ Read(outFile) /\ UNCHANGED outFile

\* extend returns delta, which the driver appends to canset.
NextOrder ==
    /\ pc = "return"
    /\ canset' = Posted
    /\ IF n < MaxOrder
       THEN n' = n + 1 /\ delta' = <<>> /\ length' = 1 /\ pc' = "solve"
       ELSE pc' = "done" /\ UNCHANGED <<n, delta, length>>
    /\ UNCHANGED <<kept, outFile>>

Init ==
    /\ n = MinOrder /\ canset = {} /\ delta = <<>> /\ length = 1
    /\ pc = "solve" /\ kept = {} /\ outFile = <<>>

Find == \E p \in Perms[n] : Found(p)
Drop == \E k \in kept : ReducerDrops(k)
Next == Find \/ Exhausted \/ Drop \/ ReducerWrites \/ ReducerFails \/ NextOrder

Spec == Init /\ [][Next]_vars
FairSpec == Spec /\ WF_vars(Next)

-----------------------------------------------------------------------------
TypeOK ==
    /\ n \in MinOrder .. MaxOrder
    /\ canset \subseteq Implication
    /\ delta \in Seq(Implication)
    /\ length \in 1 .. maxLen(n)
    /\ pc \in {"solve", "reduce", "return", "done", "crashed"}
    /\ kept \subseteq DOMAIN delta
    /\ outFile \in Seq(Nat)

\* The constraints lose no class of graphs: its lex leader satisfies the
\* implications of every order and length, also those of smaller orders.
LeadersKept ==
    \A imp \in Posted, g \in LexLeaders[n] : Satisfies(n, g, imp)

\* No allowed graph has a smaller permutation that differs first in one of the
\* bits the loop has been through, whatever the reducer has dropped.
LengthsClosed ==
    LET A == Allowed(n, Posted) IN
    \A d \in Edges(n), g \in A, p \in Perms[n] :
        LtImplication(n, g, p, position[n][d])
            => \/ position[n][d] > length
               \/ position[n][d] = length /\ pc = "solve"

\* What extend returns is canonizing, the last bit included.
Canonizing ==
    pc \in {"return", "done"} => Allowed(n, Posted) \subseteq LexLeaders[n]

\* One graph of each isomorphism class is left, when no subgraph is embedded.
OnePerClass ==
    pc \in {"return", "done"} /\ K = 0 =>
        LET A == Allowed(n, Posted) IN
        \A g \in Graphs(n) : Cardinality({h \in A : Isomorphic(n, g, h)}) = 1

\* Every answer of the solver excludes a graph that was still allowed: the loop
\* never lists what it has already.
Progress == [][pc = "solve" /\ delta' # delta /\ n' = n =>
                    Allowed(n, Posted') # Allowed(n, Posted)]_vars

\* The computation ends.
Ends == <>(pc = "done")
=============================================================================
