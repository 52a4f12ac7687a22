------------------------------- MODULE UHGSearch -------------------------------
(***************************************************************************)
(* The enumeration UHGSearch.solveAll runs when no further constraint is   *)
(* posted: Choco's depth-first search over the edge variables, branching   *)
(* by SearchStrategyUHG, with PropOptimized called for each chord that     *)
(* becomes 1.  The library's part (worlds, refutation of a decision after  *)
(* a failure or a solution) is modelled as the code relies on it.          *)
(***************************************************************************)
EXTENDS PropOptimized, SearchStrategyUHG

VARIABLES
    trail,          \* a world per open decision: what held before it was taken
    solutions,      \* the graphs s.solve() has stopped at
    cnt             \* the number solveAll returns

uvars == <<vars, trail, solutions, cnt>>

Undefined == {c \in Chords : ends(c) \notin graph \cup removed}

(***************************************************************************)
(* A decision opens a world and sets the chord to 1, which is an event for *)
(* PropOptimized (getPropagationConditions is INCLOW).                     *)
(***************************************************************************)
Idle == pc = "idle" /\ pending = {}

\* Variant: the edge is set to 1 without an event for the propagator.
DecideSilently ==
    /\ Idle /\ Undefined # {}
    /\ LET c == getDecision(graph, Undefined) IN
       /\ trail' = Append(trail, [graph |-> graph, removed |-> removed, chord |-> c])
       /\ graph' = graph \cup {ends(c)}
    /\ UNCHANGED <<removed, pending, pc, search, solutions, cnt>>

Decide ==
    /\ Idle /\ Undefined # {}
    /\ \E c \in Undefined :
       /\ c = getDecision(graph, Undefined)
       /\ trail' = Append(trail, [graph |-> graph, removed |-> removed, chord |-> c])
       /\ graph' = graph \cup {ends(c)}
       /\ pending' = {c}
    /\ UNCHANGED <<removed, pc, search, solutions, cnt>>

\* No variable is left: s.solve() returns true.
Solved ==
    /\ Idle /\ Undefined = {}
    /\ pc' = "solved"
    /\ solutions' = solutions \cup {graph}
    /\ cnt' = cnt + 1
    /\ UNCHANGED <<graph, removed, pending, search, trail>>

\* The last world is left, with these edges at 1 and at 0.
Restore(ones, zeros) ==
    /\ graph' = ones
    /\ removed' = zeros
    /\ trail' = SubSeq(trail, 1, Len(trail) - 1)
    /\ pc' = "idle"

\* Variants: currentFixedGraph is not restored; the decision is not refuted.
RefuteKeepsGraph ==
    /\ pc \in {"failed", "solved"}
    /\ pending' = {}
    /\ IF trail = <<>>
       THEN pc' = "done" /\ UNCHANGED <<graph, removed, trail>>
       ELSE Restore(graph, trail[Len(trail)].removed \cup {ends(trail[Len(trail)].chord)})
    /\ UNCHANGED <<search, solutions, cnt>>
RefuteNothing ==
    /\ pc \in {"failed", "solved"}
    /\ pending' = {}
    /\ IF trail = <<>>
       THEN pc' = "done" /\ UNCHANGED <<graph, removed, trail>>
       ELSE Restore(trail[Len(trail)].graph, trail[Len(trail)].removed)
    /\ UNCHANGED <<search, solutions, cnt>>

\* Back to the last open decision, which is refuted; without one the search
\* is complete and s.solve() returns false.
Refute ==
    /\ pc \in {"failed", "solved"}
    /\ pending' = {}
    /\ IF trail = <<>>
       THEN pc' = "done" /\ UNCHANGED <<graph, removed, trail>>
       ELSE LET w == trail[Len(trail)] IN
            Restore(w.graph, w.removed \cup {ends(w.chord)})
    /\ UNCHANGED <<search, solutions, cnt>>

Propagation == (NextCall \/ Walk) /\ UNCHANGED <<trail, solutions, cnt>>

UInit ==
    /\ graph = Cycle /\ removed = {} /\ pending = {} /\ pc = "idle"
    /\ InitArrays
    /\ trail = <<>> /\ solutions = {} /\ cnt = 0

UNext == Propagation \/ Decide \/ Solved \/ Refute

USpec == UInit /\ [][UNext]_uvars
UFairSpec == USpec /\ WF_uvars(UNext)

-----------------------------------------------------------------------------
\* What the search is for: the graphs with the fixed cycle and no other.
UHGs == {g \in SUBSET AllEdges : UniquelyHamiltonian(g)}

\* The worlds are nested: each is the one below it and that one's decision, with
\* at least its zeros; and no edge is both 1 and 0.
WorldsNested ==
    LET Node(k) == IF k > Len(trail) THEN [graph |-> graph, removed |-> removed]
                                     ELSE trail[k]
    IN pc # "done" =>
        /\ graph \cap removed = {}
        /\ \A k \in 1 .. Len(trail) :
              /\ ends(trail[k].chord) \notin trail[k].graph \cup trail[k].removed
              /\ Node(k + 1).graph = trail[k].graph \cup {ends(trail[k].chord)}
              /\ trail[k].removed \subseteq Node(k + 1).removed

\* solveAll reports the graphs sought, each once, counts them, and returns only
\* when all have been reported: it implements the enumeration of a set.
E == INSTANCE SetEnumeration WITH
        sought <- UHGs, found <- solutions, count <- cnt, finished <- (pc = "done")
Enumerates == E!Spec

\* solveAll returns.
SearchEnds == <>(pc = "done")
=============================================================================
