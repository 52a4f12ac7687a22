------------------------------ MODULE SearchMain ------------------------------
(***************************************************************************)
(* Main.main from the options to the call of solveAll: what is posted, in  *)
(* the order in which main posts it, an action for each option.  What is   *)
(* enumerated then is modelled by UHGSearch.                               *)
(***************************************************************************)
EXTENDS SearchOptions

CONSTANT CommandLines
\* The command lines to look at: main's local variables after parsing, with
\* main's own defaults for the options not given.

ASSUME CommandLinesAssumption ==
    CommandLines \subseteq [sb : BOOLEAN, dsIndex : Int, minDeg : Int, maxDeg : Int,
        chords : Int, shortest : Int, longest : Int, girth : Int, split : Int,
        splitLevel : 1 .. N - 2, deg : Int]

VARIABLES
    line,       \* the command line
    model,      \* gen, the search being built
    at          \* the option main looks at next, or "solve"

vars == <<line, model, at>>

\* -extremal: the largest number of edges, less those of the cycle.
extremal == (N * N) \div 4 + 1 - N

At(here, there, given, posted) ==
    /\ at = here /\ ~ model.crashed
    /\ at' = there
    /\ model' = IF given THEN posted ELSE model
    /\ UNCHANGED line

NoSB == At("sb", "ncDS", line.sb, symmetryBreaking(model))
\* An index that is none of the sequences' leaves nearlyCubicDS null.
NearlyCubic == At("ncDS", "minDeg", line.dsIndex \in 0 .. Len(nearlyCubicDS) - 1,
                  fixDegrees(model, nearlyCubicDS[line.dsIndex + 1]))
MinDeg == At("minDeg", "maxDeg", line.minDeg > 0, minDegree(model, line.minDeg))
MaxDeg == At("maxDeg", "chords", line.maxDeg > -1, maxDegree(model, line.maxDeg))
NumberOfChords == At("chords", "shortest", line.chords > -1, numberOfChords(model, line.chords))
Shortest == At("shortest", "longest", line.shortest > 1, shortestChord(model, line.shortest))
Longest == At("longest", "girth", line.longest > 1, longestChord(model, line.longest))
Girth == At("girth", "split", line.girth > -1, girthAtLeast(model, line.girth))
Split == At("split", "reg", line.split > -1, setCase(model, line.split, line.splitLevel))
Regular == At("reg", "solve", line.deg > -1, regular(model, line.deg))

Init == line \in CommandLines /\ model = newModel /\ at = "sb"
Next ==
    \/ NoSB \/ NearlyCubic \/ MinDeg \/ MaxDeg \/ NumberOfChords
    \/ Shortest \/ Longest \/ Girth \/ Split \/ Regular

Spec == Init /\ [][Next]_vars

-----------------------------------------------------------------------------
(***************************************************************************)
(* What the options say of a graph.                                        *)
(***************************************************************************)
deg(g, x) == Cardinality(Nbrs(g, x))
lengths(g) == {cycleDist(c[1], c[2]) : c \in {d \in Chords : ends(d) \in g}}

\* The vertices at distance at most 0, 1, .., N of x, and the distance of x and
\* y in g, or N if there is none.
Ball(g, x) == LET b[r \in 0 .. N] == IF r = 0 THEN {x}
                                     ELSE b[r - 1] \cup UNION {Nbrs(g, u) : u \in b[r - 1]}
              IN b
Distance(g, x, y) == LET ball == Ball(g, x) IN Min({r \in 0 .. N : y \in ball[r]} \cup {N})

\* A shortest cycle is an edge and a shortest way round it.
GirthOf(g) == Min({Distance(g \ {d}, Min(d), Max(d)) + 1 : d \in g})

Described(g) ==
    /\ line.dsIndex \in 0 .. Len(nearlyCubicDS) - 1 =>
          \A x \in V : deg(g, x) = nearlyCubicDS[line.dsIndex + 1][x]
    /\ line.minDeg > 0 => \A x \in V : deg(g, x) >= line.minDeg
    /\ line.maxDeg > -1 => \A x \in V : deg(g, x) <= line.maxDeg
    /\ line.chords > -1 => Cardinality(g) = N + line.chords
    /\ line.shortest > 1 => lengths(g) # {} /\ Min(lengths(g)) = line.shortest
    /\ line.longest > 1 => lengths(g) # {} /\ Max(lengths(g)) = line.longest
    /\ line.girth > -1 => GirthOf(g) >= line.girth
    /\ line.deg > -1 => \A x \in V : deg(g, x) = line.deg

Orbit(g) == {{Edge(p[Min(d)], p[Max(d)]) : d \in g} : p \in dihedralGroupPermutations}

\* The whole of the options: without a split, the graphs the search may find are
\* those the command line describes, and with symmetry breaking one of each of
\* their classes under rotation and reflection.  A degree sequence describes no
\* union of classes; all sequences together do.
OptionsMean ==
    at = "solve" /\ ~ model.crashed /\ line.split = -1 =>
        IF ~ line.sb THEN model.allowed = {g \in Graphs : Described(g)}
        ELSE /\ \A g \in model.allowed : Described(g)
             /\ line.dsIndex = -1 =>
                  \A g \in Graphs : Described(g) => Cardinality(Orbit(g) \cap model.allowed) = 1

\* The numbers with so many digits.
count(level) == LET c[l \in 0 .. level] == IF l = 0 THEN 1 ELSE base * c[l - 1] IN c
caseNumbers(level) == 0 .. count(level)[level] - 1

\* The cases of a split share the work: each graph that the other options leave
\* belongs to exactly one case number.
CasesPartition ==
    at = "split" =>
        \A g \in model.allowed :
            Cardinality({num \in caseNumbers(line.splitLevel) :
                            g \in setCase([model EXCEPT !.allowed = {g}], num,
                                          line.splitLevel).allowed}) = 1

\* -reg is described as "d-regular graph", with no condition on other options:
\* main gets as far as the search.
RegularIsPosted == line.deg > -1 => ~ model.crashed
=============================================================================
