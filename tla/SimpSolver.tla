------------------------------ MODULE SimpSolver ------------------------------
(***************************************************************************)
(* The solver with preprocessing: variables are eliminated by resolution   *)
(* and clauses removed or strengthened by others that subsume them; a      *)
(* model of what is left is extended to the variables that are gone.       *)
(*                                                                         *)
(* Of the options, asymmetric branching and the check for implied clauses  *)
(* (both off by default) and substitute (never called) are left out.  The  *)
(* clause bwdsub_tmpunit is the CRef 0, its literal el.unit.               *)
(***************************************************************************)
EXTENDS Solver, Heap

CONSTANTS
    Grow,               \* how many clauses an elimination may add
    ClauseLim,          \* resolvents are no longer, or -1
    SubsumptionLim      \* clauses of this length are not looked at, or -1

ASSUME LimitsAssumption == {Grow, ClauseLim, SubsumptionLim} \subseteq Nat \cup {-1} /\ Grow >= 0

VARIABLES
    use_simplification,
    elimclauses,        \* the clauses of eliminated variables, with that variable first
    touched, occurs, occs_dirty, n_occ,
    elim_heap, subsumption_queue, bwdsub_assigns,
    frozen, eliminated,
    el                  \* the locals of solve_, eliminate, eliminateVar and
                        \* backwardSubsumptionCheck

occurrences == <<occurs, occs_dirty, n_occ, elim_heap>>
modes == <<use_simplification, elimclauses, frozen, eliminated>>
elimination == <<occurrences, modes, touched, subsumption_queue, bwdsub_assigns, el>>
ssvars == <<svars, elimination>>

NoElim == [turn_off |-> FALSE, solving |-> FALSE, extra_frozen |-> <<>>, back |-> "checked",
           cr |-> 0, unit |-> Undef, best |-> 1, j |-> 1, v |-> 1, pairs |-> <<>>,
           rest |-> <<>>, clause |-> 0, then |-> "idle", lit |-> Undef]

-----------------------------------------------------------------------------
(***************************************************************************)
(* Occurrences and the heap of the variables to eliminate.                 *)
(***************************************************************************)
Cost(n) == [v \in Vars |-> n[v] * n[-v]]
Undecided == {v \in Vars : ~ eliminated[v] /\ isUndef(v)}
Free == {v \in Undecided : ~ frozen[v]}

\* updateElimHeap
Updated(heap, v, n, free) ==
    IF inHeap(heap, v) \/ v \in free THEN update(heap, v, Cost(n)) ELSE heap

InUse(cr) == ca[cr].mark # 1
Looked(v) == IF v \in occs_dirty THEN SelectSeq(occurs[v], InUse) ELSE occurs[v]
lookup(v) == occurs' = [occurs EXCEPT ![v] = Looked(v)] /\ occs_dirty' = occs_dirty \ {v}

\* What addClause_ and removeClause do for the occurrences of a clause takes one
\* step for each literal; then they go on at another place.
LiteralsOf(ls, cr, then, locals) ==
    el' = [locals EXCEPT !.rest = ls, !.clause = cr, !.then = then]

\* The clause that addClause_ has added, if any.
Noted(then, locals) ==
    IF ~ use_simplification \/ clauses' = clauses
    THEN LiteralsOf(<<>>, 0, then, locals) /\ UNCHANGED subsumption_queue
    ELSE \E cr \in clauses' \ clauses :
            /\ LiteralsOf(ca'[cr].lits, cr, then, locals)
            /\ subsumption_queue' = Append(subsumption_queue, cr)

-----------------------------------------------------------------------------
(***************************************************************************)
(* The user's calls.  Variables that are eliminated are not used again, as *)
(* assertions demand.                                                      *)
(***************************************************************************)
NoneEliminated(ls) == \A l \in ToSet(ls) : ~ eliminated[var(l)]

NewVar ==
    /\ newVar
    /\ elim_heap' = IF use_simplification THEN insert(elim_heap, nVars + 1, Cost(n_occ)) ELSE elim_heap
    /\ UNCHANGED <<modes, occurs, occs_dirty, n_occ, touched, subsumption_queue, bwdsub_assigns, el>>

AddClause ==
    /\ addClauseThen("note")
    /\ NoneEliminated(call.lits)
    /\ Noted("idle", NoElim)
    /\ UNCHANGED <<modes, occurrences, touched, bwdsub_assigns>>

setFrozen ==
    /\ pc = "idle" /\ Called("freeze")
    /\ frozen' = [frozen EXCEPT ![call.v] = call.b]
    /\ elim_heap' = IF use_simplification /\ ~ call.b THEN Updated(elim_heap, call.v, n_occ, Undecided)
                    ELSE elim_heap
    /\ UNCHANGED <<database, assignment, restarts, schedule, result, formula, nVars, ok, decision,
                   remove_satisfied, asynch_interrupt, simpDB_assigns, pc, caller, after,
                   visiting, confl, an>>
    /\ UNCHANGED <<use_simplification, elimclauses, eliminated, occurs, occs_dirty, n_occ, touched,
                   subsumption_queue, bwdsub_assigns, el>>

\* eliminate begins with simplify.
BeginEliminate ==
    /\ IF ok THEN pc' = "propagate" /\ caller' = "simplify" ELSE pc' = "eliminate" /\ UNCHANGED caller
    /\ after' = "eliminate"

callEliminate ==
    /\ pc = "idle" /\ Called("eliminate")
    /\ el' = [NoElim EXCEPT !.turn_off = call.turn_off]
    /\ BeginEliminate
    /\ UNCHANGED <<database, assignment, restarts, schedule, result, formula, nVars, ok, decision,
                   remove_satisfied, asynch_interrupt, simpDB_assigns, visiting, confl, an>>
    /\ UNCHANGED <<occurrences, modes, touched, subsumption_queue, bwdsub_assigns>>

\* The variables of the assumptions are frozen while variables are eliminated.
ExtraFrozen(ls) ==
    FoldLeft(LAMBDA vs, l : IF frozen[var(l)] \/ var(l) \in ToSet(vs) THEN vs ELSE Append(vs, var(l)),
             <<>>, ls)

Solve ==
    /\ pc = "idle" /\ Called("solve")
    /\ NoneEliminated(call.assumps)
    /\ assumptions' = call.assumps /\ answer' = "pending"
    /\ \/ /\ call.do_simp /\ use_simplification
          /\ LET extra == ExtraFrozen(call.assumps) IN
             /\ frozen' = [v \in Vars |-> frozen[v] \/ v \in ToSet(extra)]
             /\ el' = [NoElim EXCEPT !.solving = TRUE, !.turn_off = call.turn_off, !.extra_frozen = extra]
          /\ BeginEliminate
          /\ UNCHANGED <<model, conflict, status>>
       \/ /\ ~ (call.do_simp /\ use_simplification)
          /\ solve_
          /\ UNCHANGED <<after, frozen, el>>
    /\ UNCHANGED <<database, assignment, restarts, schedule, formula, nVars, ok, decision,
                   remove_satisfied, asynch_interrupt, simpDB_assigns, visiting, confl, an>>
    /\ UNCHANGED <<use_simplification, elimclauses, eliminated, occurrences, touched,
                   subsumption_queue, bwdsub_assigns>>

-----------------------------------------------------------------------------
(***************************************************************************)
(* eliminate: rounds of subsumption and elimination.                       *)
(***************************************************************************)
UnchangedByElimination ==
    UNCHANGED <<learnts, trail_lim, qhead, polarity, restarts, schedule, assumptions, answer, script,
                formula, nVars, asynch_interrupt, simpDB_assigns, visiting, confl, an>>
Searching == <<order_heap, decision, remove_satisfied, model, conflict, status, caller, after>>
Clauses == <<ca, clauses, watches, watchesBin, dirty, trail>>

\* The next literal of a clause that has been added.
Note ==
    /\ pc = "note" /\ el.rest # <<>>
    /\ LET l == Head(el.rest)
           n == [n_occ EXCEPT ![l] = @ + 1]
       IN /\ occurs' = [occurs EXCEPT ![var(l)] = Append(@, el.clause)]
          /\ n_occ' = n
          /\ touched' = touched \cup {var(l)}
          /\ elim_heap' = IF inHeap(elim_heap, var(l)) THEN increase(elim_heap, var(l), Cost(n))
                          ELSE elim_heap
    /\ el' = [el EXCEPT !.rest = Tail(@)]
    /\ UNCHANGED <<Searching, Clauses, ok, modes, occs_dirty, subsumption_queue, bwdsub_assigns, pc>>
    /\ UnchangedByElimination

NotedAll ==
    /\ pc = "note" /\ el.rest = <<>>
    /\ pc' = el.then
    /\ UNCHANGED <<Searching, Clauses, ok, elimination>> /\ UnchangedByElimination

\* removeClause: the occurrences first, then what Solver does.
Remove_(cr, then, locals) ==
    LiteralsOf(lits(cr), cr, then, locals) /\ pc' = "remove"

\* Variant: the heap is not told.
HeapWithout(v, n) == elim_heap
HeapWith(v, n) == Updated(elim_heap, v, n, Free)

Forget ==
    /\ pc = "remove" /\ el.rest # <<>>
    /\ LET l == Head(el.rest)
           n == [n_occ EXCEPT ![l] = @ - 1]
       IN /\ n_occ' = n
          /\ elim_heap' = HeapWith(var(l), n)
          /\ occs_dirty' = occs_dirty \cup {var(l)}
    /\ el' = [el EXCEPT !.rest = Tail(@)]
    /\ UNCHANGED <<Searching, Clauses, ok, modes, occurs, touched, subsumption_queue, bwdsub_assigns, pc>>
    /\ UnchangedByElimination

RemoveClause ==
    /\ pc = "remove" /\ el.rest = <<>>
    /\ removeClauses({el.clause})
    /\ pc' = el.then
    /\ UNCHANGED <<Searching, clauses, watches, watchesBin, ok, elimination>> /\ UnchangedByElimination

\* simplify has returned.
Eliminate ==
    /\ pc = "eliminate"
    /\ pc' = IF ok /\ use_simplification THEN "round" ELSE "eliminated"
    /\ UNCHANGED <<Searching, Clauses, ok, elimination>> /\ UnchangedByElimination

NothingLeft == touched = {} /\ bwdsub_assigns = Len(trail) /\ elim_heap = <<>>

\* gatherTouchedClauses: the clauses of the variables that are touched, in the
\* order of the variables, each once and not if it is in the queue already.
\* Variant: the variables remain touched.
GatheredForever == touched
Gathered == {}
TouchedClauses ==
    LET all == FlattenSeq([v \in 1 .. nVars |-> IF v \in touched THEN Looked(v) ELSE <<>>])
        New(i) == /\ ca[all[i]].mark = 0 /\ all[i] \notin ToSet(subsumption_queue)
                  /\ \A k \in 1 .. i - 1 : all[k] # all[i]
        new == SelectSeq([i \in DOMAIN all |-> i], New)
    IN subsumption_queue \o [k \in DOMAIN new |-> all[new[k]]]

Round ==
    /\ pc = "round"
    /\ \/ /\ NothingLeft
          /\ pc' = "cleanup"
          /\ UNCHANGED <<touched, occurs, occs_dirty, subsumption_queue, el>>
       \/ /\ ~ NothingLeft
          /\ subsumption_queue' = TouchedClauses
          /\ touched' = Gathered
          /\ occurs' = [v \in Vars |-> IF v \in touched THEN Looked(v) ELSE occurs[v]]
          /\ occs_dirty' = occs_dirty \ touched
          /\ el' = [el EXCEPT !.back = "checked"]
          /\ pc' = "subsume"
    /\ UNCHANGED <<Searching, Clauses, ok, modes, n_occ, elim_heap, bwdsub_assigns>>
    /\ UnchangedByElimination

-----------------------------------------------------------------------------
(***************************************************************************)
(* backwardSubsumptionCheck.                                               *)
(***************************************************************************)
Subsumer == IF el.cr = 0 THEN <<el.unit>> ELSE lits(el.cr)

\* Done, or interrupted: then what is queued is dropped.
SubsumptionEnds ==
    /\ pc = "subsume"
    /\ asynch_interrupt \/ (subsumption_queue = <<>> /\ bwdsub_assigns = Len(trail))
    /\ subsumption_queue' = <<>> /\ bwdsub_assigns' = Len(trail)
    /\ pc' = el.back
    /\ UNCHANGED <<Searching, Clauses, ok, modes, occurrences, touched, el>> /\ UnchangedByElimination

\* The variable of a clause in which the fewest clauses are listed.
Best(ps) == LET Fewest(i) == \A k \in DOMAIN ps :
                                \/ Len(occurs[var(ps[i])]) < Len(occurs[var(ps[k])])
                                \/ Len(occurs[var(ps[i])]) = Len(occurs[var(ps[k])]) /\ i <= k
            IN var(ps[CHOOSE i \in DOMAIN ps : Fewest(i)])

\* The next clause of the queue or, when it is empty, the next literal of the trail.
NextSubsumer ==
    /\ pc = "subsume" /\ ~ asynch_interrupt
    /\ \/ /\ subsumption_queue = <<>> /\ bwdsub_assigns < Len(trail)
          /\ bwdsub_assigns' = bwdsub_assigns + 1
          /\ LET l == trail[bwdsub_assigns + 1].lit IN
             /\ el' = [el EXCEPT !.cr = 0, !.unit = l, !.best = var(l), !.j = 1]
             /\ lookup(var(l))
          /\ pc' = "candidates"
          /\ UNCHANGED subsumption_queue
       \/ /\ subsumption_queue # <<>>
          /\ subsumption_queue' = Tail(subsumption_queue)
          /\ LET cr == Head(subsumption_queue)
                 best == Best(lits(cr))
             IN IF ca[cr].mark # 0 THEN UNCHANGED <<el, occurs, occs_dirty, pc>>
                ELSE /\ el' = [el EXCEPT !.cr = cr, !.best = best, !.j = 1]
                     /\ lookup(best)
                     /\ pc' = "candidates"
          /\ UNCHANGED bwdsub_assigns
    /\ UNCHANGED <<Searching, Clauses, ok, modes, n_occ, elim_heap, touched>> /\ UnchangedByElimination

\* Clause::subsumes: the literals of c that occur negated in d are none, or one
\* that can be resolved away, and all others occur in d.
Negated(c, d) == {l \in ToSet(c) : -l \in ToSet(d)}
Subsumes(c, d) ==
    /\ Len(c) <= Len(d)
    /\ Cardinality(Negated(c, d)) <= 1
    /\ \A l \in ToSet(c) : l \in ToSet(d) \/ -l \in ToSet(d)

Fits(k) ==
    LET d == occurs[el.best][k] IN
    /\ ca[d].mark = 0 /\ d # el.cr
    /\ SubsumptionLim = -1 \/ Len(lits(d)) < SubsumptionLim
    /\ Subsumes(Subsumer, lits(d))
Candidate(k) == /\ k \in el.j .. Len(occurs[el.best]) /\ Fits(k)
                /\ \A i \in el.j .. k - 1 : ~ Fits(i)

NoCandidate ==
    /\ pc = "candidates"
    /\ \A k \in el.j .. Len(occurs[el.best]) : ~ Fits(k)
    /\ pc' = "subsume"
    /\ UNCHANGED <<Searching, Clauses, ok, elimination>> /\ UnchangedByElimination

RemoveSubsumed ==
    /\ pc = "candidates"
    /\ \E k \in DOMAIN occurs[el.best] :
          LET d == occurs[el.best][k] IN
          /\ Candidate(k) /\ Negated(Subsumer, lits(d)) = {}
          /\ Remove_(d, "candidates", [el EXCEPT !.j = k + 1])
    /\ UNCHANGED <<Searching, Clauses, ok, modes, occurrences, touched, subsumption_queue, bwdsub_assigns>>
    /\ UnchangedByElimination

\* Where the scan goes on: at the same place if the clause has left the list.
AfterStrengthened(k, l) == IF var(l) = el.best THEN k ELSE k + 1
Detached(cr, l) == SelectSeq(watches[l], LAMBDA w : w.cref # cr)

\* strengthenClause for a clause of two literals removes it,
StrengthenBinary ==
    /\ pc = "candidates"
    /\ \E k \in DOMAIN occurs[el.best] :
          LET d == occurs[el.best][k] IN
          /\ Candidate(k) /\ Len(lits(d)) = 2
          /\ \E l \in Negated(Subsumer, lits(d)) :
                Remove_(d, "enqueue", [el EXCEPT !.lit = -l, !.j = AfterStrengthened(k, l)])
          /\ subsumption_queue' = Append(subsumption_queue, d)
    /\ UNCHANGED <<Searching, Clauses, ok, modes, occurrences, touched, bwdsub_assigns>>
    /\ UnchangedByElimination

\* and enqueues and propagates the other literal.
EnqueueOther ==
    /\ pc = "enqueue"
    /\ LET left == SelectSeq(lits(el.clause), LAMBDA q : q # el.lit)
           u == left[1]
       IN /\ ca' = [ca EXCEPT ![el.clause].lits = left]
          /\ IF isUndef(u) THEN uncheckedEnqueue(u, CRef_Undef) ELSE UNCHANGED trail
          /\ ok' = ~ isFalse(u)
          /\ IF isFalse(u) THEN pc' = "cleanup" /\ UNCHANGED caller
             ELSE pc' = "propagate" /\ caller' = "strengthened"
    /\ UNCHANGED <<order_heap, decision, remove_satisfied, model, conflict, status, after, clauses,
                   watches, watchesBin, dirty, elimination>>
    /\ UnchangedByElimination

Strengthened ==
    /\ pc = "strengthened"
    /\ ok' = (confl = CRef_Undef)
    /\ pc' = IF ok' THEN "candidates" ELSE "cleanup"
    /\ UNCHANGED <<Searching, Clauses, elimination>> /\ UnchangedByElimination

\* strengthenClause for a longer clause.
StrengthenLong ==
    /\ pc = "candidates"
    /\ \E k \in DOMAIN occurs[el.best] :
          LET d == occurs[el.best][k]
              ps == lits(d)
          IN
          /\ Candidate(k) /\ Len(ps) > 2
          /\ \E l \in Negated(Subsumer, ps) :
                LET left == SelectSeq(ps, LAMBDA q : q # -l)
                    without == [watches EXCEPT ![-ps[1]] = Detached(d, -ps[1]),
                                               ![-ps[2]] = Detached(d, -ps[2])]
                    n == [n_occ EXCEPT ![-l] = @ - 1]
                IN
                /\ ca' = [ca EXCEPT ![d].lits = left]
                /\ IF Len(left) = 2
                   THEN watches' = without /\ watchesBin' = Attached(watchesBin, d, left)
                   ELSE watches' = Attached(without, d, left) /\ UNCHANGED watchesBin
                /\ occurs' = [occurs EXCEPT ![var(l)] = SelectSeq(@, LAMBDA cr : cr # d)]
                /\ n_occ' = n /\ elim_heap' = HeapWith(var(l), n)
                /\ el' = [el EXCEPT !.j = AfterStrengthened(k, l)]
                /\ subsumption_queue' = Append(subsumption_queue, d)
    /\ UNCHANGED <<Searching, clauses, dirty, trail, ok, modes, occs_dirty, touched, bwdsub_assigns, pc>>
    /\ UnchangedByElimination

\* Back in eliminate: an interrupt empties the heap.
Checked ==
    /\ pc = "checked"
    /\ IF asynch_interrupt THEN elim_heap' = <<>> /\ pc' = "cleanup"
                           ELSE pc' = "elimvars" /\ UNCHANGED elim_heap
    /\ UNCHANGED <<Searching, Clauses, ok, modes, occurs, occs_dirty, n_occ, touched,
                   subsumption_queue, bwdsub_assigns, el>>
    /\ UnchangedByElimination

-----------------------------------------------------------------------------
(***************************************************************************)
(* eliminateVar.                                                           *)
(***************************************************************************)
\* merge: the resolvent on v (addClause_ sorts it), unless it is a tautology.
Tautology(ps, qs, v) == \E q \in ToSet(qs) : var(q) # v /\ -q \in ToSet(ps)
merge(ps, qs, v) == SelectSeq(ps, LAMBDA p : var(p) # v)
                    \o SelectSeq(qs, LAMBDA q : var(q) # v /\ q \notin ToSet(ps))

Positive(v) == SelectSeq(Looked(v), LAMBDA cr : v \in ToSet(lits(cr)))
Negative(v) == SelectSeq(Looked(v), LAMBDA cr : v \notin ToSet(lits(cr)))
Pairs(v) ==
    FlattenSeq([i \in DOMAIN Positive(v) |->
        LET p == Positive(v)[i]
            ns == SelectSeq(Negative(v), LAMBDA n : ~ Tautology(lits(p), lits(n), v))
        IN [k \in DOMAIN ns |-> <<p, ns[k]>>]])
WithinLimits(v) ==
    /\ Len(Pairs(v)) <= Len(Looked(v)) + Grow
    /\ ClauseLim = -1 \/ \A i \in DOMAIN Pairs(v) :
                            Len(merge(lits(Pairs(v)[i][1]), lits(Pairs(v)[i][2]), v)) <= ClauseLim

\* mkElimClause: the fewer clauses are kept, then the value that satisfies the others.
\* Variant: the value that satisfies those kept.
PivotFirst(ps, v) == Swapped(ps, 1, CHOOSE i \in DOMAIN ps : var(ps[i]) = v)
mkElimClausesOther(v) ==
    LET few == IF Len(Positive(v)) > Len(Negative(v)) THEN Negative(v) ELSE Positive(v)
        unit == IF Len(Positive(v)) > Len(Negative(v)) THEN -v ELSE v
    IN Append([i \in DOMAIN few |-> PivotFirst(lits(few[i]), v)], <<unit>>)
mkElimClauses(v) ==
    LET few == IF Len(Positive(v)) > Len(Negative(v)) THEN Negative(v) ELSE Positive(v)
        unit == IF Len(Positive(v)) > Len(Negative(v)) THEN v ELSE -v
    IN Append([i \in DOMAIN few |-> PivotFirst(lits(few[i]), v)], <<unit>>)

\* The variable of least cost leaves the heap; on an interrupt the loop ends.
NextVar ==
    /\ pc = "elimvars" /\ elim_heap # <<>>
    /\ elim_heap' = removeMin(elim_heap, Cost(n_occ))
    /\ LET v == Head(elim_heap) IN
       \/ /\ asynch_interrupt
          /\ pc' = "round"
          /\ UNCHANGED <<decision, occurs, occs_dirty, elimclauses, eliminated, el>>
       \/ /\ ~ asynch_interrupt /\ (eliminated[v] \/ ~ isUndef(v))
          /\ UNCHANGED <<decision, occurs, occs_dirty, elimclauses, eliminated, el, pc>>
       \/ /\ ~ asynch_interrupt /\ ~ eliminated[v] /\ isUndef(v) /\ (frozen[v] \/ ~ WithinLimits(v))
          /\ IF frozen[v] THEN UNCHANGED <<occurs, occs_dirty>> ELSE lookup(v)
          /\ pc' = "collect"
          /\ UNCHANGED <<decision, elimclauses, eliminated, el>>
       \/ /\ ~ asynch_interrupt /\ v \in Free /\ WithinLimits(v)
          /\ lookup(v)
          /\ eliminated' = [eliminated EXCEPT ![v] = TRUE]
          /\ decision' = [decision EXCEPT ![v] = FALSE]
          /\ elimclauses' = elimclauses \o mkElimClauses(v)
          /\ el' = [el EXCEPT !.v = v, !.pairs = Pairs(v), !.j = 1]
          /\ pc' = "resolve"
    /\ UNCHANGED <<order_heap, remove_satisfied, model, conflict, status, caller, after, Clauses, ok,
                   use_simplification, frozen, n_occ, touched, subsumption_queue, bwdsub_assigns>>
    /\ UnchangedByElimination

\* The heap is empty.
RoundEnds ==
    /\ pc = "elimvars" /\ elim_heap = <<>>
    /\ pc' = "round"
    /\ UNCHANGED <<Searching, Clauses, ok, elimination>> /\ UnchangedByElimination

\* The resolvents are added one after the other.
Resolve ==
    /\ pc = "resolve" /\ ok /\ el.pairs # <<>>
    /\ LET pair == Head(el.pairs)
       IN addClause_(merge(lits(pair[1]), lits(pair[2]), el.v), "note")
    /\ Noted("resolve", [el EXCEPT !.pairs = Tail(@)])
    /\ UNCHANGED <<script, formula, modes, occurrences, touched, bwdsub_assigns>>
    /\ UnchangedByAdd

ResolventFails ==
    /\ pc = "resolve" /\ ~ ok
    /\ pc' = "cleanup"
    /\ UNCHANGED <<Searching, Clauses, ok, elimination>> /\ UnchangedByElimination

\* Then the clauses of the variable go, one after the other.
RemoveResolved ==
    /\ pc = "resolve" /\ ok /\ el.pairs = <<>> /\ el.j <= Len(occurs[el.v])
    /\ Remove_(occurs[el.v][el.j], "resolve", [el EXCEPT !.j = @ + 1])
    /\ UNCHANGED <<Searching, Clauses, ok, modes, occurrences, touched, subsumption_queue, bwdsub_assigns>>
    /\ UnchangedByElimination

AllResolved ==
    /\ pc = "resolve" /\ ok /\ el.pairs = <<>> /\ el.j > Len(occurs[el.v])
    /\ occurs' = [occurs EXCEPT ![el.v] = <<>>]
    /\ el' = [el EXCEPT !.back = "collect"]
    /\ pc' = "subsume"
    /\ UNCHANGED <<Searching, Clauses, ok, modes, occs_dirty, n_occ, elim_heap, touched,
                   subsumption_queue, bwdsub_assigns>>
    /\ UnchangedByElimination

-----------------------------------------------------------------------------
(***************************************************************************)
(* Garbage collection, and the end of eliminate.  How much memory clauses  *)
(* that were shortened waste is not modelled: a collection is due or not.  *)
(***************************************************************************)
MayCollect == IF \E cr \in DOMAIN ca : ~ InUse(cr) THEN BOOLEAN ELSE {FALSE}
StillUsed == {cr \in clauses : InUse(cr)}
CleanedOccurs == [v \in Vars |-> IF v \in occs_dirty THEN SelectSeq(occurs[v], InUse) ELSE occurs[v]]
cleanUpClauses == clauses' = StillUsed /\ occurs' = CleanedOccurs /\ occs_dirty' = {}
Referenced == UNION {ToSet(CleanedOccurs[v]) : v \in Vars} \cup ToSet(subsumption_queue)
garbageCollect == /\ cleanUpClauses /\ cleanAll
                  /\ ca' = [cr \in Reloced(StillUsed) \cup Referenced |-> ca[cr]]

\* checkGarbage of Solver and, with another limit, of eliminate.
Collect ==
    /\ pc \in {"garbage", "collect"}
    /\ \E due \in MayCollect :
          IF due THEN garbageCollect
          ELSE UNCHANGED <<ca, clauses, watches, watchesBin, dirty, occurs, occs_dirty>>
    /\ pc' = IF pc = "garbage" THEN after ELSE "elimvars"
    /\ UNCHANGED <<Searching, trail, ok, modes, n_occ, elim_heap, touched, subsumption_queue,
                   bwdsub_assigns, el>>
    /\ UnchangedByElimination

\* With turn_off_elim all that elimination needs is freed.
TurnOff ==
    /\ pc = "cleanup" /\ el.turn_off
    /\ use_simplification' = FALSE /\ remove_satisfied' = TRUE
    /\ touched' = {} /\ occurs' = [v \in Vars |-> <<>>] /\ occs_dirty' = {}
    /\ n_occ' = [l \in Lits |-> 0] /\ elim_heap' = <<>> /\ subsumption_queue' = <<>>
    /\ order_heap' = {v \in 1 .. nVars : decision[v] /\ isUndef(v)}
    /\ clauses' = StillUsed /\ cleanAll
    /\ ca' = [cr \in Reloced(StillUsed) |-> ca[cr]]
    /\ pc' = "eliminated"
    /\ UNCHANGED <<trail, decision, model, conflict, status, caller, after, ok, elimclauses, frozen,
                   eliminated, bwdsub_assigns, el>>
    /\ UnchangedByElimination

CleanUp ==
    /\ pc = "cleanup" /\ ~ el.turn_off
    /\ \E due \in MayCollect :
          IF due THEN garbageCollect ELSE cleanUpClauses /\ UNCHANGED <<ca, watches, watchesBin, dirty>>
    /\ pc' = "eliminated"
    /\ UNCHANGED <<Searching, trail, ok, modes, n_occ, elim_heap, touched, subsumption_queue,
                   bwdsub_assigns, el>>
    /\ UnchangedByElimination

\* eliminate has returned: to its caller or, in solve_, to the search.
Eliminated ==
    /\ pc = "eliminated"
    /\ \/ /\ ~ el.solving
          /\ pc' = "idle" /\ UNCHANGED <<model, conflict, status, caller>>
       \/ /\ el.solving /\ ok
          /\ solve_
       \/ /\ el.solving /\ ~ ok
          /\ Leave("false") /\ UNCHANGED <<model, conflict, caller>>
    /\ UNCHANGED <<order_heap, decision, remove_satisfied, after, Clauses, ok, elimination>>
    /\ UnchangedByElimination

\* Variant: the clauses of the variable eliminated first come first.
extendModelForward(m) ==
    FoldLeft(LAMBDA found, c : IF \E i \in 2 .. Len(c) : -c[i] \notin found THEN found
                               ELSE (found \ {-c[1]}) \cup {c[1]},
             m, elimclauses)
\* The last clause first: a clause that only its first literal can satisfy sets that.
extendModel(m) ==
    FoldRight(LAMBDA c, found : IF \E i \in 2 .. Len(c) : -c[i] \notin found THEN found
                                ELSE (found \ {-c[1]}) \cup {c[1]},
              elimclauses, m)

\* The end of solve_: frozen assumptions are released.
SimpReturn ==
    /\ pc = "return"
    /\ Returned(IF status = "true" THEN extendModel(Found) ELSE model)
    /\ frozen' = [v \in Vars |-> frozen[v] /\ v \notin ToSet(el.extra_frozen)]
    /\ elim_heap' = IF use_simplification
                    THEN LET free == {v \in Vars : ~ eliminated[v] /\ {v, -v} \cap
                                                     {Kept(0)[i].lit : i \in DOMAIN Kept(0)} = {}}
                         IN FoldLeft(LAMBDA heap, v : Updated(heap, v, n_occ, free), elim_heap,
                                     el.extra_frozen)
                    ELSE elim_heap
    /\ el' = NoElim
    /\ UNCHANGED <<use_simplification, elimclauses, eliminated, occurs, occs_dirty, n_occ, touched,
                   subsumption_queue, bwdsub_assigns>>

-----------------------------------------------------------------------------
SimpInit ==
    /\ InitWith(FALSE)
    /\ use_simplification = TRUE /\ elimclauses = <<>>
    /\ touched = {} /\ occurs = [v \in Vars |-> <<>>] /\ occs_dirty = {}
    /\ n_occ = [l \in Lits |-> 0] /\ elim_heap = <<>>
    /\ subsumption_queue = <<>> /\ bwdsub_assigns = 0
    /\ frozen = [v \in Vars |-> FALSE] /\ eliminated = [v \in Vars |-> FALSE]
    /\ el = NoElim

EliminateSteps ==
    \/ Note \/ NotedAll \/ Forget \/ RemoveClause
    \/ Eliminate \/ Round \/ SubsumptionEnds \/ NextSubsumer \/ NoCandidate \/ RemoveSubsumed
    \/ StrengthenBinary \/ EnqueueOther \/ Strengthened \/ StrengthenLong \/ Checked
    \/ NextVar \/ RoundEnds \/ Resolve \/ ResolventFails \/ RemoveResolved
    \/ AllResolved \/ Collect \/ TurnOff \/ CleanUp \/ Eliminated

SimpStep ==
    \/ (Added \/ Propagate \/ Search) /\ UNCHANGED elimination
    \/ EliminateSteps \/ SimpReturn
SimpUser ==
    \/ NewVar \/ AddClause \/ setFrozen \/ callEliminate \/ Solve
    \/ (callSimplify \/ interrupt) /\ UNCHANGED elimination

SimpNext == SimpStep \/ SimpUser
SimpSpec == SimpInit /\ [][SimpNext]_ssvars /\ WF_ssvars(SimpStep)

-----------------------------------------------------------------------------
(***************************************************************************)
(* Properties.                                                             *)
(***************************************************************************)
\* While clauses and occurrences change in steps of their own, what eliminateVar
\* and backwardSubsumptionCheck go by is exact: a variable that is not eliminated
\* lists each clause in use that has it once, and the counts, hence the order of
\* the heap, are those of the clauses in use.
InUseWith(l) == {cr \in clauses : InUse(cr) /\ l \in ToSet(lits(cr))}
OccurrencesExact ==
    use_simplification /\ pc \notin {"note", "remove"} =>
        /\ \A v \in 1 .. nVars : ~ eliminated[v] =>
              /\ LET listed == SelectSeq(occurs[v], InUse)
                 IN IsInjective(listed) /\ ToSet(listed) = InUseWith(v) \cup InUseWith(-v)
              /\ \A l \in {v, -v} : n_occ[l] = Cardinality(InUseWith(l))
        /\ HeapOrdered(elim_heap, Cost(n_occ)) /\ IsInjective(elim_heap)

\* Nothing is lost: whatever satisfies the clauses that are left is extended by
\* extendModel to a model of the clauses of the user, and when the solver has
\* found a contradiction there is none.
Left == {ToSet(lits(cr)) : cr \in {c \in clauses : InUse(c)}}
        \cup {{trail[i].lit} : i \in {k \in DOMAIN trail : trail[k].level = 0}}
ModelsExtend ==
    ok /\ pc \in {"idle", "subsume", "elimvars", "resolve", "cleanup", "eliminated"} =>
        \A m \in Models(Left) :
            LET found == extendModel({mkLit(v, ~ m[v]) : v \in Vars})
            IN \A c \in formula : c \cap found # {}

\* Every elimination ends, though clauses that are strengthened and variables
\* whose clauses change are queued again.
EliminationEnds == (pc = "eliminate") ~> (pc = "eliminated")
=============================================================================
