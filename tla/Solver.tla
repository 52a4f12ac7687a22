-------------------------------- MODULE Solver --------------------------------
(***************************************************************************)
(* The SAT solver (Glucose 3): conflict-driven clause learning with two    *)
(* watched literals, separate watches for binary clauses, restarts, and    *)
(* deletion of learnt clauses; clauses are added between calls of solve.   *)
(* The default mode is modelled (not `incremental'), with the default ways *)
(* of minimisation (ccmin_mode 2) and phase saving (2).                    *)
(*                                                                         *)
(* Abstractions.  The activities of variables and clauses are left open:   *)
(* any variable of order_heap may be the first, learnt clauses of one lbd  *)
(* are in any order.  A CRef is a number that names a clause in ca; memory *)
(* that garbage collection reclaims leaves the domain of ca.  assigns,     *)
(* vardata and trail are one sequence, of what is assigned, at which       *)
(* level, and from which clause.  A call is a sequence of steps; pc is the *)
(* place in the code, caller where propagate returns to, after where       *)
(* simplify does.                                                          *)
(***************************************************************************)
EXTENDS Cnf, SequencesExt, BoundedQueue

CONSTANTS
    MaxRefs,                    \* bound on the clauses in memory
    SizeLBDQueue, SizeTrailQueue,
    K, R,                       \* the restart constants, in tenths
    LowerBoundForBlocking,      \* conflicts before a restart is ever blocked
    FirstReduceDB, IncReduceDB, SpecialIncReduceDB,
    LbLBDFrozenClause, LbSizeMinimizingClause, LbLBDMinimizingClause,
    Scripts                     \* the sequences of calls a user may make

VARIABLES
    script,         \* the calls that the user has still to make
    formula,        \* the clauses the user has added (no variable of the code)
    nVars, ok,
    ca,             \* the clauses in memory, by CRef
    clauses, learnts,
    watches, watchesBin, dirty,
    trail, trail_lim, qhead,
    polarity, decision, order_heap,
    simpDB_assigns, remove_satisfied,
    conflicts, curRestart, nbclausesbeforereduce,
    lbdQueue, trailQueue, sumLBD,
    assumptions, model, conflict, asynch_interrupt,
    status, answer, \* the lbool of search; what solve_ has returned
    pc, caller, after,
    visiting,       \* propagate: the literal, and the watchers still to visit
    confl,          \* the conflicting clause, or the reason to resolve with
    an              \* the locals of analyze, litRedundant and analyzeFinal

database == <<ca, clauses, learnts, watches, watchesBin, dirty>>
assignment == <<trail, trail_lim, qhead, polarity, order_heap>>
restarts == <<conflicts, lbdQueue, trailQueue, sumLBD>>
schedule == <<curRestart, nbclausesbeforereduce>>
result == <<assumptions, model, conflict, status, answer>>
user == <<script, formula, nVars, ok, decision, remove_satisfied, asynch_interrupt>>
svars == <<database, assignment, restarts, schedule, result, user,
           simpDB_assigns, pc, caller, after, visiting, confl, an>>

Lits == LitsOver(Vars)

\* The calls; a clause or an assumption is over the variables there are.  The
\* last two kinds, and the options of solve, are those of SimpSolver.
Calls == [op : {"newVar"}, sign : BOOLEAN, dvar : BOOLEAN] \cup [op : {"clause"}, lits : Seq(Lits)]
         \cup [op : {"solve"}, assumps : Seq(Lits), do_simp : BOOLEAN, turn_off : BOOLEAN]
         \cup [op : {"simplify", "interrupt"}]
         \cup [op : {"eliminate"}, turn_off : BOOLEAN] \cup [op : {"freeze"}, v : Vars, b : BOOLEAN]
NewVars(s, n) == Cardinality({i \in 1 .. n : s[i].op = "newVar"})
Used(c) == CASE c.op = "clause" -> ToSet(c.lits) [] c.op = "solve" -> ToSet(c.assumps) [] OTHER -> {}

ASSUME ScriptsAssumption ==
    \A s \in Scripts : /\ s \in Seq(Calls)
                       /\ NewVars(s, Len(s)) <= MaxVars
                       /\ \A i \in DOMAIN s : \A l \in Used(s[i]) : var(l) <= NewVars(s, i)
ASSUME CountsAssumption ==
    /\ {MaxRefs, K, R, LowerBoundForBlocking, IncReduceDB, SpecialIncReduceDB,
        LbLBDFrozenClause, LbSizeMinimizingClause, LbLBDMinimizingClause} \subseteq Nat
    /\ {SizeLBDQueue, SizeTrailQueue, FirstReduceDB} \subseteq Nat \ {0}

CRefs == 1 .. MaxRefs
CRef_Undef == 0

-----------------------------------------------------------------------------
(***************************************************************************)
(* The assignment.                                                         *)
(***************************************************************************)
isTrue(l) == \E i \in DOMAIN trail : trail[i].lit = l
isFalse(l) == isTrue(-l)
isUndef(l) == ~ isTrue(l) /\ ~ isFalse(l)
place(v) == CHOOSE i \in DOMAIN trail : var(trail[i].lit) = v
level(l) == trail[place(var(l))].level
reason(l) == trail[place(var(l))].reason
decisionLevel == Len(trail_lim)

Enqueued(l, lev, from) == [lit |-> l, level |-> lev, reason |-> from]
uncheckedEnqueue(l, from) == trail' = Append(trail, Enqueued(l, decisionLevel, from))

\* The literals above a level, and what is left of the trail without them.
LimitOf(lev) == IF lev < decisionLevel THEN trail_lim[lev + 1] ELSE Len(trail)
Kept(lev) == SubSeq(trail, 1, LimitOf(lev))
Cancelled(lev) == {trail[i].lit : i \in LimitOf(lev) + 1 .. Len(trail)}

\* cancelUntil, but for the trail: phases are saved, variables go back to the heap.
\* Variant: the variables stay out of the heap.
BacktrackKeepsHeap(lev) ==
    /\ trail_lim' = SubSeq(trail_lim, 1, IF lev < decisionLevel THEN lev ELSE decisionLevel)
    /\ qhead' = IF lev < decisionLevel THEN LimitOf(lev) ELSE qhead
    /\ polarity' = [v \in Vars |-> IF v \in Cancelled(lev) THEN FALSE
                                   ELSE IF -v \in Cancelled(lev) THEN TRUE ELSE polarity[v]]
    /\ order_heap' = order_heap
\* Variant: propagation resumes one literal too late.
BacktrackSkipsOne(lev) ==
    /\ trail_lim' = SubSeq(trail_lim, 1, IF lev < decisionLevel THEN lev ELSE decisionLevel)
    /\ qhead' = IF lev < decisionLevel THEN LimitOf(lev) + 1 ELSE qhead
    /\ polarity' = [v \in Vars |-> IF v \in Cancelled(lev) THEN FALSE
                                   ELSE IF -v \in Cancelled(lev) THEN TRUE ELSE polarity[v]]
    /\ order_heap' = order_heap \cup {v \in {var(l) : l \in Cancelled(lev)} : decision[v]}
Backtrack(lev) ==
    /\ trail_lim' = SubSeq(trail_lim, 1, IF lev < decisionLevel THEN lev ELSE decisionLevel)
    /\ qhead' = IF lev < decisionLevel THEN LimitOf(lev) ELSE qhead
    /\ polarity' = [v \in Vars |-> IF v \in Cancelled(lev) THEN FALSE
                                   ELSE IF -v \in Cancelled(lev) THEN TRUE ELSE polarity[v]]
    /\ order_heap' = order_heap \cup {v \in {var(l) : l \in Cancelled(lev)} : decision[v]}
cancelUntil(lev) == trail' = Kept(lev) /\ Backtrack(lev)

-----------------------------------------------------------------------------
(***************************************************************************)
(* Clauses in memory.                                                      *)
(***************************************************************************)
toInt(l) == 2 * var(l) + (IF l < 0 THEN 1 ELSE 0)

\* The n-th of a set of numbers; what a sequence has at certain places; the literals
\* of a set, sorted.
Nth(I, n) == CHOOSE i \in I : Cardinality({j \in I : j < i}) = n - 1
Selected(s, I) == [n \in 1 .. Cardinality(I) |-> s[Nth(I, n)]]
Sorted(S) == [n \in 1 .. Cardinality(S) |->
                CHOOSE l \in S : toInt(l) = Nth({toInt(k) : k \in S}, n)]

lits(cr) == ca[cr].lits
Fresh(cr) == cr \notin DOMAIN ca /\ \A c \in 1 .. cr - 1 : c \in DOMAIN ca
alloc(cr, ps, learnt, lbd) ==
    [c \in DOMAIN ca \cup {cr} |->
        IF c = cr THEN [lits |-> ps, learnt |-> learnt, lbd |-> lbd, canBeDel |-> TRUE, mark |-> 0]
        ELSE ca[c]]

Watcher(cr, blocker) == [cref |-> cr, blocker |-> blocker]
WithWatcher(ws, l, w) == [ws EXCEPT ![l] = Append(@, w)]
Attached(ws, cr, ps) == WithWatcher(WithWatcher(ws, -ps[1], Watcher(cr, ps[2])),
                                    -ps[2], Watcher(cr, ps[1]))
attachClause(cr, ps) ==
    IF Len(ps) = 2
    THEN watchesBin' = Attached(watchesBin, cr, ps) /\ UNCHANGED watches
    ELSE watches' = Attached(watches, cr, ps) /\ UNCHANGED watchesBin

\* OccLists: what cleanAll leaves of the watchers.
InMemory(list) == {i \in DOMAIN list : ca[list[i].cref].mark # 1}
Cleaned(ws) == [l \in Lits |-> IF l \in dirty THEN Selected(ws[l], InMemory(ws[l])) ELSE ws[l]]
cleanAll ==
    IF dirty = {} THEN UNCHANGED <<watches, watchesBin, dirty>>
    ELSE watches' = Cleaned(watches) /\ watchesBin' = Cleaned(watchesBin) /\ dirty' = {}

IsReason(cr, l) == \E i \in DOMAIN trail : trail[i].lit = l /\ trail[i].reason = cr
locked(cr) == \/ IsReason(cr, lits(cr)[1])
              \/ Len(lits(cr)) = 2 /\ IsReason(cr, lits(cr)[2])
satisfied(cr) == \E l \in ToSet(lits(cr)) : isTrue(l)

\* removeClause for each of a set of clauses: they are marked, the lists of their
\* watchers smudged, and no variable keeps them as its reason.
Marked(rs) == [cr \in DOMAIN ca |-> IF cr \in rs THEN [ca[cr] EXCEPT !.mark = 1] ELSE ca[cr]]
Smudged(rs) == dirty \cup UNION {{-lits(cr)[1], -lits(cr)[2]} : cr \in rs}
Unreasoned(rs) ==
    LET freed == {var(lits(cr)[1]) : cr \in {c \in rs : locked(c)}}
    IN [i \in DOMAIN trail |-> IF var(trail[i].lit) \in freed
                               THEN [trail[i] EXCEPT !.reason = CRef_Undef] ELSE trail[i]]
removeClauses(rs) == ca' = Marked(rs) /\ dirty' = Smudged(rs) /\ trail' = Unreasoned(rs)

-----------------------------------------------------------------------------
(***************************************************************************)
(* The user's calls.                                                       *)
(***************************************************************************)
Called(op) == script # <<>> /\ Head(script).op = op /\ script' = Tail(script)
call == Head(script)

newVar ==
    /\ pc = "idle" /\ nVars < MaxVars /\ Called("newVar")
    /\ nVars' = nVars + 1
    /\ polarity' = [polarity EXCEPT ![nVars + 1] = call.sign]
    /\ decision' = [decision EXCEPT ![nVars + 1] = call.dvar]
    /\ order_heap' = IF call.dvar THEN order_heap \cup {nVars + 1} ELSE order_heap
    /\ UNCHANGED <<database, trail, trail_lim, qhead, restarts, schedule, result, formula, ok,
                   remove_satisfied, asynch_interrupt, simpDB_assigns, pc, caller, after,
                   visiting, confl, an>>

\* What addClause_ keeps of a clause: nothing if it is satisfied or a tautology.
Superfluous(ps) == \E l \in ToSet(ps) : isTrue(l) \/ -l \in ToSet(ps)
Unassigned(ps) == {l \in ToSet(ps) : ~ isFalse(l)}

\* addClause_, but for the formula; unless a unit clause is to be propagated, the
\* caller goes on at this place.
addClause_(ps, back) ==
    LET qs == Sorted(Unassigned(ps)) IN
    \/ /\ ~ ok \/ Superfluous(ps)
       /\ pc' = back
       /\ UNCHANGED <<ok, database, trail, caller, after>>
    \/ /\ ok /\ ~ Superfluous(ps) /\ Len(qs) = 0
       /\ ok' = FALSE
       /\ pc' = back
       /\ UNCHANGED <<database, trail, caller, after>>
    \/ /\ ok /\ ~ Superfluous(ps) /\ Len(qs) = 1
       /\ uncheckedEnqueue(qs[1], CRef_Undef)
       /\ pc' = "propagate" /\ caller' = "added" /\ after' = back
       /\ UNCHANGED <<ok, database>>
    \/ /\ ok /\ ~ Superfluous(ps) /\ Len(qs) > 1
       /\ \E cr \in CRefs : /\ Fresh(cr)
                            /\ ca' = alloc(cr, qs, FALSE, 0)
                            /\ clauses' = clauses \cup {cr}
                            /\ attachClause(cr, qs)
       /\ pc' = back
       /\ UNCHANGED <<ok, learnts, dirty, trail, caller, after>>
UnchangedByAdd ==
    UNCHANGED <<trail_lim, qhead, polarity, order_heap, restarts, schedule, result, nVars,
                decision, remove_satisfied, asynch_interrupt, simpDB_assigns, visiting, confl, an>>

addClauseThen(back) ==
    /\ pc = "idle" /\ Called("clause")
    /\ formula' = formula \cup {ToSet(call.lits)}
    /\ addClause_(call.lits, back)
    /\ UnchangedByAdd
addClause == addClauseThen("idle")

\* The unit clause has been propagated.
Added ==
    /\ pc = "added"
    /\ ok' = (confl = CRef_Undef)
    /\ pc' = after
    /\ UNCHANGED <<database, assignment, restarts, schedule, result, script, formula, nVars,
                   decision, remove_satisfied, asynch_interrupt, simpDB_assigns, caller, after,
                   visiting, confl, an>>

callSimplify ==
    /\ pc = "idle" /\ Called("simplify")
    /\ IF ok THEN pc' = "propagate" /\ caller' = "simplify" /\ after' = "idle"
             ELSE UNCHANGED <<pc, caller, after>>
    /\ UNCHANGED <<database, assignment, restarts, schedule, result, formula, nVars, ok, decision,
                   remove_satisfied, asynch_interrupt, simpDB_assigns, visiting, confl, an>>

\* How solve_ begins.
solve_ == /\ model' = {} /\ conflict' = {}
          /\ IF ok THEN pc' = "propagate" /\ caller' = "search" /\ status' = "undef"
                   ELSE pc' = "return" /\ status' = "false" /\ UNCHANGED caller

solve ==
    /\ pc = "idle" /\ Called("solve")
    /\ assumptions' = call.assumps /\ answer' = "pending"
    /\ solve_
    /\ UNCHANGED <<database, assignment, restarts, schedule, formula, nVars, ok, decision,
                   remove_satisfied, asynch_interrupt, simpDB_assigns, after, visiting, confl, an>>

\* A signal handler calls interrupt().
interrupt ==
    /\ Called("interrupt")
    /\ asynch_interrupt' = TRUE
    /\ UNCHANGED <<database, assignment, restarts, schedule, result, formula, nVars, ok, decision,
                   remove_satisfied, simpDB_assigns, pc, caller, after, visiting, confl, an>>

-----------------------------------------------------------------------------
(***************************************************************************)
(* propagate: first the binary clauses of the next literal, then its long  *)
(* clauses.  While the latter are visited, watches[p] holds the watchers   *)
(* that stay (the part up to j) and visiting.todo those not yet visited.   *)
(***************************************************************************)
UnchangedByPropagate ==
    UNCHANGED <<clauses, learnts, trail_lim, polarity, order_heap, restarts, schedule, result,
                user, simpDB_assigns, caller, after, an>>

Dequeue ==
    /\ pc = "propagate" /\ qhead < Len(trail)
    /\ cleanAll
    /\ LET p == trail[qhead + 1].lit IN visiting' = [p |-> p, todo |-> watchesBin'[p]]
    /\ qhead' = qhead + 1
    /\ pc' = "binary"
    /\ UNCHANGED <<ca, trail, confl>> /\ UnchangedByPropagate

\* Nothing is left to propagate: propagate returns CRef_Undef.
Propagated ==
    /\ pc = "propagate" /\ qhead = Len(trail)
    /\ cleanAll
    /\ confl' = CRef_Undef
    /\ pc' = caller
    /\ UNCHANGED <<ca, trail, qhead, visiting>> /\ UnchangedByPropagate

VisitBinary ==
    /\ pc = "binary" /\ visiting.todo # <<>>
    /\ LET w == Head(visiting.todo) IN
       \/ /\ isFalse(w.blocker)
          /\ confl' = w.cref /\ pc' = caller
          /\ UNCHANGED <<trail, visiting>>
       \/ /\ ~ isFalse(w.blocker)
          /\ IF isUndef(w.blocker) THEN uncheckedEnqueue(w.blocker, w.cref) ELSE UNCHANGED trail
          /\ visiting' = [visiting EXCEPT !.todo = Tail(@)]
          /\ UNCHANGED <<confl, pc>>
    /\ UNCHANGED <<ca, watches, watchesBin, dirty, qhead>> /\ UnchangedByPropagate

StartLong ==
    /\ pc = "binary" /\ visiting.todo = <<>>
    /\ visiting' = [visiting EXCEPT !.todo = watches[visiting.p]]
    /\ watches' = [watches EXCEPT ![visiting.p] = <<>>]
    /\ pc' = "long"
    /\ UNCHANGED <<ca, watchesBin, dirty, trail, qhead, confl>> /\ UnchangedByPropagate

EndLong ==
    /\ pc = "long" /\ visiting.todo = <<>>
    /\ pc' = "propagate"
    /\ UNCHANGED <<ca, watches, watchesBin, dirty, trail, qhead, visiting, confl>>
    /\ UnchangedByPropagate

\* The blocker is true: the clause is not looked at.
SkipClause ==
    /\ pc = "long" /\ visiting.todo # <<>>
    /\ LET w == Head(visiting.todo) IN
       /\ isTrue(w.blocker)
       /\ watches' = WithWatcher(watches, visiting.p, w)
    /\ visiting' = [visiting EXCEPT !.todo = Tail(@)]
    /\ UNCHANGED <<ca, watchesBin, dirty, trail, qhead, confl, pc>> /\ UnchangedByPropagate

Swapped(ps, i, j) == [ps EXCEPT ![i] = ps[j], ![j] = ps[i]]
\* The clause with the false literal in the second place.
Turned(cr) == IF lits(cr)[1] = -visiting.p THEN Swapped(lits(cr), 1, 2) ELSE lits(cr)
Replacements(ps) == {k \in 3 .. Len(ps) : ~ isFalse(ps[k])}

\* Variant: the clause stays in the list of the literal it no longer watches too.
MoveWatchKeepsOld ==
    /\ pc = "long" /\ visiting.todo # <<>>
    /\ LET w == Head(visiting.todo)
           ps == Turned(w.cref)
       IN /\ ~ isTrue(w.blocker) /\ ~ isTrue(ps[1])
          /\ \E k \in Replacements(ps) :
                /\ \A j \in Replacements(ps) : k <= j
                /\ ca' = [ca EXCEPT ![w.cref].lits = Swapped(ps, 2, k)]
                /\ watches' = WithWatcher(WithWatcher(watches, visiting.p, w), -ps[k],
                                          Watcher(w.cref, ps[1]))
    /\ visiting' = [visiting EXCEPT !.todo = Tail(@)]
    /\ UNCHANGED <<watchesBin, dirty, trail, qhead, confl, pc>> /\ UnchangedByPropagate

\* A literal that is not false is watched instead.
MoveWatch ==
    /\ pc = "long" /\ visiting.todo # <<>>
    /\ LET w == Head(visiting.todo)
           ps == Turned(w.cref)
       IN /\ ~ isTrue(w.blocker) /\ ~ isTrue(ps[1])
          /\ \E k \in Replacements(ps) :
                /\ \A j \in Replacements(ps) : k <= j
                /\ ca' = [ca EXCEPT ![w.cref].lits = Swapped(ps, 2, k)]
                /\ watches' = WithWatcher(watches, -ps[k], Watcher(w.cref, ps[1]))
    /\ visiting' = [visiting EXCEPT !.todo = Tail(@)]
    /\ UNCHANGED <<watchesBin, dirty, trail, qhead, confl, pc>> /\ UnchangedByPropagate

\* The clause is satisfied by its first literal, or that is implied, or the
\* clause is in conflict: the watchers not yet visited are copied back.
KeepWatch ==
    /\ pc = "long" /\ visiting.todo # <<>>
    /\ LET w == Head(visiting.todo)
           ps == Turned(w.cref)
           kept == WithWatcher(watches, visiting.p, Watcher(w.cref, ps[1]))
       IN /\ ~ isTrue(w.blocker)
          /\ isTrue(ps[1]) \/ Replacements(ps) = {}
          /\ ca' = [ca EXCEPT ![w.cref].lits = ps]
          /\ \/ /\ isFalse(ps[1])
                /\ confl' = w.cref /\ qhead' = Len(trail) /\ pc' = caller
                /\ watches' = [kept EXCEPT ![visiting.p] = @ \o Tail(visiting.todo)]
                /\ UNCHANGED <<trail, visiting>>
             \/ /\ ~ isFalse(ps[1])
                /\ watches' = kept
                /\ IF isUndef(ps[1]) THEN uncheckedEnqueue(ps[1], w.cref) ELSE UNCHANGED trail
                /\ visiting' = [visiting EXCEPT !.todo = Tail(@)]
                /\ UNCHANGED <<confl, qhead, pc>>
    /\ UNCHANGED <<watchesBin, dirty>> /\ UnchangedByPropagate

Propagate ==
    \/ Dequeue \/ Propagated \/ VisitBinary \/ StartLong
    \/ SkipClause \/ MoveWatch \/ KeepWatch \/ EndLong

-----------------------------------------------------------------------------
(***************************************************************************)
(* search: after a conflict.  analyze visits one clause at a step.         *)
(***************************************************************************)
Levels(ls) == {level(ls[i]) : i \in DOMAIN ls}
computeLBD(ls) == Cardinality(Levels(ls))

NoAnalysis == [p |-> Undef, seen |-> {}, out |-> <<>>, next |-> 2, levels |-> {},
               stack |-> <<>>, saved |-> {}, lbd |-> 0]

\* The call of solve_ leaves search with this status.
Leave(lbool) == status' = lbool /\ pc' = "return"

SearchConflict ==
    /\ pc = "search" /\ confl # CRef_Undef
    /\ conflicts' = conflicts + 1
    /\ IF decisionLevel = 0
       THEN Leave("false") /\ UNCHANGED <<lbdQueue, trailQueue, an>>
       ELSE /\ trailQueue' = push(trailQueue, Len(trail), SizeTrailQueue)
            /\ lbdQueue' = IF /\ conflicts' > LowerBoundForBlocking
                              /\ isvalid(lbdQueue, SizeLBDQueue)
                              /\ Len(trail) * 10 > R * getavg(trailQueue')
                           THEN fastclear ELSE lbdQueue
            /\ an' = NoAnalysis
            /\ pc' = "analyze" /\ UNCHANGED status
    /\ UNCHANGED <<database, assignment, schedule, assumptions, model, conflict, answer, user,
                   sumLBD, simpDB_assigns, caller, after, visiting, confl>>

\* In a binary clause that is a reason the true literal comes first.
TrueFirst(ps) == IF Len(ps) = 2 /\ isFalse(ps[1]) THEN Swapped(ps, 1, 2) ELSE ps

\* A learnt clause whose lbd has decreased is kept at the next reduction.
Rated(c, nblevels) ==
    IF c.learnt /\ c.lbd > 2 /\ nblevels + 1 < c.lbd
    THEN [c EXCEPT !.lbd = nblevels,
                   !.canBeDel = IF c.lbd <= LbLBDFrozenClause THEN FALSE ELSE @]
    ELSE c

\* The last variable of the trail that is marked.
LastSeen(seen) == CHOOSE i \in DOMAIN trail :
                     /\ var(trail[i].lit) \in seen
                     /\ \A j \in i + 1 .. Len(trail) : var(trail[j].lit) \notin seen

\* The literals of a clause, from the k-th on, that are to be marked.
Unmarked(ps, k, seen) ==
    Selected(ps, {i \in k .. Len(ps) : var(ps[i]) \notin seen /\ level(ps[i]) > 0})
VarsOf(ls) == {var(ls[i]) : i \in DOMAIN ls}
AtTop(v) == level(v) >= decisionLevel
Below(ls) == Selected(ls, {i \in DOMAIN ls : ~ AtTop(var(ls[i]))})

UnchangedByAnalyze ==
    UNCHANGED <<clauses, learnts, watches, watchesBin, dirty, assignment, restarts, schedule,
                result, user, simpDB_assigns, caller, after, visiting>>

\* The conflicting clause, or the reason of p, is resolved away.
\* All of the conflicting clause is marked, of a reason all but the first.
\* Variant: the first literal of the conflicting clause is taken for implied, too.
FirstToMarkSkips == 2
FirstToMark == IF an.p = Undef THEN 1 ELSE 2

Analyze ==
    /\ pc = "analyze"
    /\ LET ps == IF an.p = Undef THEN lits(confl) ELSE TrueFirst(lits(confl))
           new == Unmarked(ps, FirstToMark, an.seen)
           i == LastSeen(an.seen \cup VarsOf(new))
           left == (an.seen \cup VarsOf(new)) \ {var(trail[i].lit)}
           out == an.out \o Below(new)
       IN /\ ca' = [ca EXCEPT ![confl] = Rated([@ EXCEPT !.lits = ps], computeLBD(ps))]
          /\ confl' = trail[i].reason
          /\ IF \E v \in left : AtTop(v)
             THEN /\ an' = [an EXCEPT !.p = trail[i].lit, !.seen = left, !.out = out]
                  /\ UNCHANGED pc
             ELSE /\ an' = [an EXCEPT !.p = trail[i].lit, !.seen = left,
                                      !.out = <<-trail[i].lit>> \o out,
                                      !.levels = {level(q) % 32 : q \in ToSet(out)}]
                  /\ pc' = "minimise"
    /\ UnchangedByAnalyze

\* The next literal of the learnt clause: is it implied by the others?
Minimise ==
    /\ pc = "minimise"
    /\ \/ /\ an.next > Len(an.out)
          /\ pc' = "shorten" /\ UNCHANGED an
       \/ /\ an.next <= Len(an.out) /\ reason(an.out[an.next]) = CRef_Undef
          /\ an' = [an EXCEPT !.next = @ + 1] /\ UNCHANGED pc
       \/ /\ an.next <= Len(an.out) /\ reason(an.out[an.next]) # CRef_Undef
          /\ an' = [an EXCEPT !.stack = <<an.out[an.next]>>, !.saved = an.seen]
          /\ pc' = "redundant"
    /\ UNCHANGED <<ca, confl>> /\ UnchangedByAnalyze

\* litRedundant may follow the reason of this literal.
Followed(q) == reason(q) # CRef_Undef /\ level(q) % 32 \in an.levels

\* litRedundant: one clause of the stack at a step.
litRedundant ==
    /\ pc = "redundant"
    /\ \/ /\ an.stack = <<>>
          /\ an' = [an EXCEPT !.out = RemoveAt(@, an.next)] /\ pc' = "minimise"
          /\ UNCHANGED ca
       \/ /\ an.stack # <<>>
          /\ LET cr == reason(Last(an.stack))
                 ps == TrueFirst(lits(cr))
                 new == Unmarked(ps, 2, an.seen)
             IN /\ ca' = [ca EXCEPT ![cr].lits = ps]
                /\ IF \A q \in ToSet(new) : Followed(q)
                   THEN /\ an' = [an EXCEPT !.stack = Front(@) \o new,
                                            !.seen = @ \cup VarsOf(new)]
                        /\ UNCHANGED pc
                   ELSE /\ an' = [an EXCEPT !.seen = an.saved, !.stack = <<>>, !.next = @ + 1]
                        /\ pc' = "minimise"
    /\ UNCHANGED confl /\ UnchangedByAnalyze

\* The literals that a binary clause of the asserting literal makes superfluous.
Subsumed(ls) == {q \in ToSet(Tail(ls)) : isFalse(q) /\
                   \E w \in ToSet(watchesBin[-ls[1]]) : w.blocker = -q}
\* The gaps in front are filled from behind.
Without(ls, gone) ==
    LET size == Cardinality({i \in DOMAIN ls : ls[i] \notin gone})
        behind == {j \in size + 1 .. Len(ls) : ls[j] \notin gone}
        Filler(i) == Nth(behind, Cardinality(behind) - Cardinality({h \in 1 .. i - 1 : ls[h] \in gone}))
    IN [i \in 1 .. size |-> IF ls[i] \in gone THEN ls[Filler(i)] ELSE ls[i]]
minimisationWithBinaryResolution(ls) ==
    IF computeLBD(ls) <= LbLBDMinimizingClause THEN Without(ls, Subsumed(ls)) ELSE ls

\* The first literal of the highest level but one takes the second place.
\* Variant: it stays where it is.
AnyLevelSecond(ls) == ls
HighestSecond(ls) ==
    IF Len(ls) = 1 THEN ls
    ELSE Swapped(ls, 2, CHOOSE i \in 2 .. Len(ls) :
                           \A j \in 2 .. Len(ls) : \/ level(ls[j]) < level(ls[i])
                                                   \/ level(ls[j]) = level(ls[i]) /\ i <= j)

Shorten ==
    /\ pc = "shorten"
    /\ LET short == HighestSecond(IF Len(an.out) <= LbSizeMinimizingClause
                                  THEN minimisationWithBinaryResolution(an.out) ELSE an.out)
       IN an' = [an EXCEPT !.out = short, !.lbd = computeLBD(short), !.seen = {}]
    /\ pc' = "learn"
    /\ UNCHANGED <<ca, confl>> /\ UnchangedByAnalyze

\* After the jump back the learnt clause is stored and implies its first literal.
Learn ==
    /\ pc = "learn"
    /\ lbdQueue' = push(lbdQueue, an.lbd, SizeLBDQueue) /\ sumLBD' = sumLBD + an.lbd
    /\ \E bt \in 0 .. decisionLevel :
       /\ bt = IF Len(an.out) = 1 THEN 0 ELSE level(an.out[2])
       /\ Backtrack(bt)
       /\ \/ /\ Len(an.out) = 1
             /\ trail' = Append(Kept(bt), Enqueued(an.out[1], bt, CRef_Undef))
             /\ UNCHANGED database
          \/ /\ Len(an.out) > 1
             /\ \E cr \in CRefs :
                   /\ Fresh(cr)
                   /\ ca' = alloc(cr, an.out, TRUE, an.lbd)
                   /\ learnts' = learnts \cup {cr}
                   /\ attachClause(cr, an.out)
                   /\ trail' = Append(Kept(bt), Enqueued(an.out[1], bt, cr))
             /\ UNCHANGED <<clauses, dirty>>
    /\ an' = NoAnalysis
    /\ pc' = "propagate" /\ caller' = "search"
    /\ UNCHANGED <<schedule, conflicts, trailQueue, result, user, simpDB_assigns, after,
                   visiting, confl>>

-----------------------------------------------------------------------------
(***************************************************************************)
(* search: without a conflict.                                             *)
(***************************************************************************)
RestartDue == /\ isvalid(lbdQueue, SizeLBDQueue)
              /\ getavg(lbdQueue) * K * conflicts > sumLBD * 10
withinBudget == ~ asynch_interrupt

\* search returns l_Undef; solve_ calls it again, unless it was interrupted.
\* Variant: the queue is not cleared.
RestartKeepsQueue ==
    /\ pc = "search" /\ confl = CRef_Undef /\ RestartDue
    /\ cancelUntil(0)
    /\ IF withinBudget THEN pc' = "propagate" /\ UNCHANGED status ELSE Leave("undef")
    /\ UNCHANGED <<database, restarts, schedule, assumptions, model,
                   conflict, answer, user, simpDB_assigns, caller, after, visiting, confl, an>>
Restart ==
    /\ pc = "search" /\ confl = CRef_Undef /\ RestartDue
    /\ lbdQueue' = fastclear
    /\ cancelUntil(0)
    /\ IF withinBudget THEN pc' = "propagate" /\ UNCHANGED status ELSE Leave("undef")
    /\ UNCHANGED <<database, conflicts, trailQueue, sumLBD, schedule, assumptions, model,
                   conflict, answer, user, simpDB_assigns, caller, after, visiting, confl, an>>

\* At level 0 simplify is called first; it begins by propagating.
NoConflict ==
    /\ pc = "search" /\ confl = CRef_Undef /\ ~ RestartDue
    /\ IF decisionLevel = 0
       THEN pc' = "propagate" /\ caller' = "simplify" /\ after' = "reduce"
       ELSE pc' = "reduce" /\ UNCHANGED <<caller, after>>
    /\ UNCHANGED <<database, assignment, restarts, schedule, result, user, simpDB_assigns,
                   visiting, confl, an>>

\* A conflict, or nothing new is assigned, or simpDB_props is not used up (left open).
SimplifyReturns ==
    /\ pc = "simplify"
    /\ confl # CRef_Undef \/ Len(trail) = simpDB_assigns \/ simpDB_assigns >= 0
    /\ ok' = (confl = CRef_Undef)
    /\ IF ok' \/ after # "reduce" THEN pc' = after /\ UNCHANGED status ELSE Leave("false")
    /\ UNCHANGED <<database, assignment, restarts, schedule, assumptions, model, conflict, answer,
                   script, formula, nVars, decision, remove_satisfied, asynch_interrupt,
                   simpDB_assigns, caller, after, visiting, confl, an>>

Simplify ==
    /\ pc = "simplify" /\ confl = CRef_Undef
    /\ Len(trail) # simpDB_assigns
    /\ LET gone == {cr \in learnts \cup (IF remove_satisfied THEN clauses ELSE {}) : satisfied(cr)}
       IN /\ removeClauses(gone)
          /\ learnts' = learnts \ gone /\ clauses' = clauses \ gone
    /\ order_heap' = {v \in 1 .. nVars : decision[v] /\ isUndef(v)}
    /\ simpDB_assigns' = Len(trail)
    /\ pc' = "garbage"
    /\ UNCHANGED <<watches, watchesBin, trail_lim, qhead, polarity, restarts, schedule, result,
                   user, caller, after, visiting, confl, an>>

\* checkGarbage, garbageCollect: what is not relocated is lost.
Words(cr) == 3 + Len(lits(cr)) + (IF ca[cr].learnt THEN 1 ELSE 0)
SumWords(crs) == MapThenFoldSet(LAMBDA a, b : a + b, 0, Words, LAMBDA S : CHOOSE c \in S : TRUE, crs)
ca_size == SumWords(DOMAIN ca)
ca_wasted == SumWords({cr \in DOMAIN ca : ca[cr].mark = 1})
CollectionDue == ca_wasted * 5 > ca_size

Watched(ws) == UNION {{w.cref : w \in ToSet(ws[l])} : l \in Lits}
Reasons == {cr \in DOMAIN ca : (\E i \in DOMAIN trail : trail[i].reason = cr) /\ locked(cr)}
Reloced(crs) == Watched(Cleaned(watches)) \cup Watched(Cleaned(watchesBin))
                \cup learnts \cup crs \cup Reasons

CheckGarbage ==
    /\ pc = "garbage"
    /\ IF CollectionDue
       THEN /\ ca' = [cr \in Reloced(clauses) |-> ca[cr]]
            /\ cleanAll
       ELSE UNCHANGED <<ca, watches, watchesBin, dirty>>
    /\ pc' = after
    /\ UNCHANGED <<clauses, learnts, assignment, restarts, schedule, result, user, simpDB_assigns,
                   caller, after, visiting, confl, an>>

ReductionDue == conflicts >= curRestart * nbclausesbeforereduce
KeepLearnts ==
    /\ pc = "reduce" /\ ~ ReductionDue
    /\ pc' = "decide"
    /\ UNCHANGED <<database, assignment, restarts, schedule, result, user, simpDB_assigns, caller,
                   after, visiting, confl, an>>

\* assert(learnts.size()>0) fails.
NothingToReduce ==
    /\ pc = "reduce" /\ ReductionDue /\ learnts = {}
    /\ pc' = "aborted"
    /\ UNCHANGED <<database, assignment, restarts, schedule, result, user, simpDB_assigns, caller,
                   after, visiting, confl, an>>

\* reduceDB_lt, but for the activities.
WorseFirst(order) ==
    \A i, j \in DOMAIN order : i < j =>
        LET c == ca[order[i]]
            d == ca[order[j]]
        IN \/ Len(c.lits) > 2 /\ Len(d.lits) = 2
           \/ Len(c.lits) = 2 /\ Len(d.lits) = 2
           \/ Len(c.lits) > 2 /\ Len(d.lits) > 2 /\ c.lbd >= d.lbd

\* The clauses reduceDB removes: the limit moves with every clause that it protects.
\* Variant: reasons are removed too.
RemovableUnlocked(order) ==
    {order[i] : i \in {n \in DOMAIN order :
        /\ ca[order[n]].lbd > 2 /\ Len(lits(order[n])) > 2 /\ ca[order[n]].canBeDel
        /\ n - 1 < Len(order) \div 2 + Cardinality({h \in 1 .. n - 1 : ~ ca[order[h]].canBeDel})}}
Removable(order) ==
    {order[i] : i \in {n \in DOMAIN order :
        /\ ca[order[n]].lbd > 2 /\ Len(lits(order[n])) > 2 /\ ca[order[n]].canBeDel
        /\ ~ locked(order[n])
        /\ n - 1 < Len(order) \div 2 + Cardinality({h \in 1 .. n - 1 : ~ ca[order[h]].canBeDel})}}

Special(cr, lbd) == IF ca[cr].lbd <= lbd THEN SpecialIncReduceDB ELSE 0

\* Variant: the list of learnt clauses is not shrunk.
reduceDBKeepsList ==
    /\ pc = "reduce" /\ ReductionDue /\ learnts # {}
    /\ \E order \in SetToSeqs(learnts) :
          /\ WorseFirst(order)
          /\ LET gone == Removable(order) IN
             /\ learnts' = learnts
             /\ dirty' = Smudged(gone)
             /\ ca' = [cr \in DOMAIN ca |-> IF cr \in gone THEN [ca[cr] EXCEPT !.mark = 1]
                                            ELSE IF cr \in learnts THEN [ca[cr] EXCEPT !.canBeDel = TRUE]
                                            ELSE ca[cr]]
          /\ nbclausesbeforereduce' = nbclausesbeforereduce + IncReduceDB
                + Special(order[Len(order) \div 2 + 1], 3) + Special(Last(order), 5)
    /\ curRestart' = conflicts \div nbclausesbeforereduce + 1
    /\ pc' = "garbage" /\ after' = "decide"
    /\ UNCHANGED <<clauses, watches, watchesBin, assignment, restarts, result, user,
                   simpDB_assigns, caller, visiting, confl, an>>

reduceDB ==
    /\ pc = "reduce" /\ ReductionDue /\ learnts # {}
    /\ \E order \in SetToSeqs(learnts) :
          /\ WorseFirst(order)
          /\ LET gone == Removable(order) IN
             /\ learnts' = learnts \ gone
             /\ dirty' = Smudged(gone)
             /\ ca' = [cr \in DOMAIN ca |-> IF cr \in gone THEN [ca[cr] EXCEPT !.mark = 1]
                                            ELSE IF cr \in learnts THEN [ca[cr] EXCEPT !.canBeDel = TRUE]
                                            ELSE ca[cr]]
          /\ nbclausesbeforereduce' = nbclausesbeforereduce + IncReduceDB
                + Special(order[Len(order) \div 2 + 1], 3) + Special(Last(order), 5)
    /\ curRestart' = conflicts \div nbclausesbeforereduce + 1
    /\ pc' = "garbage" /\ after' = "decide"
    /\ UNCHANGED <<clauses, watches, watchesBin, assignment, restarts, result, user,
                   simpDB_assigns, caller, visiting, confl, an>>

\* A new level, for an assumption or for a variable of the heap.
newDecisionLevel == trail_lim' = Append(trail_lim, Len(trail))
Decided(l) == /\ newDecisionLevel
              /\ trail' = Append(trail, Enqueued(l, decisionLevel + 1, CRef_Undef))
              /\ pc' = "propagate" /\ caller' = "search"
UnchangedByDecide == UNCHANGED <<database, qhead, polarity, restarts, schedule, user,
                                 simpDB_assigns, after, visiting, confl>>

Assumed == assumptions[decisionLevel + 1]
DummyLevel ==
    /\ pc = "decide" /\ decisionLevel < Len(assumptions) /\ isTrue(Assumed)
    /\ newDecisionLevel
    /\ UNCHANGED <<trail, order_heap, result, pc, caller, an>> /\ UnchangedByDecide

Assume ==
    /\ pc = "decide" /\ decisionLevel < Len(assumptions) /\ isUndef(Assumed)
    /\ Decided(Assumed)
    /\ UNCHANGED <<order_heap, result, an>> /\ UnchangedByDecide

AssumptionFails ==
    /\ pc = "decide" /\ decisionLevel < Len(assumptions) /\ isFalse(Assumed)
    /\ conflict' = {-Assumed}
    /\ an' = [NoAnalysis EXCEPT !.seen = IF decisionLevel = 0 THEN {} ELSE {var(Assumed)}]
    /\ pc' = "final"
    /\ UNCHANGED <<trail, trail_lim, order_heap, assumptions, model, status, answer, caller>>
    /\ UnchangedByDecide

\* The first literal of a reason that is not the implied one; a binary clause may
\* have that in any place.  Variant: the implied literal is always the first.
FinalFromSecond(ps) == 2
FinalFrom(ps) == IF Len(ps) = 2 THEN 1 ELSE 2

\* The literals of level 0 are not looked at.
SeenAbove == {v \in an.seen : level(v) > 0}

\* analyzeFinal: the conflict in terms of the assumptions, one literal of the trail at a step.
AnalyzeFinal ==
    /\ pc = "final" /\ SeenAbove # {}
    /\ LET t == trail[LastSeen(an.seen)]
           ps == IF t.reason = CRef_Undef THEN <<>> ELSE lits(t.reason)
           new == {q \in ToSet(SubSeq(ps, FinalFrom(ps), Len(ps))) : level(q) > 0}
       IN /\ conflict' = IF t.reason = CRef_Undef THEN conflict \cup {-t.lit} ELSE conflict
          /\ an' = [an EXCEPT !.seen = (@ \cup {var(q) : q \in new}) \ {var(t.lit)}]
    /\ UNCHANGED <<trail, trail_lim, order_heap, assumptions, model, status, answer, pc, caller>>
    /\ UnchangedByDecide

FinalAnalyzed ==
    /\ pc = "final" /\ SeenAbove = {}
    /\ Leave("false")
    /\ UNCHANGED <<trail, trail_lim, order_heap, assumptions, model, conflict, answer, caller, an>>
    /\ UnchangedByDecide

\* pickBranchLit: variables that are assigned may be popped on the way.
Candidates == {v \in order_heap : isUndef(v) /\ decision[v]}
PickBranchLit ==
    /\ pc = "decide" /\ decisionLevel >= Len(assumptions)
    /\ \E v \in Candidates, stale \in SUBSET (order_heap \ Candidates) :
          /\ order_heap' = order_heap \ (stale \cup {v})
          /\ Decided(mkLit(v, polarity[v]))
    /\ UNCHANGED <<result, an>> /\ UnchangedByDecide

ModelFound ==
    /\ pc = "decide" /\ decisionLevel >= Len(assumptions) /\ Candidates = {}
    /\ order_heap' = {}
    /\ Leave("true")
    /\ UNCHANGED <<trail, trail_lim, assumptions, model, conflict, answer, caller, an>>
    /\ UnchangedByDecide

\* The end of solve_.
Answered == CASE status = "true" -> "sat" [] status = "false" -> "unsat" [] OTHER -> "unknown"
Returned(m) ==
    /\ model' = m
    /\ ok' = (ok /\ ~ (status = "false" /\ conflict = {}))
    /\ cancelUntil(0)
    /\ answer' = Answered
    /\ pc' = "idle"
    /\ UNCHANGED <<database, restarts, schedule, assumptions, conflict, status, script, formula,
                   nVars, decision, remove_satisfied, asynch_interrupt, simpDB_assigns, caller, after,
                   visiting, confl, an>>
Found == {trail[i].lit : i \in DOMAIN trail}
Return == pc = "return" /\ Returned(IF status = "true" THEN Found ELSE model)

-----------------------------------------------------------------------------
InitWith(removing) ==
    /\ script \in Scripts
    /\ formula = {} /\ nVars = 0 /\ ok = TRUE
    /\ ca = <<>> /\ clauses = {} /\ learnts = {}
    /\ watches = [l \in Lits |-> <<>>] /\ watchesBin = [l \in Lits |-> <<>>] /\ dirty = {}
    /\ trail = <<>> /\ trail_lim = <<>> /\ qhead = 0
    /\ polarity = [v \in Vars |-> FALSE] /\ decision = [v \in Vars |-> FALSE] /\ order_heap = {}
    /\ simpDB_assigns = -1 /\ remove_satisfied = removing
    /\ conflicts = 0 /\ curRestart = 1 /\ nbclausesbeforereduce = FirstReduceDB
    /\ lbdQueue = <<>> /\ trailQueue = <<>> /\ sumLBD = 0
    /\ assumptions = <<>> /\ model = {} /\ conflict = {} /\ asynch_interrupt = FALSE
    /\ status = "undef" /\ answer = "none"
    /\ pc = "idle" /\ caller = "search" /\ after = "idle"
    /\ visiting = [p |-> Undef, todo |-> <<>>] /\ confl = CRef_Undef /\ an = NoAnalysis
Init == InitWith(TRUE)

Search ==
    \/ SearchConflict \/ Analyze \/ Minimise \/ litRedundant \/ Shorten \/ Learn
    \/ Restart \/ NoConflict \/ SimplifyReturns \/ Simplify
    \/ KeepLearnts \/ NothingToReduce \/ reduceDB
    \/ DummyLevel \/ Assume \/ AssumptionFails \/ AnalyzeFinal \/ FinalAnalyzed
    \/ PickBranchLit \/ ModelFound

\* A step of a call that has been made.
Step == Added \/ Propagate \/ Search \/ CheckGarbage \/ Return
User == newVar \/ addClause \/ callSimplify \/ solve \/ interrupt
Next == Step \/ User

Spec == Init /\ [][Next]_svars /\ WF_svars(Step)

-----------------------------------------------------------------------------
(***************************************************************************)
(* Properties.                                                             *)
(***************************************************************************)
WatcherSeqs == Seq([cref : CRefs, blocker : Lits])
ClauseRecords == [lits : Seq(Lits), learnt : BOOLEAN, lbd : Nat, canBeDel : BOOLEAN, mark : {0, 1}]
Places == {"idle", "added", "propagate", "binary", "long", "search", "analyze", "minimise",
           "redundant", "shorten", "learn", "simplify", "garbage", "reduce", "decide", "final",
           "return", "aborted"}

SolverTypeOK ==
    /\ nVars \in 0 .. MaxVars /\ ok \in BOOLEAN
    /\ DOMAIN ca \subseteq CRefs /\ \A cr \in DOMAIN ca : ca[cr] \in ClauseRecords
    /\ clauses \subseteq CRefs /\ learnts \subseteq CRefs
    /\ watches \in [Lits -> WatcherSeqs] /\ watchesBin \in [Lits -> WatcherSeqs]
    /\ dirty \subseteq Lits
    /\ trail \in Seq([lit : Lits, level : Nat, reason : CRefs \cup {CRef_Undef}])
    /\ trail_lim \in Seq(0 .. Len(trail)) /\ qhead \in 0 .. Len(trail)
    /\ polarity \in [Vars -> BOOLEAN] /\ decision \in [Vars -> BOOLEAN]
    /\ order_heap \subseteq 1 .. nVars
    /\ conflict \subseteq Lits /\ model \subseteq Lits
    /\ pc \in Places /\ caller \in {"added", "search", "simplify"}
    /\ after \in {"idle", "reduce", "decide"}
    /\ confl \in CRefs \cup {CRef_Undef}
    /\ an.seen \subseteq Vars /\ an.out \in Seq(Lits) /\ an.stack \in Seq(Lits)

Live == {cr \in DOMAIN ca : ca[cr].mark = 0}

\* No clause in memory, no literal at level 0 and no clause that analyze has
\* finished says more than the clauses of the user: what is resolved, minimised
\* by following reasons, or shortened with binary clauses still follows.
ClausesImplied ==
    LET models == {m : m \in Models(formula)}
        Follows(ls) == \A m \in models : Satisfies(m, ls)
    IN /\ \A cr \in DOMAIN ca : Follows(ToSet(lits(cr)))
       /\ \A i \in DOMAIN trail : trail[i].level = 0 => Follows({trail[i].lit})
       /\ pc = "learn" => Follows(ToSet(an.out))
       /\ ~ ok => models = {}

\* What simplify, reduceDB and garbage collection mark and free is no longer in use.
ClausesLive == clauses \cup learnts \subseteq Live

\* A clause that is in use has one watcher in the list of each of its first two
\* literals, and no other, whatever moves while its lists are visited.  No list
\* refers to a clause that has been freed, unless it is due for cleaning before
\* it is read again.
Pending == IF pc = "long" THEN visiting.todo ELSE <<>>
ListOf(l) == IF visiting.p = l THEN watches[l] \o Pending ELSE watches[l]
Watching(cr, l) == LET list == IF Len(lits(cr)) = 2 THEN watchesBin[l] ELSE ListOf(l)
                   IN {i \in DOMAIN list : list[i].cref = cr}
WatchesCover ==
    /\ \A cr \in clauses \cup learnts : \A l \in Lits :
          Cardinality(Watching(cr, l)) = IF -l \in {lits(cr)[1], lits(cr)[2]} THEN 1 ELSE 0
    /\ \A l \in Lits : \A w \in ToSet(ListOf(l) \o watchesBin[l]) :
          /\ w.cref \in DOMAIN ca
          /\ w.cref \in Live \/ l \in dirty
    /\ pc \in {"binary", "long", "analyze", "redundant"} => dirty = {}

\* A reason above level 0 is a clause in use; its other literals are false and
\* were so before the literal it implies.
ReasonsImply ==
    \A i \in DOMAIN trail : trail[i].reason # CRef_Undef /\ trail[i].level > 0 =>
        /\ trail[i].reason \in Live
        /\ trail[i].lit \in {lits(trail[i].reason)[k] : k \in 1 .. Len(lits(trail[i].reason))}
        /\ Len(lits(trail[i].reason)) > 2 => lits(trail[i].reason)[1] = trail[i].lit
        /\ \A l \in ToSet(lits(trail[i].reason)) \ {trail[i].lit} :
              isFalse(l) /\ place(var(l)) < i

\* When propagate finds no conflict, every clause is satisfied or has two
\* literals that are not assigned, after any number of jumps back.
PropagationComplete ==
    pc \in {"added", "search", "simplify"} /\ confl = CRef_Undef =>
        \A cr \in clauses \cup learnts :
            \/ satisfied(cr)
            \/ Cardinality({l \in ToSet(lits(cr)) : isUndef(l)}) > 1

\* No variable that is still to be decided is missing from the heap: otherwise
\* a partial assignment is taken for a model.
OrderComplete == \A v \in 1 .. nVars : decision[v] /\ isUndef(v) => v \in order_heap

\* The learnt clause is false, its first literal alone at the highest level,
\* its second at the level to jump back to.
LearntAsserts ==
    pc = "learn" =>
        /\ \A l \in ToSet(an.out) : isFalse(l)
        /\ level(an.out[1]) = decisionLevel
        /\ \A i \in 2 .. Len(an.out) : /\ level(an.out[i]) \in 1 .. level(an.out[2])
                                       /\ level(an.out[i]) < decisionLevel
        /\ IsInjective(an.out)

\* What solve_ answers is what a SAT solver promises.
Oracle == INSTANCE SatOracle
          WITH assumed <- ToSet(assumptions), interrupted <- asynch_interrupt,
               model <- IF answer = "sat" THEN model ELSE {},
               core <- IF answer = "unsat" THEN conflict ELSE {}
ImplementsOracle == Oracle!Spec

\* Every call ends, though restarts begin anew and learnt clauses are deleted.
CallsEnd == (pc = "propagate") ~> (pc \in {"idle", "aborted"})
=============================================================================
