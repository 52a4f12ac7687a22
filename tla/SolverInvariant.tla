-------------------------- MODULE SolverInvariant ---------------------------
(***************************************************************************)
(* What the proofs about Solver rest on: the inductive invariants behind   *)
(* SolverTypeOK, ClausesImplied, ReasonsImply, LearntAsserts and           *)
(* WatchesCover (IInv), behind PropagationComplete (PInv), and behind the  *)
(* refinement of SatOracle (OInv). They say how the parts of the state fit *)
(* together.                                                               *)
(***************************************************************************)
EXTENDS Solver, TLAPS, FiniteSetTheorems, FunctionTheorems, SequenceTheorems,
        WellFoundedInduction

-----------------------------------------------------------------------------
(***************************************************************************)
(* The heap of variables and the clauses in use.                           *)
(***************************************************************************)

\* A sequence of anything.
IsSeq(s) == s \in Seq({s[i] : i \in DOMAIN s})

\* The heap misses no variable: cancelUntil puts back what it takes off only because
\* the limits are places of the trail, in ascending order.
TrailInv ==
    /\ IsSeq(trail)
    /\ \A i \in DOMAIN trail : trail[i] = Enqueued(trail[i].lit, trail[i].level, trail[i].reason)
LimitsInv ==
    /\ trail_lim \in Seq(Nat)
    /\ \A i \in DOMAIN trail_lim : trail_lim[i] <= Len(trail)
    /\ \A i, j \in DOMAIN trail_lim : i <= j => trail_lim[i] <= trail_lim[j]
VarsInv == nVars \in 0 .. MaxVars /\ decision = [v \in Vars |-> decision[v]]
OrderInv == TrailInv /\ LimitsInv /\ VarsInv /\ OrderComplete

\* Clauses in use are in memory and not marked; reduceDB marks learnt clauses only.
IsClause(c) == c = [lits |-> c.lits, learnt |-> c.learnt, lbd |-> c.lbd, canBeDel |-> c.canBeDel,
                    mark |-> c.mark]
InUse(cr) == cr \in DOMAIN ca /\ IsClause(ca[cr]) /\ ca[cr].mark = 0
UseInv == (\A cr \in clauses \cup learnts : InUse(cr)) /\ clauses \cap learnts = {}

-----------------------------------------------------------------------------
(***************************************************************************)
(* Soundness: the trail, memory, watch lists, reasons, and each phase of   *)
(* conflict analysis and minimisation.                                     *)
(***************************************************************************)

\* The literals of the variables created, and the places of the trail in terms of
\* the levels they are at.
NLits == {l \in Lits : var(l) <= nVars}
TrueAt(l, L) == \E i \in DOMAIN trail : trail[i].lit = l /\ trail[i].level \in L
SeenAt(v, L) == \E i \in DOMAIN trail : var(trail[i].lit) = v /\ trail[i].level \in L
Top == {decisionLevel}
BelowTop == 1 .. decisionLevel - 1
Above0 == 1 .. decisionLevel

\* The calls still to come are a tail of a script.
ScriptInv == \E s \in Scripts : \E i \in 0 .. Len(s) :
                script = SubSeq(s, i + 1, Len(s)) /\ nVars = NewVars(s, i)

\* Who called propagate, what follows garbage collection, where there is only
\* level 0, and where no list is due for cleaning.
Propagating == pc \in {"propagate", "binary", "long"}
ControlInv ==
    /\ pc \in Places /\ caller \in {"added", "search", "simplify"} /\ after \in {"idle", "reduce", "decide"}
    /\ pc \in {"added", "search", "simplify"} => caller = pc
    /\ (Propagating /\ caller = "added") \/ pc = "added" => after = "idle"
    /\ (Propagating /\ caller = "simplify") \/ pc = "simplify" => after \in {"idle", "reduce"}
    /\ \/ pc \in {"idle", "added", "simplify"}
       \/ Propagating /\ caller # "search"
       \/ pc = "garbage" /\ after # "decide"
       => trail_lim = <<>>
    /\ pc \in {"binary", "long", "added", "search", "simplify", "analyze", "minimise", "redundant",
               "shorten", "learn"} => dirty = {}

\* The levels of the trail are the limits seen from the other side: only the first
\* literal of a level may be without a reason.  No variable is there twice.
LevelsInv ==
    /\ \A i \in DOMAIN trail :
          /\ trail[i].lit \in NLits /\ trail[i].level \in 0 .. decisionLevel
          /\ trail[i].reason \in CRefs \cup {CRef_Undef}
          /\ \A j \in DOMAIN trail_lim : trail_lim[j] < i <=> j <= trail[i].level
          /\ trail[i].level > 0 /\ trail[i].reason = CRef_Undef => i = trail_lim[trail[i].level] + 1
    /\ \A i, j \in DOMAIN trail : var(trail[i].lit) = var(trail[j].lit) => i = j

\* What waits to be propagated is at the current level, and nothing waits when
\* propagate has found no conflict.
QueueInv ==
    /\ qhead \in 0 .. Len(trail)
    /\ \A i \in qhead + 1 .. Len(trail) : trail[i].level = decisionLevel
    /\ \/ pc \in {"reduce", "decide"}
       \/ pc = "garbage" /\ after # "idle"
       \/ pc \in {"added", "search", "simplify"} /\ confl = CRef_Undef
       => qhead = Len(trail)

\* Clauses in memory have two literals or more, none of them twice.
ClausesInv ==
    \A cr \in DOMAIN ca :
        /\ cr \in CRefs /\ ca[cr] \in ClauseRecords /\ Len(lits(cr)) >= 2
        /\ \A k \in DOMAIN lits(cr) : lits(cr)[k] \in NLits
        /\ \A k, m \in DOMAIN lits(cr) : lits(cr)[k] = lits(cr)[m] => k = m

\* A list has a clause once at most, and then it watches one of the first two
\* literals; marked clauses are only in lists that are due for cleaning.
Refs(list) == {list[n].cref : n \in DOMAIN list}
NoRepeat(list) == \A m, n \in DOMAIN list : list[m].cref = list[n].cref => m = n
WatchInv ==
    /\ watches \in [Lits -> WatcherSeqs] /\ watchesBin \in [Lits -> WatcherSeqs] /\ dirty \subseteq Lits
    /\ visiting \in [p : Lits \cup {Undef}, todo : WatcherSeqs]
    /\ \A l \in Lits :
       /\ NoRepeat(ListOf(l)) /\ NoRepeat(watchesBin[l])
       /\ \A cr \in Refs(ListOf(l)) :
             /\ cr \in DOMAIN ca /\ Len(lits(cr)) > 2 /\ -l \in {lits(cr)[1], lits(cr)[2]}
             /\ ca[cr].mark = 0 \/ l \in dirty
       /\ \A n \in DOMAIN watchesBin[l] :
             LET w == watchesBin[l][n] IN
             /\ w.cref \in DOMAIN ca
             /\ lits(w.cref) = <<-l, w.blocker>> \/ lits(w.cref) = <<w.blocker, -l>>
             /\ ca[w.cref].mark = 0 \/ l \in dirty
\* The list visited is that of a literal of the current level; binary clauses are
\* visited in the list itself.
VisitInv ==
    /\ pc \in {"binary", "long"} => TrueAt(visiting.p, Top)
    /\ pc = "binary" => \A n \in DOMAIN visiting.todo :
                           \E m \in DOMAIN watchesBin[visiting.p] : watchesBin[visiting.p][m] = visiting.todo[n]
\* Every clause in use is in the lists of its first two literals.
CoverInv ==
    \A cr \in clauses \cup learnts : \A k \in {1, 2} :
        cr \in Refs(IF Len(lits(cr)) = 2 THEN watchesBin[-lits(cr)[k]] ELSE ListOf(-lits(cr)[k]))

\* The clause made the i-th literal of the trail true: its other literals were
\* false before.
Given(cr, i) ==
    /\ cr \in DOMAIN ca /\ ca[cr].mark = 0
    /\ \E k \in DOMAIN lits(cr) : lits(cr)[k] = trail[i].lit
    /\ Len(lits(cr)) > 2 => lits(cr)[1] = trail[i].lit
    /\ \A k \in DOMAIN lits(cr) : \/ lits(cr)[k] = trail[i].lit
                                  \/ \E j \in 1 .. i - 1 : trail[j].lit = -lits(cr)[k]
ReasonInv == \A i \in DOMAIN trail :
                trail[i].level > 0 /\ trail[i].reason # CRef_Undef => Given(trail[i].reason, i)

\* All literals of the clause are false, one of them at the current level.
Conflicting(cr) ==
    /\ cr \in DOMAIN ca
    /\ \A k \in DOMAIN lits(cr) : isTrue(-lits(cr)[k])
    /\ \E k \in DOMAIN lits(cr) : TrueAt(-lits(cr)[k], Top)
ConflictInv ==
    /\ confl \in CRefs \cup {CRef_Undef}
    /\ pc \in {"added", "search", "simplify"} /\ confl # CRef_Undef => Conflicting(confl)
    /\ pc = "analyze" /\ an.p = Undef => Conflicting(confl)

\* What the formula implies.
MeaningInv ==
    /\ \A cr \in DOMAIN ca : Implies(formula, ToSet(lits(cr)))
    /\ \A i \in DOMAIN trail : trail[i].level = 0 => Implies(formula, {trail[i].lit})
    /\ ~ ok => Models(formula) = {}
    /\ pc = "return" /\ status = "false" /\ conflict = {} => Models(formula) = {}
    /\ pc = "final" => conflict # {}

\* Conflict analysis resolves backwards along the trail: the variables marked are
\* before the literal resolved on, those of lower levels are in the clause already,
\* and the formula implies that one of them has the other value.
NegOf(vs) == {-trail[j].lit : j \in {n \in DOMAIN trail : var(trail[n].lit) \in vs}}
VarInjective(ls) == \A k, m \in DOMAIN ls : var(ls[k]) = var(ls[m]) => k = m
AnalyzeInv ==
    pc = "analyze" =>
        /\ decisionLevel > 0 /\ an.next = 2
        /\ \A v \in an.seen : SeenAt(v, Above0)
        /\ \A v \in an.seen : SeenAt(v, Top) \/ v \in VarsOf(an.out)
        /\ \A k \in DOMAIN an.out : var(an.out[k]) \in an.seen /\ TrueAt(-an.out[k], BelowTop)
        /\ VarInjective(an.out)
        /\ an.p = Undef => an.seen = {} /\ an.out = <<>>
        /\ an.p # Undef =>
              /\ \E i \in DOMAIN trail :
                    /\ trail[i].lit = an.p /\ trail[i].level = decisionLevel
                    /\ trail[i].reason = confl /\ confl # CRef_Undef
                    /\ \A v \in an.seen : \E j \in 1 .. i - 1 : var(trail[j].lit) = v
              /\ \E v \in an.seen : SeenAt(v, Top)
              /\ Implies(formula, NegOf(an.seen) \cup {-an.p})

\* A learnt clause on its way: its first literal is at the current level, the
\* others are below, and it follows.
OutGood(out) ==
    /\ Len(out) >= 1 /\ VarInjective(out)
    /\ TrueAt(-out[1], Top)
    /\ \A k \in 2 .. Len(out) : TrueAt(-out[k], BelowTop)
    /\ Implies(formula, ToSet(out))

\* Minimisation: a variable is closed over a set if its reason mentions only
\* variables of the set and of level 0, so it can be resolved away.
Rest(out) == {var(out[k]) : k \in 2 .. Len(out)}
RestBut(out, n) == {var(out[k]) : k \in 2 .. Len(out) \ {n}}
Closed(v, S) ==
    \E i \in DOMAIN trail :
       /\ var(trail[i].lit) = v /\ trail[i].level > 0 /\ trail[i].reason # CRef_Undef
       /\ \A k \in DOMAIN lits(trail[i].reason) :
             LET l == lits(trail[i].reason)[k] IN
             l = trail[i].lit \/ var(l) \in S \/ SeenAt(var(l), {0})
AllClosed(S, known) == \A v \in S : v \in known \/ Closed(v, S)
MinimiseInv ==
    /\ pc \in {"minimise", "redundant", "shorten", "learn"} =>
          decisionLevel > 0 /\ OutGood(an.out)
    /\ pc = "minimise" =>
          /\ an.next \in 2 .. Len(an.out) + 1
          /\ \A v \in an.seen : SeenAt(v, Above0)
          /\ Rest(an.out) \subseteq an.seen /\ AllClosed(an.seen, Rest(an.out))
    /\ pc = "redundant" =>
          /\ an.next \in 2 .. Len(an.out)
          /\ \A v \in an.seen : SeenAt(v, Above0)
          /\ Rest(an.out) \subseteq an.saved /\ an.saved \subseteq an.seen
          /\ AllClosed(an.saved, Rest(an.out))
          /\ AllClosed(an.seen, RestBut(an.out, an.next) \cup VarsOf(an.stack))
          /\ \A n \in DOMAIN an.stack :
                /\ var(an.stack[n]) \in an.seen
                /\ \E i \in DOMAIN trail : /\ trail[i].lit = -an.stack[n] /\ trail[i].level > 0
                                           /\ trail[i].reason # CRef_Undef
    /\ pc = "learn" => \A k \in 2 .. Len(an.out) : level(an.out[k]) <= level(an.out[2])
    /\ pc = "final" => \A v \in an.seen : SeenAt(v, 0 .. decisionLevel)

\* Types.
AnType == [p : Lits \cup {Undef}, seen : SUBSET Vars, out : Seq(Lits), next : Nat, levels : SUBSET Int,
           stack : Seq(Lits), saved : SUBSET Vars, lbd : Nat]
ValuesInv ==
    /\ nVars \in 0 .. MaxVars /\ ok \in BOOLEAN
    /\ polarity \in [Vars -> BOOLEAN] /\ decision \in [Vars -> BOOLEAN]
    /\ order_heap \subseteq 1 .. nVars
    /\ conflict \subseteq Lits /\ model \subseteq Lits
    /\ assumptions \in Seq(Lits) /\ \A i \in DOMAIN assumptions : assumptions[i] \in NLits
    /\ an \in AnType

\* The inductive invariant.
IInv == /\ OrderInv /\ UseInv
        /\ ScriptInv /\ ControlInv /\ ValuesInv
        /\ LevelsInv /\ QueueInv
        /\ ClausesInv /\ WatchInv /\ VisitInv /\ CoverInv
        /\ ReasonInv /\ ConflictInv /\ MeaningInv
        /\ AnalyzeInv /\ MinimiseInv

-----------------------------------------------------------------------------
(***************************************************************************)
(* Progress: what propagation has done, and where a call of solve is under *)
(* way.                                                                    *)
(***************************************************************************)

\* What is watched is false only when it is helped: another literal of the clause is
\* true, at the same level or before.
FirstTwo(cr) == {lits(cr)[1], lits(cr)[2]}
Helped(cr, lev) == \E j \in DOMAIN trail : trail[j].lit \in ToSet(lits(cr)) /\ trail[j].level <= lev

\* Where propagate has met no conflict.
Calm == \/ Propagating
        \/ pc \in {"added", "search", "simplify"} /\ confl = CRef_Undef
        \/ pc \in {"garbage", "reduce", "decide", "final"}
        \/ pc = "idle" /\ ok
        \/ pc = "return" /\ ok /\ (status # "false" \/ conflict # {})
\* The clause has still to be visited for the literal at the head of the queue.
Waiting(cr) == /\ pc \in {"binary", "long"}
               /\ cr \in Refs(visiting.todo) \/ (pc = "binary" /\ Len(lits(cr)) > 2)
Settled(i, cr) == \/ trail[i].level < decisionLevel
                  \/ Calm /\ i <= qhead /\ ~ (i = qhead /\ Waiting(cr))
DoneInv == \A cr \in clauses \cup learnts : \A i \in DOMAIN trail :
              -trail[i].lit \in FirstTwo(cr) /\ Settled(i, cr) => Helped(cr, trail[i].level)

\* A blocker is a literal of its clause.
Within(w) == w.blocker \in ToSet(lits(w.cref))
BlockerInv == /\ \A l \in Lits : \A n \in DOMAIN watches[l] : Within(watches[l][n])
              /\ pc = "long" => \A n \in DOMAIN visiting.todo : Within(visiting.todo[n])
\* The literal visited is the head of the queue.
HeadInv == pc \in {"binary", "long"} => qhead \in DOMAIN trail /\ trail[qhead].lit = visiting.p
\* A call goes on only while no contradiction is known.
OkInv == /\ pc \notin {"idle", "return"} => ok
         /\ pc = "return" /\ status # "false" => ok

\* Where a call of solve has not yet been answered.
Busy == \/ pc \in {"search", "analyze", "minimise", "redundant", "shorten", "learn", "reduce", "decide",
                   "final", "return", "aborted"}
        \/ Propagating /\ caller = "search"
        \/ ((Propagating /\ caller = "simplify") \/ pc \in {"simplify", "garbage"}) /\ after # "idle"
PendingInv == /\ answer = "pending" <=> Busy
              /\ Busy /\ pc \notin {"final", "return"} => conflict = {}

PInv == IInv /\ OkInv /\ PendingInv /\ HeadInv /\ BlockerInv /\ DoneInv

-----------------------------------------------------------------------------
(***************************************************************************)
(* Answers: what is kept of the clauses added, what the levels of the      *)
(* assumptions hold, and what the core says.                               *)
(***************************************************************************)

\* No variable is left out of the decisions.
AllDecided == \A s \in Scripts : \A i \in DOMAIN s : s[i].op = "newVar" => s[i].dvar
DecisionInv == \A v \in 1 .. nVars : decision[v]

\* A clause of the formula is a tautology, true at level 0 or contains a stored clause.
Tautology(c) == \E l \in c : -l \in c
Kept0(c) == \/ Tautology(c)
            \/ \E l \in c : TrueAt(l, {0})
            \/ \E cr \in clauses : ToSet(lits(cr)) \subseteq c
KeepsInv == \A c \in formula : c \subseteq NLits /\ (ok => Kept0(c))

\* The first levels are those of the assumptions.
AssumedInv == \A i \in DOMAIN trail :
                 trail[i].level \in 1 .. Len(assumptions) /\ trail[i].reason = CRef_Undef =>
                    trail[i].lit = assumptions[trail[i].level]
HeldInv == \A j \in DOMAIN assumptions : j <= decisionLevel => TrueAt(assumptions[j], 0 .. j)

\* The conflict in terms of the assumptions.
OfAssumptions == \A l \in conflict : -l \in ToSet(assumptions)
CoreInv ==
    pc = "final" => /\ decisionLevel < Len(assumptions)
                    /\ OfAssumptions
                    /\ Implies(formula, conflict \cup NegOf(an.seen))

\* What a call of solve is about to return.
ReturnInv ==
    pc = "return" =>
        /\ status = "true" => (\A c \in formula : c \cap Found # {}) /\ ToSet(assumptions) \subseteq Found
        /\ status = "false" => OfAssumptions /\ Implies(formula, conflict)
        /\ status \notin {"true", "false"} => asynch_interrupt

OInv == AllDecided /\ PInv /\ DecisionInv /\ KeepsInv /\ AssumedInv /\ HeldInv /\ CoreInv /\ ReturnInv
=============================================================================
