---------------------------- MODULE SolverProofs ----------------------------
(***************************************************************************)
(* The data of Solver fit together after every step, for every script of   *)
(* calls, every bound and every constant of the heuristics: the heap and   *)
(* the clauses in use first, then the trail and its levels, the queue, the *)
(* clauses in memory, the watch lists during and between visits, and the   *)
(* reasons. One lemma per part of the invariant says that every step keeps *)
(* it.                                                                     *)
(***************************************************************************)
EXTENDS SolverInvariant

-----------------------------------------------------------------------------
(***************************************************************************)
(* Sequences of anything.                                                  *)
(***************************************************************************)
\* A sequence is one of its own elements,
LEMMA SeqIsSeq ==
    ASSUME NEW S, NEW s \in Seq(S)
    PROVE  IsSeq(s) /\ Len(s) \in Nat /\ DOMAIN s = 1 .. Len(s)
BY DEF IsSeq

\* and has a length.
LEMMA IsSeqLen ==
    ASSUME NEW s, IsSeq(s)
    PROVE  Len(s) \in Nat /\ DOMAIN s = 1 .. Len(s)
BY DEF IsSeq

\* An element put last.
LEMMA AppendIsSeq ==
    ASSUME NEW s, IsSeq(s), NEW x
    PROVE  /\ IsSeq(Append(s, x))
           /\ Len(Append(s, x)) = Len(s) + 1
           /\ DOMAIN Append(s, x) = 1 .. Len(s) + 1
           /\ \A i \in 1 .. Len(s) : Append(s, x)[i] = s[i]
           /\ Append(s, x)[Len(s) + 1] = x
<1>. DEFINE S == {s[i] : i \in DOMAIN s} \cup {x}
<1>1. s \in Seq(S)
  BY DEF IsSeq
<1>2. x \in S
  OBVIOUS
<1>. HIDE DEF S
<1>3. Append(s, x) \in Seq(S)
  BY <1>1, <1>2
<1>4. IsSeq(Append(s, x))
  BY <1>3, SeqIsSeq
<1>. QED
  BY <1>1, <1>2, <1>3, <1>4

\* The first elements of a sequence.
LEMMA PrefixIsSeq ==
    ASSUME NEW s, IsSeq(s), NEW n \in 0 .. Len(s)
    PROVE  /\ IsSeq(SubSeq(s, 1, n))
           /\ Len(SubSeq(s, 1, n)) = n
           /\ DOMAIN SubSeq(s, 1, n) = 1 .. n
           /\ \A i \in 1 .. n : SubSeq(s, 1, n)[i] = s[i]
<1>. DEFINE S == {s[i] : i \in DOMAIN s}
<1>1. s \in Seq(S) /\ Len(s) \in Nat
  BY DEF IsSeq
<1>. HIDE DEF S
<1>2. SubSeq(s, 1, n) \in Seq(S)
  BY <1>1
<1>3. IsSeq(SubSeq(s, 1, n))
  BY <1>2, SeqIsSeq
<1>. QED
  BY <1>1, <1>2, <1>3

-----------------------------------------------------------------------------
(***************************************************************************)
(* The heap.  OrderComplete is inductive together with the shape of the    *)
(* trail: cancelUntil puts back what it takes off only because the limits  *)
(* are places of the trail, in ascending order.                            *)
(***************************************************************************)
heapvars == <<trail, trail_lim, order_heap, decision, nVars>>

\* What is enqueued at a level, which may be a new one.
LEMMA EnqueueKeepsOrder ==
    ASSUME OrderInv, NEW l, NEW lev, NEW from,
           trail' = Append(trail, Enqueued(l, lev, from)),
           trail_lim' = trail_lim \/ trail_lim' = Append(trail_lim, Len(trail)),
           UNCHANGED <<decision, nVars>>,
           \A v \in order_heap : decision[v] /\ isUndef(v) /\ v # l /\ -v # l => v \in order_heap'
    PROVE  OrderInv'
<1>. DEFINE e == Enqueued(l, lev, from)
<1>1. e = Enqueued(e.lit, e.level, e.reason) /\ e.lit = l
  BY DEF Enqueued
<1>. HIDE DEF e
<1>2. IsSeq(trail) /\ Len(trail) \in Nat /\ DOMAIN trail = 1 .. Len(trail)
  BY IsSeqLen DEF OrderInv, TrailInv
<1>3. /\ IsSeq(trail') /\ Len(trail') = Len(trail) + 1 /\ DOMAIN trail' = 1 .. Len(trail) + 1
      /\ \A i \in 1 .. Len(trail) : trail'[i] = trail[i]
      /\ trail'[Len(trail) + 1] = e
  BY <1>2, AppendIsSeq DEF e
<1>4. TrailInv'
  BY <1>1, <1>2, <1>3 DEF OrderInv, TrailInv
<1>5. LimitsInv'
  <2>. DEFINE N == Len(trail)
  <2>0. N \in Nat /\ N = Len(trail) /\ Len(trail') = N + 1 /\ LimitsInv
    BY <1>2, <1>3 DEF OrderInv
  <2>. HIDE DEF N
  <2>1. CASE trail_lim' = trail_lim
    BY <2>0, <2>1 DEF LimitsInv
  <2>2. CASE trail_lim' = Append(trail_lim, Len(trail))
    BY <2>0, <2>2 DEF LimitsInv
  <2>. QED
    BY <2>1, <2>2
<1>6. VarsInv'
  BY DEF OrderInv, VarsInv
<1>7. OrderComplete'
  <2>1. SUFFICES ASSUME NEW v \in (1 .. nVars)', decision[v]', isUndef(v)'
                 PROVE  v \in order_heap'
    BY DEF OrderComplete
  <2>2. isUndef(v)
    BY <1>2, <1>3, <2>1 DEF isUndef, isFalse, isTrue
  <2>3. v # l /\ -v # l
    BY <1>1, <1>2, <1>3, <2>1 DEF isUndef, isFalse, isTrue
  <2>. QED
    BY <2>1, <2>2, <2>3 DEF OrderInv, OrderComplete
<1>. QED
  BY <1>4, <1>5, <1>6, <1>7 DEF OrderInv

\* What cancelUntil keeps.
LEMMA KeptPart ==
    ASSUME OrderInv, NEW lev \in Nat
    PROVE  /\ LimitOf(lev) \in 0 .. Len(trail)
           /\ IsSeq(Kept(lev)) /\ Len(Kept(lev)) = LimitOf(lev) /\ DOMAIN Kept(lev) = 1 .. LimitOf(lev)
           /\ \A i \in 1 .. LimitOf(lev) : Kept(lev)[i] = trail[i]
<1>1. IsSeq(trail) /\ Len(trail) \in Nat /\ DOMAIN trail = 1 .. Len(trail)
  BY IsSeqLen DEF OrderInv, TrailInv
<1>2. LimitOf(lev) \in 0 .. Len(trail)
  <2>1. CASE lev < decisionLevel
    <3>1. lev + 1 \in DOMAIN trail_lim
      BY <2>1 DEF OrderInv, LimitsInv, decisionLevel
    <3>. QED
      BY <1>1, <2>1, <3>1 DEF OrderInv, LimitsInv, LimitOf
  <2>2. CASE ~ lev < decisionLevel
    BY <1>1, <2>2 DEF LimitOf
  <2>. QED
    BY <2>1, <2>2
<1>. QED
  BY <1>1, <1>2, PrefixIsSeq DEF Kept

\* The limits that are left are places of what is left.
LEMMA KeptLimits ==
    ASSUME OrderInv, NEW lev \in Nat, Backtrack(lev)
    PROVE  /\ trail_lim' \in Seq(Nat)
           /\ \A i \in DOMAIN trail_lim' : trail_lim'[i] <= LimitOf(lev)
           /\ \A i, j \in DOMAIN trail_lim' : i <= j => trail_lim'[i] <= trail_lim'[j]
<1>1. trail_lim \in Seq(Nat) /\ decisionLevel = Len(trail_lim) /\ DOMAIN trail_lim = 1 .. Len(trail_lim)
  BY DEF OrderInv, LimitsInv, decisionLevel
<1>. DEFINE n == IF lev < decisionLevel THEN lev ELSE decisionLevel
<1>2. n \in 0 .. Len(trail_lim) /\ trail_lim' = SubSeq(trail_lim, 1, n)
  BY <1>1 DEF Backtrack
<1>3. /\ trail_lim' \in Seq(Nat) /\ DOMAIN trail_lim' = 1 .. n
      /\ \A i \in 1 .. n : trail_lim'[i] = trail_lim[i]
  BY <1>1, <1>2
<1>4. \A i \in 1 .. n : trail_lim[i] <= LimitOf(lev)
  <2>1. SUFFICES ASSUME NEW i \in 1 .. n  PROVE trail_lim[i] <= LimitOf(lev)
    OBVIOUS
  <2>2. CASE lev < decisionLevel
    <3>1. lev + 1 \in DOMAIN trail_lim /\ i \in DOMAIN trail_lim /\ i <= lev + 1
      BY <1>1, <2>1, <2>2
    <3>. QED
      BY <2>2, <3>1 DEF OrderInv, LimitsInv, LimitOf
  <2>3. CASE ~ lev < decisionLevel
    BY <1>1, <2>1, <2>3 DEF OrderInv, LimitsInv, LimitOf
  <2>. QED
    BY <2>2, <2>3
<1>5. \A i, j \in 1 .. n : i <= j => trail_lim[i] <= trail_lim[j]
  BY <1>1, <1>2 DEF OrderInv, LimitsInv
<1>. QED
  BY <1>3, <1>4, <1>5

\* Variables that are taken off the trail are in the heap afterwards.
LEMMA CancelledInHeap ==
    ASSUME OrderInv, NEW lev \in Nat, Backtrack(lev), UNCHANGED <<decision, nVars>>,
           NEW v \in 1 .. nVars, decision[v],
           \A i \in 1 .. LimitOf(lev) : trail[i].lit # v /\ trail[i].lit # -v
    PROVE  v \in order_heap'
<1>1. order_heap' = order_heap \cup {w \in {var(l) : l \in Cancelled(lev)} : decision[w]}
  BY DEF Backtrack
<1>2. IsSeq(trail) /\ Len(trail) \in Nat /\ DOMAIN trail = 1 .. Len(trail)
  BY IsSeqLen DEF OrderInv, TrailInv
<1>3. LimitOf(lev) \in 0 .. Len(trail)
  BY KeptPart
<1>4. CASE isUndef(v)
  BY <1>1, <1>4 DEF OrderInv, OrderComplete
<1>5. CASE ~ isUndef(v)
  <2>1. PICK i \in DOMAIN trail : trail[i].lit = v \/ trail[i].lit = -v
    BY <1>5 DEF isUndef, isFalse, isTrue
  <2>2. i \in LimitOf(lev) + 1 .. Len(trail)
    BY <1>2, <1>3, <2>1
  <2>3. trail[i].lit \in Cancelled(lev)
    BY <2>2 DEF Cancelled
  <2>4. nVars \in Nat
    BY DEF OrderInv, VarsInv
  <2>5. var(trail[i].lit) = v
    BY <2>1, <2>4 DEF var
  <2>. QED
    BY <1>1, <2>3, <2>5
<1>. QED
  BY <1>4, <1>5

\* A jump back, after which a learnt literal may be enqueued.
LEMMA ShortenedKeepsOrder ==
    ASSUME OrderInv, NEW lev \in Nat, Backtrack(lev), UNCHANGED <<decision, nVars>>,
           IsSeq(trail'), NEW e, e = Enqueued(e.lit, e.level, e.reason),
           Len(trail') >= LimitOf(lev),
           \A i \in 1 .. LimitOf(lev) : trail'[i] = trail[i],
           \A i \in LimitOf(lev) + 1 .. Len(trail') : trail'[i] = e
    PROVE  OrderInv'
<1>. DEFINE n == LimitOf(lev)
<1>1. Len(trail) \in Nat /\ DOMAIN trail = 1 .. Len(trail) /\ n \in 0 .. Len(trail)
  BY IsSeqLen, KeptPart DEF OrderInv, TrailInv
<1>2. Len(trail') \in Nat /\ DOMAIN trail' = 1 .. Len(trail')
  BY IsSeqLen
<1>3. /\ Len(trail') >= n
      /\ \A i \in 1 .. n : trail'[i] = trail[i] /\ i \in DOMAIN trail /\ i \in DOMAIN trail'
      /\ \A i \in DOMAIN trail' : i \in 1 .. n \/ trail'[i] = e
  BY <1>1, <1>2
<1>4. TrailInv'
  <2>1. SUFFICES ASSUME NEW i \in DOMAIN trail'
                 PROVE  trail'[i] = Enqueued(trail'[i].lit, trail'[i].level, trail'[i].reason)
    BY DEF TrailInv
  <2>2. CASE i \in 1 .. n
    BY <1>3, <2>2 DEF OrderInv, TrailInv
  <2>. QED
    BY <1>3, <2>2
<1>5. LimitsInv'
  <2>1. \A i \in DOMAIN trail_lim' : trail_lim'[i] \in Nat /\ trail_lim'[i] <= n
    BY KeptLimits
  <2>2. \A i \in DOMAIN trail_lim' : trail_lim'[i] <= Len(trail')
    BY <1>1, <1>2, <1>3, <2>1
  <2>. QED
    BY <2>2, KeptLimits DEF LimitsInv
<1>6. VarsInv'
  BY DEF OrderInv, VarsInv
<1>7. OrderComplete'
  <2>1. SUFFICES ASSUME NEW v \in (1 .. nVars)', decision[v]', isUndef(v)'
                 PROVE  v \in order_heap'
    BY DEF OrderComplete
  <2>2. \A i \in 1 .. n : trail[i].lit # v /\ trail[i].lit # -v
    BY <1>3, <2>1 DEF isUndef, isFalse, isTrue
  <2>. QED
    BY <2>1, <2>2, CancelledInHeap
<1>. QED
  BY <1>4, <1>5, <1>6, <1>7 DEF OrderInv

\* A jump back keeps the heap complete,
LEMMA CancelKeepsOrder ==
    ASSUME OrderInv, NEW lev \in Nat, Backtrack(lev), UNCHANGED <<decision, nVars>>,
           trail' = Kept(lev)
    PROVE  OrderInv'
<1>. DEFINE e == Enqueued(0, 0, 0)
<1>1. e = Enqueued(e.lit, e.level, e.reason)
  BY DEF Enqueued
<1>. HIDE DEF e
<1>2. IsSeq(trail') /\ Len(trail') = LimitOf(lev) /\ LimitOf(lev) \in Nat
  BY KeptPart
<1>3. \A i \in 1 .. LimitOf(lev) : trail'[i] = trail[i]
  BY KeptPart
<1>4. Len(trail') >= LimitOf(lev) /\ LimitOf(lev) + 1 .. Len(trail') = {}
  BY <1>2
<1>. QED
  BY <1>1, <1>2, <1>3, <1>4, ShortenedKeepsOrder

\* and so it does when the literal learnt follows,
LEMMA LearnKeepsOrder ==
    ASSUME OrderInv, NEW lev \in Nat, Backtrack(lev), UNCHANGED <<decision, nVars>>,
           NEW l, NEW k, NEW from, trail' = Append(Kept(lev), Enqueued(l, k, from))
    PROVE  OrderInv'
<1>. DEFINE e == Enqueued(l, k, from)
            s == Kept(lev)
<1>1. e = Enqueued(e.lit, e.level, e.reason)
  BY DEF Enqueued
<1>2. /\ IsSeq(s) /\ Len(s) = LimitOf(lev) /\ Len(s) \in Nat
      /\ \A i \in 1 .. LimitOf(lev) : s[i] = trail[i]
  BY KeptPart
<1>3. trail' = Append(s, e)
  OBVIOUS
<1>. HIDE DEF e, s
<1>4. /\ IsSeq(trail') /\ Len(trail') = Len(s) + 1
      /\ \A i \in 1 .. Len(s) : trail'[i] = s[i]
      /\ trail'[Len(s) + 1] = e
  <2>1. /\ IsSeq(Append(s, e)) /\ Len(Append(s, e)) = Len(s) + 1
        /\ \A i \in 1 .. Len(s) : Append(s, e)[i] = s[i]
        /\ Append(s, e)[Len(s) + 1] = e
    BY <1>2, AppendIsSeq
  <2>. QED
    BY <1>3, <2>1
<1>5. /\ Len(trail') >= LimitOf(lev)
      /\ \A i \in 1 .. LimitOf(lev) : trail'[i] = trail[i]
      /\ \A i \in LimitOf(lev) + 1 .. Len(trail') : trail'[i] = e
  BY <1>2, <1>4
<1>. QED
  BY <1>1, <1>4, <1>5, ShortenedKeepsOrder

\* and so does what leaves trail, heap and variables alone.
LEMMA SameKeepsOrder ==
    ASSUME OrderInv, UNCHANGED heapvars
    PROVE  OrderInv'
<1>. USE DEF heapvars
<1>1. TrailInv' /\ LimitsInv' /\ VarsInv'
  BY DEF OrderInv, TrailInv, LimitsInv, VarsInv
<1>2. OrderComplete'
  BY DEF OrderInv, OrderComplete, isUndef, isFalse, isTrue
<1>. QED
  BY <1>1, <1>2 DEF OrderInv

\* Reasons may be forgotten, and the heap be built anew.
LEMMA UnreasonKeepsOrder ==
    ASSUME OrderInv, NEW rs, trail' = Unreasoned(rs), UNCHANGED <<trail_lim, decision, nVars>>,
           order_heap' = order_heap \/ order_heap' = {v \in 1 .. nVars : decision[v] /\ isUndef(v)}
    PROVE  OrderInv'
<1>1. IsSeq(trail) /\ Len(trail) \in Nat /\ DOMAIN trail = 1 .. Len(trail)
  BY IsSeqLen DEF OrderInv, TrailInv
<1>. DEFINE freed == {var(lits(cr)[1]) : cr \in {c \in rs : locked(c)}}
<1>2. trail' = [i \in DOMAIN trail |-> IF var(trail[i].lit) \in freed
                                       THEN [trail[i] EXCEPT !.reason = CRef_Undef] ELSE trail[i]]
  BY DEF Unreasoned
<1>. HIDE DEF freed
<1>3. \A i \in DOMAIN trail :
        /\ trail'[i] = Enqueued(trail'[i].lit, trail'[i].level, trail'[i].reason)
        /\ trail'[i].lit = trail[i].lit
  <2>1. SUFFICES ASSUME NEW i \in DOMAIN trail
                 PROVE  /\ trail'[i] = Enqueued(trail'[i].lit, trail'[i].level, trail'[i].reason)
                        /\ trail'[i].lit = trail[i].lit
    OBVIOUS
  <2>2. trail[i] = Enqueued(trail[i].lit, trail[i].level, trail[i].reason)
    BY DEF OrderInv, TrailInv
  <2>3. CASE trail'[i] = trail[i]
    BY <2>2, <2>3
  <2>4. CASE trail'[i] = [trail[i] EXCEPT !.reason = CRef_Undef]
    <3>1. trail'[i] = Enqueued(trail[i].lit, trail[i].level, CRef_Undef)
      BY <2>2, <2>4 DEF Enqueued
    <3>. QED
      BY <3>1 DEF Enqueued
  <2>. QED
    BY <1>2, <2>3, <2>4
<1>4. DOMAIN trail' = 1 .. Len(trail)
  BY <1>1, <1>2
<1>5. IsSeq(trail') /\ Len(trail') = Len(trail)
  BY <1>1, <1>2 DEF IsSeq
<1>6. TrailInv'
  BY <1>1, <1>3, <1>4, <1>5 DEF TrailInv
<1>7. LimitsInv' /\ VarsInv'
  BY <1>5 DEF OrderInv, LimitsInv, VarsInv
<1>8. \A v \in 1 .. nVars : isUndef(v)' => isUndef(v)
  BY <1>1, <1>3, <1>4 DEF isUndef, isFalse, isTrue
<1>9. OrderComplete'
  BY <1>8 DEF OrderInv, OrderComplete
<1>. QED
  BY <1>6, <1>7, <1>9 DEF OrderInv

\* Every step keeps the heap complete.
LEMMA OrderStep ==
    OrderInv /\ [Next]_svars => OrderInv'
<1>. SUFFICES ASSUME OrderInv, [Next]_svars  PROVE OrderInv'
  OBVIOUS
<1>. USE DEF heapvars, assignment, result, user, schedule, restarts, database
<1>1. CASE newVar
  <2>1. UNCHANGED <<trail, trail_lim>> /\ nVars' = nVars + 1 /\ nVars < MaxVars
    BY <1>1 DEF newVar
  <2>2. TrailInv' /\ LimitsInv'
    BY <2>1 DEF OrderInv, TrailInv, LimitsInv
  <2>3. VarsInv'
    BY <1>1, <2>1, MaxVarsAssumption DEF OrderInv, VarsInv, newVar
  <2>4. OrderComplete'
    <3>1. SUFFICES ASSUME NEW v \in (1 .. nVars)', decision[v]', isUndef(v)'
                   PROVE  v \in order_heap'
      BY DEF OrderComplete
    <3>2. nVars \in Nat /\ nVars + 1 \in Vars /\ 1 .. nVars \subseteq Vars
      BY <2>1, MaxVarsAssumption DEF OrderInv, VarsInv, Vars
    <3>3. CASE v = nVars + 1
      BY <1>1, <3>1, <3>2, <3>3 DEF newVar, OrderInv, VarsInv
    <3>4. CASE v # nVars + 1
      <4>1. v \in 1 .. nVars /\ isUndef(v)
        BY <2>1, <3>1, <3>2, <3>4 DEF isUndef, isFalse, isTrue
      <4>2. decision[v]
        BY <1>1, <3>1, <3>2, <3>4, <4>1 DEF newVar, OrderInv, VarsInv
      <4>. QED
        BY <1>1, <4>1, <4>2 DEF newVar, OrderInv, OrderComplete
    <3>. QED
      BY <3>3, <3>4
  <2>. QED
    BY <2>2, <2>3, <2>4 DEF OrderInv
<1>2. CASE addClause
  <2>. DEFINE q == Sorted(Unassigned(call.lits))[1]
  <2>1. UNCHANGED <<trail_lim, order_heap, decision, nVars>>
    BY <1>2 DEF addClause, addClauseThen, UnchangedByAdd
  <2>2. UNCHANGED trail \/ trail' = Append(trail, Enqueued(q, decisionLevel, CRef_Undef))
    BY <1>2 DEF addClause, addClauseThen, addClause_, uncheckedEnqueue
  <2>. QED
    BY <2>1, <2>2, SameKeepsOrder, EnqueueKeepsOrder
<1>3. CASE callSimplify \/ solve \/ interrupt
  <2>1. UNCHANGED heapvars
    BY <1>3 DEF callSimplify, solve, interrupt
  <2>. QED
    BY <2>1, SameKeepsOrder
<1>4. CASE Added \/ CheckGarbage
  <2>1. UNCHANGED heapvars
    BY <1>4 DEF Added, CheckGarbage
  <2>. QED
    BY <2>1, SameKeepsOrder
<1>5. CASE Return
  <2>1. /\ trail' = Kept(0) /\ Backtrack(0)
        /\ UNCHANGED <<decision, nVars>>
    BY <1>5 DEF Return, Returned, cancelUntil
  <2>. QED
    BY <2>1, CancelKeepsOrder
<1>6. CASE Propagate
  <2>1. UNCHANGED <<trail_lim, order_heap, decision, nVars>>
    BY <1>6 DEF Propagate, Dequeue, Propagated, VisitBinary, StartLong, SkipClause, MoveWatch,
                KeepWatch, EndLong, UnchangedByPropagate
  <2>2. CASE UNCHANGED trail
    BY <2>1, <2>2, SameKeepsOrder
  <2>3. CASE VisitBinary
    <3>. DEFINE w == Head(visiting.todo)
    <3>1. UNCHANGED trail \/ trail' = Append(trail, Enqueued(w.blocker, decisionLevel, w.cref))
      BY <2>3 DEF VisitBinary, uncheckedEnqueue
    <3>. QED
      BY <2>1, <2>2, <3>1, EnqueueKeepsOrder
  <2>4. CASE KeepWatch
    <3>. DEFINE w == Head(visiting.todo)
    <3>1. \/ UNCHANGED trail
          \/ trail' = Append(trail, Enqueued(Turned(w.cref)[1], decisionLevel, w.cref))
      BY <2>4 DEF KeepWatch, uncheckedEnqueue
    <3>. QED
      BY <2>1, <2>2, <3>1, EnqueueKeepsOrder
  <2>5. UNCHANGED trail \/ VisitBinary \/ KeepWatch
    BY <1>6 DEF Propagate, Dequeue, Propagated, StartLong, SkipClause, MoveWatch, EndLong
  <2>. QED
    BY <2>2, <2>3, <2>4, <2>5
<1>7. CASE SearchConflict \/ Analyze \/ Minimise \/ litRedundant \/ Shorten
  <2>1. UNCHANGED heapvars
    BY <1>7 DEF SearchConflict, Analyze, Minimise, litRedundant, Shorten, UnchangedByAnalyze
  <2>. QED
    BY <2>1, SameKeepsOrder
<1>8. CASE Learn
  <2>1. PICK bt \in 0 .. decisionLevel :
           /\ Backtrack(bt)
           /\ \/ trail' = Append(Kept(bt), Enqueued(an.out[1], bt, CRef_Undef))
              \/ \E cr \in CRefs : trail' = Append(Kept(bt), Enqueued(an.out[1], bt, cr))
    BY <1>8 DEF Learn
  <2>2. UNCHANGED <<decision, nVars>>
    BY <1>8 DEF Learn
  <2>. QED
    BY <2>1, <2>2, LearnKeepsOrder
<1>9. CASE Restart
  <2>1. /\ trail' = Kept(0) /\ Backtrack(0)
        /\ UNCHANGED <<decision, nVars>>
    BY <1>9 DEF Restart, cancelUntil
  <2>. QED
    BY <2>1, CancelKeepsOrder
<1>10. CASE NoConflict \/ SimplifyReturns \/ KeepLearnts \/ NothingToReduce \/ reduceDB
  <2>1. UNCHANGED heapvars
    BY <1>10 DEF NoConflict, SimplifyReturns, KeepLearnts, NothingToReduce, reduceDB
  <2>. QED
    BY <2>1, SameKeepsOrder
<1>11. CASE Simplify
  <2>1. \E rs : trail' = Unreasoned(rs)
    BY <1>11 DEF Simplify, removeClauses
  <2>2. /\ UNCHANGED <<trail_lim, decision, nVars>>
        /\ order_heap' = {v \in 1 .. nVars : decision[v] /\ isUndef(v)}
    BY <1>11 DEF Simplify
  <2>. QED
    BY <2>1, <2>2, UnreasonKeepsOrder
<1>12. CASE AssumptionFails \/ AnalyzeFinal \/ FinalAnalyzed
  <2>1. UNCHANGED heapvars
    BY <1>12 DEF AssumptionFails, AnalyzeFinal, FinalAnalyzed, UnchangedByDecide
  <2>. QED
    BY <2>1, SameKeepsOrder
<1>13. CASE DummyLevel
  <2>1. /\ trail_lim' = Append(trail_lim, Len(trail))
        /\ UNCHANGED <<trail, order_heap, decision, nVars>>
    BY <1>13 DEF DummyLevel, newDecisionLevel, UnchangedByDecide
  <2>2. TrailInv' /\ VarsInv'
    BY <2>1 DEF OrderInv, TrailInv, VarsInv
  <2>3. LimitsInv'
    <3>1. Len(trail) \in Nat
      BY IsSeqLen DEF OrderInv, TrailInv
    <3>. QED
      BY <2>1, <3>1 DEF OrderInv, LimitsInv
  <2>4. OrderComplete'
    BY <2>1 DEF OrderInv, OrderComplete, isUndef, isFalse, isTrue
  <2>. QED
    BY <2>2, <2>3, <2>4 DEF OrderInv
<1>14. CASE Assume
  <2>1. /\ trail_lim' = Append(trail_lim, Len(trail))
        /\ trail' = Append(trail, Enqueued(Assumed, decisionLevel + 1, CRef_Undef))
        /\ UNCHANGED <<order_heap, decision, nVars>>
    BY <1>14 DEF Assume, Decided, newDecisionLevel, UnchangedByDecide
  <2>. QED
    BY <2>1, EnqueueKeepsOrder
<1>15. CASE PickBranchLit
  <2>1. UNCHANGED <<decision, nVars>>
    BY <1>15 DEF PickBranchLit, UnchangedByDecide
  <2>2. PICK w \in Candidates, stale \in SUBSET (order_heap \ Candidates) :
           order_heap' = order_heap \ (stale \cup {w}) /\ Decided(mkLit(w, polarity[w]))
    BY <1>15 DEF PickBranchLit
  <2>. DEFINE l == mkLit(w, polarity[w])
  <2>3. /\ trail_lim' = Append(trail_lim, Len(trail))
        /\ trail' = Append(trail, Enqueued(l, decisionLevel + 1, CRef_Undef))
    BY <2>2 DEF Decided, newDecisionLevel
  <2>4. \A v \in order_heap : decision[v] /\ isUndef(v) /\ v # l /\ -v # l => v \in order_heap'
    <3>1. l = w \/ l = -w
      BY DEF mkLit
    <3>. QED
      BY <2>2, <3>1 DEF Candidates
  <2>. QED
    BY <2>1, <2>3, <2>4, EnqueueKeepsOrder
<1>16. CASE ModelFound
  <2>1. Candidates = {} /\ UNCHANGED <<trail, trail_lim, decision, nVars>>
    BY <1>16 DEF ModelFound, UnchangedByDecide
  <2>2. TrailInv' /\ LimitsInv' /\ VarsInv'
    BY <2>1 DEF OrderInv, TrailInv, LimitsInv, VarsInv
  <2>3. OrderComplete'
    BY <2>1 DEF OrderInv, OrderComplete, Candidates, isUndef, isFalse, isTrue
  <2>. QED
    BY <2>2, <2>3 DEF OrderInv
<1>17. CASE UNCHANGED svars
  <2>1. UNCHANGED heapvars
    BY <1>17 DEF svars
  <2>. QED
    BY <2>1, SameKeepsOrder
<1>. QED
  BY <1>1, <1>2, <1>3, <1>4, <1>5, <1>6, <1>7, <1>8, <1>9, <1>10, <1>11, <1>12, <1>13, <1>14,
     <1>15, <1>16, <1>17 DEF Next, Step, User, Search

\* Spec never loses a variable that is still to be decided, whatever the order of
\* decisions, restarts, jumps back and simplifications.
THEOREM HeapComplete == Spec => []OrderComplete
<1>1. Init => OrderInv
  <2>1. SUFFICES ASSUME Init  PROVE OrderInv
    OBVIOUS
  <2>2. TrailInv /\ LimitsInv
    BY <2>1 DEF Init, InitWith, TrailInv, LimitsInv, IsSeq
  <2>3. VarsInv /\ OrderComplete
    BY <2>1, MaxVarsAssumption DEF Init, InitWith, VarsInv, OrderComplete
  <2>. QED
    BY <2>2, <2>3 DEF OrderInv
<1>2. OrderInv /\ [Next]_svars => OrderInv'
  BY OrderStep
<1>3. OrderInv => OrderComplete
  BY DEF OrderInv
<1>. QED
  BY <1>1, <1>2, <1>3, PTL DEF Spec

-----------------------------------------------------------------------------
(***************************************************************************)
(* The clauses in use.  ClausesLive is inductive together with the shape   *)
(* of the clauses and with what separates the two lists: reduceDB marks    *)
(* learnt clauses only.                                                    *)
(***************************************************************************)
\* A clause keeps its other fields when one changes.
LEMMA ClauseEXCEPT ==
    ASSUME NEW c, IsClause(c), NEW x
    PROVE  /\ IsClause([c EXCEPT !.lits = x]) /\ [c EXCEPT !.lits = x].mark = c.mark
           /\ IsClause([c EXCEPT !.lbd = x]) /\ [c EXCEPT !.lbd = x].mark = c.mark
           /\ IsClause([c EXCEPT !.canBeDel = x]) /\ [c EXCEPT !.canBeDel = x].mark = c.mark
BY DEF IsClause

\* A rated clause is a clause with the same mark.
LEMMA RatedIsClause ==
    ASSUME NEW c, IsClause(c), NEW n
    PROVE  IsClause(Rated(c, n)) /\ Rated(c, n).mark = c.mark
<1>. DEFINE f == IF c.lbd <= LbLBDFrozenClause THEN FALSE ELSE c.canBeDel
            d == [c EXCEPT !.lbd = n]
<1>1. IsClause(d) /\ d.mark = c.mark
  BY ClauseEXCEPT
<1>2. IsClause([d EXCEPT !.canBeDel = f]) /\ [d EXCEPT !.canBeDel = f].mark = d.mark
  BY <1>1, ClauseEXCEPT
<1>3. Rated(c, n) = c \/ Rated(c, n) = [d EXCEPT !.canBeDel = f]
  BY DEF Rated, IsClause
<1>. QED
  BY <1>1, <1>2, <1>3

\* Steps that change what is in a clause.
LEMMA RewriteKeepsUse ==
    ASSUME UseInv, UNCHANGED <<clauses, learnts>>, NEW d, NEW c,
           ca' = [ca EXCEPT ![d] = c],
           d \in DOMAIN ca /\ IsClause(ca[d]) => IsClause(c) /\ c.mark = ca[d].mark
    PROVE  UseInv'
BY DEF UseInv, InUse

\* Steps that add a clause.
LEMMA AllocKeepsUse ==
    ASSUME UseInv, NEW cr, Fresh(cr), NEW ps, NEW learnt, NEW lbd,
           ca' = alloc(cr, ps, learnt, lbd),
           \/ clauses' = clauses \cup {cr} /\ UNCHANGED learnts
           \/ learnts' = learnts \cup {cr} /\ UNCHANGED clauses
    PROVE  UseInv'
<1>1. cr \notin clauses \cup learnts
  BY DEF UseInv, InUse, Fresh
<1>2. \A c \in clauses \cup learnts : c \in DOMAIN ca' /\ ca'[c] = ca[c]
  BY <1>1 DEF UseInv, InUse, alloc
<1>3. cr \in DOMAIN ca' /\ IsClause(ca'[cr]) /\ ca'[cr].mark = 0
  BY DEF alloc, IsClause
<1>. QED
  BY <1>1, <1>2, <1>3 DEF UseInv, InUse

\* Every step keeps the clauses in use in memory and unmarked.
LEMMA UseStep ==
    UseInv /\ [Next]_svars => UseInv'
<1>. SUFFICES ASSUME UseInv, [Next]_svars  PROVE UseInv'
  OBVIOUS
<1>. USE DEF database
<1>1. CASE UNCHANGED <<ca, clauses, learnts>>
  BY <1>1 DEF UseInv, InUse
<1>2. CASE newVar \/ callSimplify \/ solve \/ interrupt
  BY <1>1, <1>2 DEF newVar, callSimplify, solve, interrupt
<1>3. CASE addClause
  <2>. DEFINE qs == Sorted(Unassigned(call.lits))
  <2>1. \/ UNCHANGED <<ca, clauses, learnts>>
        \/ /\ \E cr \in CRefs : /\ Fresh(cr) /\ ca' = alloc(cr, qs, FALSE, 0)
                                /\ clauses' = clauses \cup {cr}
           /\ UNCHANGED learnts
    BY <1>3 DEF addClause, addClauseThen, addClause_
  <2>. QED
    BY <1>1, <2>1, AllocKeepsUse
<1>4. CASE Added \/ Return
  BY <1>1, <1>4 DEF Added, Return, Returned
<1>5. CASE Propagate
  <2>1. UNCHANGED <<clauses, learnts>>
    BY <1>5 DEF Propagate, Dequeue, Propagated, VisitBinary, StartLong, SkipClause, MoveWatch,
                KeepWatch, EndLong, UnchangedByPropagate
  <2>2. UNCHANGED ca \/ \E d, ps : ca' = [ca EXCEPT ![d].lits = ps]
    BY <1>5 DEF Propagate, Dequeue, Propagated, VisitBinary, StartLong, SkipClause, MoveWatch,
                KeepWatch, EndLong
  <2>3. CASE \E d, ps : ca' = [ca EXCEPT ![d].lits = ps]
    BY <2>1, <2>3, RewriteKeepsUse, ClauseEXCEPT
  <2>. QED
    BY <1>1, <2>1, <2>2, <2>3
<1>6. CASE Analyze
  <2>1. PICK ps : ca' = [ca EXCEPT ![confl] = Rated([@ EXCEPT !.lits = ps], computeLBD(ps))]
    BY <1>6 DEF Analyze
  <2>2. UNCHANGED <<clauses, learnts>>
    BY <1>6 DEF Analyze, UnchangedByAnalyze
  <2>. DEFINE c == [ca[confl] EXCEPT !.lits = ps]
              r == Rated(c, computeLBD(ps))
  <2>3. ASSUME IsClause(ca[confl])  PROVE IsClause(r) /\ r.mark = ca[confl].mark
    <3>1. IsClause(c) /\ c.mark = ca[confl].mark
      BY <2>3, ClauseEXCEPT
    <3>. HIDE DEF c
    <3>. QED
      BY <3>1, RatedIsClause
  <2>4. ca' = [ca EXCEPT ![confl] = r]
    BY <2>1
  <2>. HIDE DEF r
  <2>. QED
    BY <2>2, <2>3, <2>4, RewriteKeepsUse
<1>7. CASE litRedundant
  <2>1. UNCHANGED ca \/ \E d, ps : ca' = [ca EXCEPT ![d].lits = ps]
    BY <1>7 DEF litRedundant
  <2>2. UNCHANGED <<clauses, learnts>>
    BY <1>7 DEF litRedundant, UnchangedByAnalyze
  <2>3. CASE \E d, ps : ca' = [ca EXCEPT ![d].lits = ps]
    BY <2>2, <2>3, RewriteKeepsUse, ClauseEXCEPT
  <2>. QED
    BY <1>1, <2>1, <2>2, <2>3
<1>8. CASE SearchConflict \/ Minimise \/ Shorten
  BY <1>1, <1>8 DEF SearchConflict, Minimise, Shorten, UnchangedByAnalyze
<1>9. CASE Learn
  <2>1. \/ UNCHANGED <<ca, clauses, learnts>>
        \/ /\ \E cr \in CRefs : /\ Fresh(cr) /\ ca' = alloc(cr, an.out, TRUE, an.lbd)
                                /\ learnts' = learnts \cup {cr}
           /\ UNCHANGED clauses
    BY <1>9 DEF Learn
  <2>. QED
    BY <1>1, <2>1, AllocKeepsUse
<1>10. CASE Restart \/ NoConflict \/ SimplifyReturns \/ KeepLearnts \/ NothingToReduce
  BY <1>1, <1>10 DEF Restart, NoConflict, SimplifyReturns, KeepLearnts, NothingToReduce
<1>11. CASE Simplify
  <2>1. PICK gone : /\ ca' = Marked(gone)
                    /\ learnts' = learnts \ gone /\ clauses' = clauses \ gone
    BY <1>11 DEF Simplify, removeClauses
  <2>2. \A cr \in clauses' \cup learnts' : cr \in DOMAIN ca' /\ ca'[cr] = ca[cr]
    BY <2>1 DEF Marked, UseInv, InUse
  <2>. QED
    BY <2>1, <2>2 DEF UseInv, InUse
<1>12. CASE CheckGarbage
  <2>1. UNCHANGED <<clauses, learnts>>
    BY <1>12 DEF CheckGarbage
  <2>2. CASE ca' = [cr \in Reloced(clauses) |-> ca[cr]]
    <3>1. \A cr \in clauses \cup learnts : cr \in DOMAIN ca' /\ ca'[cr] = ca[cr]
      BY <2>2 DEF Reloced
    <3>. QED
      BY <2>1, <3>1 DEF UseInv, InUse
  <2>. QED
    BY <1>1, <1>12, <2>1, <2>2 DEF CheckGarbage
<1>13. CASE reduceDB
  <2>1. PICK gone :
           /\ learnts' = learnts \ gone
           /\ ca' = [cr \in DOMAIN ca |-> IF cr \in gone THEN [ca[cr] EXCEPT !.mark = 1]
                                          ELSE IF cr \in learnts THEN [ca[cr] EXCEPT !.canBeDel = TRUE]
                                          ELSE ca[cr]]
           /\ gone \cap clauses = {} /\ clauses' = clauses
    <3>1. PICK order \in SetToSeqs(learnts) :
             LET gone == Removable(order) IN
             /\ learnts' = learnts \ gone
             /\ ca' = [cr \in DOMAIN ca |-> IF cr \in gone THEN [ca[cr] EXCEPT !.mark = 1]
                                            ELSE IF cr \in learnts THEN [ca[cr] EXCEPT !.canBeDel = TRUE]
                                            ELSE ca[cr]]
      BY <1>13 DEF reduceDB
    <3>2. \A i \in DOMAIN order : order[i] \in learnts
      BY <3>1 DEF SetToSeqs
    <3>3. Removable(order) \cap clauses = {}
      BY <3>2 DEF Removable, UseInv
    <3>4. clauses' = clauses
      BY <1>13 DEF reduceDB
    <3>. QED
      BY <3>1, <3>3, <3>4
  <2>2. \A cr \in clauses' : cr \in DOMAIN ca' /\ ca'[cr] = ca[cr]
    BY <2>1 DEF UseInv, InUse
  <2>3. \A cr \in learnts' : cr \in DOMAIN ca' /\ ca'[cr] = [ca[cr] EXCEPT !.canBeDel = TRUE]
    BY <2>1 DEF UseInv, InUse
  <2>4. \A cr \in clauses' \cup learnts' : InUse(cr)'
    <3>1. \A cr \in clauses' : InUse(cr)'
      BY <2>1, <2>2 DEF UseInv, InUse
    <3>2. \A cr \in learnts' : IsClause(ca[cr]) /\ ca[cr].mark = 0
      BY <2>1 DEF UseInv, InUse
    <3>3. \A cr \in learnts' : IsClause(ca'[cr]) /\ ca'[cr].mark = 0
      <4>1. SUFFICES ASSUME NEW cr \in learnts'
                     PROVE  IsClause(ca'[cr]) /\ ca'[cr].mark = 0
        OBVIOUS
      <4>2. ca'[cr] = [ca[cr] EXCEPT !.canBeDel = TRUE]
        BY <2>3
      <4>3. IsClause(ca[cr]) /\ ca[cr].mark = 0
        BY <3>2
      <4>4. /\ IsClause([ca[cr] EXCEPT !.canBeDel = TRUE])
            /\ [ca[cr] EXCEPT !.canBeDel = TRUE].mark = 0
        BY <4>3, ClauseEXCEPT
      <4>. QED
        BY <4>2, <4>4
    <3>. QED
      BY <2>3, <3>1, <3>3 DEF InUse
  <2>. QED
    BY <2>1, <2>4 DEF UseInv
<1>14. CASE DummyLevel \/ Assume \/ AssumptionFails \/ AnalyzeFinal \/ FinalAnalyzed
            \/ PickBranchLit \/ ModelFound
  BY <1>1, <1>14 DEF DummyLevel, Assume, AssumptionFails, AnalyzeFinal, FinalAnalyzed,
                     PickBranchLit, ModelFound, UnchangedByDecide
<1>15. CASE UNCHANGED svars
  BY <1>1, <1>15 DEF svars
<1>. QED
  BY <1>2, <1>3, <1>4, <1>5, <1>6, <1>7, <1>8, <1>9, <1>10, <1>11, <1>12, <1>13, <1>14, <1>15
     DEF Next, Step, User, Search

\* No clause in use is marked as deleted or freed: by simplify, by a reduction, or
\* by garbage collection.
THEOREM ClausesStayLive == Spec => []ClausesLive
<1>1. Init => UseInv
  BY DEF Init, InitWith, UseInv
<1>2. UseInv /\ [Next]_svars => UseInv'
  BY UseStep
<1>3. UseInv => ClausesLive
  BY DEF UseInv, InUse, ClausesLive, Live
<1>. QED
  BY <1>1, <1>2, <1>3, PTL DEF Spec

-----------------------------------------------------------------------------
(***************************************************************************)
(* What the operators of the solver return: literals, members of a set in  *)
(* order, and sequences that are sorted, swapped or thinned out.           *)
(***************************************************************************)

\* The n-th of a finite set of integers is one of them, each of them is the n-th
\* for one n, and they come in order.
LEMMA NthFacts ==
    ASSUME NEW I, I \subseteq Int, IsFiniteSet(I)
    PROVE  /\ Cardinality(I) \in Nat
           /\ \A n \in 1 .. Cardinality(I) : Nth(I, n) \in I
           /\ \A i \in I : /\ Cardinality({j \in I : j < i}) + 1 \in 1 .. Cardinality(I)
                           /\ Nth(I, Cardinality({j \in I : j < i}) + 1) = i
           /\ \A n, m \in 1 .. Cardinality(I) : n < m => Nth(I, n) < Nth(I, m)
<1>. DEFINE c == Cardinality(I)
            pre(x) == {y \in I : y < x}
            rk(x) == Cardinality(pre(x))
            rank == [x \in I |-> rk(x) + 1]
<1>1. c \in Nat
  BY FS_CardinalityType
<1>2. \A x \in I : IsFiniteSet(pre(x)) /\ rk(x) \in Nat
  <2>1. \A x \in I : IsFiniteSet(pre(x))
    BY FS_Subset
  <2>. QED
    BY <2>1, FS_CardinalityType
<1>3. \A x \in I : rk(x) <= c - 1
  <2>1. TAKE x \in I
  <2>2. pre(x) \subseteq I \ {x}
    OBVIOUS
  <2>3. IsFiniteSet(I \ {x}) /\ Cardinality(I \ {x}) = c - 1
    BY <1>1, FS_RemoveElement
  <2>. HIDE DEF pre
  <2>. QED
    BY <1>1, <2>2, <2>3, FS_Subset
<1>4. \A x, y \in I : x < y => rk(x) < rk(y)
  <2>1. SUFFICES ASSUME NEW x \in I, NEW y \in I, x < y
                 PROVE  rk(x) < rk(y)
    OBVIOUS
  <2>2. pre(x) \subseteq pre(y)
    <3>1. x \in Int /\ y \in Int /\ \A z \in I : z \in Int
      OBVIOUS
    <3>2. \A z \in I : z < x => z < y
      BY <2>1, <3>1
    <3>. QED
      BY <3>2
  <2>3. x \in pre(y) /\ x \notin pre(x)
    BY <2>1
  <2>4. IsFiniteSet(pre(y)) /\ pre(x) # pre(y)
    BY <1>2, <2>3
  <2>5. rk(x) \in Nat /\ rk(y) \in Nat
    BY <1>2
  <2>. HIDE DEF pre
  <2>. QED
    BY <2>2, <2>4, <2>5, FS_Subset
<1>. HIDE DEF pre, rk
<1>5. \A x, y \in I : rk(x) = rk(y) => x = y
  BY <1>2, <1>4
<1>6. rank \in Injection(I, 1 .. c)
  <2>1. rank \in [I -> 1 .. c]
    BY <1>1, <1>2, <1>3
  <2>2. \A x, y \in I : rank[x] = rank[y] => x = y
    BY <1>2, <1>5
  <2>. HIDE DEF rank
  <2>. QED
    BY <2>1, <2>2, Fun_IsInj
<1>7. \A n \in 1 .. c : \E x \in I : rank[x] = n
  <2>1. IsFiniteSet(1 .. c) /\ Cardinality(1 .. c) = c
    BY <1>1, FS_Interval
  <2>. HIDE DEF rank
  <2>2. rank \in Surjection(I, 1 .. c)
    BY <1>6, <2>1, FS_Injection
  <2>. QED
    BY <2>2, Fun_SurjectionProperties
<1>8. \A n : Nth(I, n) = CHOOSE x \in I : rk(x) = n - 1
  BY DEF Nth, rk, pre
<1>9. \A n \in 1 .. c : Nth(I, n) \in I /\ rk(Nth(I, n)) = n - 1
  <2>1. TAKE n \in 1 .. c
  <2>2. PICK x \in I : rank[x] = n
    BY <1>7
  <2>3. rk(x) = n - 1
    BY <1>2, <2>2
  <2>. QED
    BY <1>8, <2>3
<1>10. \A i \in I : rk(i) + 1 \in 1 .. c /\ Nth(I, rk(i) + 1) = i
  <2>1. TAKE i \in I
  <2>2. rk(i) + 1 \in 1 .. c
    BY <1>1, <1>2, <1>3
  <2>3. Nth(I, rk(i) + 1) \in I /\ rk(Nth(I, rk(i) + 1)) = rk(i)
    BY <1>2, <1>9, <2>2
  <2>. QED
    BY <1>5, <2>2, <2>3
<1>11. \A n, m \in 1 .. c : n < m => Nth(I, n) < Nth(I, m)
  <2>1. SUFFICES ASSUME NEW n \in 1 .. c, NEW m \in 1 .. c, n < m
                 PROVE  Nth(I, n) < Nth(I, m)
    OBVIOUS
  <2>. DEFINE x == Nth(I, n)
              y == Nth(I, m)
  <2>2. x \in I /\ y \in I /\ rk(x) = n - 1 /\ rk(y) = m - 1
    BY <1>9
  <2>. HIDE DEF x, y
  <2>3. x < y
    BY <1>4, <2>1, <2>2
  <2>. QED
    BY <2>3 DEF x, y
<1>12. \A i \in I : rk(i) = Cardinality({j \in I : j < i})
  BY DEF rk, pre
<1>. QED
  BY <1>1, <1>9, <1>10, <1>11, <1>12

\* What a sequence has at some of its places, in order.
LEMMA SelectedFacts ==
    ASSUME NEW S, NEW s \in Seq(S), NEW I, I \subseteq DOMAIN s
    PROVE  /\ Selected(s, I) \in Seq(S)
           /\ \A n \in DOMAIN Selected(s, I) : Nth(I, n) \in I /\ Selected(s, I)[n] = s[Nth(I, n)]
           /\ \A n, m \in DOMAIN Selected(s, I) : Nth(I, n) = Nth(I, m) => n = m
           /\ \A i \in I : \E n \in DOMAIN Selected(s, I) : Selected(s, I)[n] = s[i]
<1>1. DOMAIN s = 1 .. Len(s) /\ Len(s) \in Nat
  OBVIOUS
<1>2. I \subseteq Int /\ IsFiniteSet(I)
  <2>1. IsFiniteSet(1 .. Len(s))
    BY <1>1, FS_Interval
  <2>. QED
    BY <1>1, <2>1, FS_Subset
<1>. DEFINE c == Cardinality(I)
            rk(i) == Cardinality({j \in I : j < i})
<1>3. /\ c \in Nat
      /\ \A n \in 1 .. c : Nth(I, n) \in I
      /\ \A i \in I : rk(i) + 1 \in 1 .. c /\ Nth(I, rk(i) + 1) = i
      /\ \A n, m \in 1 .. c : n < m => Nth(I, n) < Nth(I, m)
  BY <1>2, NthFacts
<1>4. Selected(s, I) = [n \in 1 .. c |-> s[Nth(I, n)]]
  BY DEF Selected
<1>. HIDE DEF c, rk
<1>5. \A n \in 1 .. c : s[Nth(I, n)] \in S
  BY <1>1, <1>3
<1>6. Selected(s, I) \in Seq(S) /\ DOMAIN Selected(s, I) = 1 .. c
  BY <1>3, <1>4, <1>5
<1>7. \A n \in 1 .. c : Selected(s, I)[n] = s[Nth(I, n)]
  BY <1>4
<1>8. \A n, m \in 1 .. c : Nth(I, n) = Nth(I, m) => n = m
  <2>1. SUFFICES ASSUME NEW n \in 1 .. c, NEW m \in 1 .. c, n < m  PROVE Nth(I, n) # Nth(I, m)
    BY <1>3
  <2>2. Nth(I, n) \in Int /\ Nth(I, m) \in Int /\ Nth(I, n) < Nth(I, m)
    BY <1>2, <1>3, <2>1
  <2>. QED
    BY <2>2
<1>. QED
  BY <1>3, <1>6, <1>7, <1>8

\* A set of naturals has a least one.
LEMMA LeastNat ==
    ASSUME NEW T, T \subseteq Nat, T # {}
    PROVE  \E x \in T : \A y \in T : x <= y
<1>1. PICK x \in T : \A y \in T : ~ (<<y, x>> \in OpToRel(<, Nat))
  BY WFMin, NatLessThanWellFounded
<1>2. \A y \in T : ~ (y < x)
  BY <1>1 DEF OpToRel
<1>. QED
  BY <1>2

\* The first place of the highest value.
LEMMA FirstHighest ==
    ASSUME NEW f, NEW n \in Nat, n >= 2, \A j \in 2 .. n : f[j] \in Int
    PROVE  \E i \in 2 .. n : \A j \in 2 .. n : f[j] < f[i] \/ (f[j] = f[i] /\ i <= j)
<1>. DEFINE Best(i, m) == i \in 2 .. m /\ \A j \in 2 .. m : f[j] < f[i] \/ (f[j] = f[i] /\ i <= j)
            Bad == {m \in 2 .. n : ~ \E i \in 2 .. m : Best(i, m)}
<1>1. Bad = {}
  <2>1. SUFFICES ASSUME Bad # {}  PROVE FALSE
    OBVIOUS
  <2>2. PICK m \in Bad : \A y \in Bad : m <= y
    <3>1. Bad \subseteq Nat
      OBVIOUS
    <3>. HIDE DEF Bad
    <3>. QED
      BY <2>1, <3>1, LeastNat
  <2>3. m \in 2 .. n /\ ~ \E i \in 2 .. m : Best(i, m)
    OBVIOUS
  <2>4. CASE m = 2
    <3>1. \A j \in 2 .. m : j = 2
      BY <2>4
    <3>2. Best(2, m)
      BY <2>4, <3>1
    <3>. QED
      BY <2>3, <2>4, <3>2
  <2>5. CASE m # 2
    <3>0. m - 1 \in 2 .. n /\ ~ m <= m - 1
      BY <2>3, <2>5
    <3>1. m - 1 \in 2 .. n /\ m - 1 \notin Bad
      <4>. HIDE DEF Bad
      <4>. QED
        BY <2>2, <3>0
    <3>2. PICK i \in 2 .. m - 1 : Best(i, m - 1)
      BY <3>1
    <3>3. f[i] \in Int /\ f[m] \in Int /\ i \in 2 .. m /\ m \in 2 .. m /\ \A j \in 2 .. m : j \in 2 .. m - 1 \/ j = m
      BY <2>3, <3>1
    <3>4. CASE f[m] > f[i]
      <4>1. ASSUME NEW j \in 2 .. m - 1  PROVE f[j] < f[m]
        <5>1. f[j] \in Int /\ f[j] <= f[i]
          <6>1. f[j] < f[i] \/ f[j] = f[i]
            BY <3>2
          <6>2. f[j] \in Int
            BY <2>3
          <6>. QED
            BY <3>3, <6>1, <6>2
        <5>. QED
          BY <3>3, <3>4, <5>1
      <4>2. Best(m, m)
        BY <3>3, <4>1
      <4>. HIDE DEF Best
      <4>. QED
        BY <2>3, <3>3, <4>2
    <3>5. CASE ~ f[m] > f[i]
      <4>1. f[m] < f[i] \/ (f[m] = f[i] /\ i <= m)
        BY <3>3, <3>5
      <4>2. Best(i, m)
        BY <3>2, <3>3, <4>1
      <4>. HIDE DEF Best
      <4>. QED
        BY <2>3, <3>3, <4>2
    <3>. QED
      BY <3>4, <3>5
  <2>. QED
    BY <2>4, <2>5
<1>2. n \notin Bad /\ n \in 2 .. n
  BY <1>1
<1>. QED
  BY <1>2

-----------------------------------------------------------------------------
\* Literals are non-zero integers with an involution, told apart by their
\* variable and sign.
LEMMA LitsFacts ==
    /\ IsFiniteSet(Lits)
    /\ \A l \in Lits : /\ l \in Int /\ l # 0 /\ -l \in Lits /\ l # -l /\ -(-l) = l
                       /\ var(l) \in Vars /\ var(-l) = var(l) /\ (l = var(l) \/ l = -var(l))
                       /\ toInt(l) \in Int
    /\ \A l, q \in Lits : toInt(l) = toInt(q) => l = q
    /\ \A l, q \in Lits : var(l) = var(q) => l = q \/ l = -q
    /\ \A v \in Vars : v \in Lits /\ -v \in Lits /\ var(v) = v /\ var(-v) = v
    /\ Undef \notin Lits
<1>1. MaxVars \in Nat
  BY MaxVarsAssumption
<1>2. Lits = {l \in -MaxVars .. MaxVars : l # 0}
  BY <1>1 DEF Lits, LitsOver, Vars
<1>3. IsFiniteSet(Lits)
  <2>1. IsFiniteSet(-MaxVars .. MaxVars)
    <3>1. -MaxVars \in Int /\ MaxVars \in Int
      BY <1>1
    <3>. QED
      BY <3>1, FS_Interval
  <2>. QED
    BY <1>2, <2>1, FS_Subset
<1>4. \A l \in Lits : /\ l \in Int /\ l # 0 /\ -l \in Lits /\ l # -l /\ -(-l) = l
                      /\ var(l) \in Vars /\ var(-l) = var(l) /\ (l = var(l) \/ l = -var(l))
                      /\ toInt(l) \in Int
  BY <1>1, <1>2 DEF var, toInt, Vars
<1>5. \A l, q \in Lits : toInt(l) = toInt(q) => l = q
  BY <1>1, <1>2 DEF var, toInt
<1>6. \A l, q \in Lits : var(l) = var(q) => l = q \/ l = -q
  BY <1>1, <1>2 DEF var
<1>7. \A v \in Vars : v \in Lits /\ -v \in Lits /\ var(v) = v /\ var(-v) = v
  BY <1>1, <1>2 DEF var, Vars
<1>8. Undef \notin Lits
  BY <1>2 DEF Undef
<1>. QED
  BY <1>3, <1>4, <1>5, <1>6, <1>7, <1>8

\* Sorting loses no literal and repeats none.
LEMMA SortedFacts ==
    ASSUME NEW S, S \subseteq Lits
    PROVE  /\ Sorted(S) \in Seq(S)
           /\ \A n, m \in DOMAIN Sorted(S) : Sorted(S)[n] = Sorted(S)[m] => n = m
           /\ \A l \in S : \E n \in DOMAIN Sorted(S) : Sorted(S)[n] = l
<1>. DEFINE keys == {toInt(k) : k \in S}
            f == [l \in S |-> toInt(l)]
            c == Cardinality(S)
            lit(n) == CHOOSE l \in S : toInt(l) = Nth(keys, n)
<1>1. IsFiniteSet(S) /\ c \in Nat
  BY LitsFacts, FS_Subset, FS_CardinalityType
<1>2. f \in Bijection(S, keys)
  <2>1. f \in [S -> keys]
    OBVIOUS
  <2>2. \A a, b \in S : f[a] = f[b] => a = b
    BY LitsFacts
  <2>3. \A k \in keys : \E a \in S : f[a] = k
    OBVIOUS
  <2>. HIDE DEF f, keys
  <2>. QED
    BY <2>1, <2>2, <2>3, Fun_IsBij
<1>3. IsFiniteSet(keys) /\ Cardinality(keys) = c
  <2>. HIDE DEF f, keys, c
  <2>1. IsFiniteSet(keys) /\ Cardinality(keys) = Cardinality(S)
    BY <1>1, <1>2, FS_Bijection DEF ExistsBijection
  <2>. QED
    BY <2>1 DEF c
<1>4. keys \subseteq Int
  BY LitsFacts
<1>5. /\ \A n \in 1 .. c : Nth(keys, n) \in keys
      /\ \A i \in keys : \E n \in 1 .. c : Nth(keys, n) = i
      /\ \A n, m \in 1 .. c : n < m => Nth(keys, n) < Nth(keys, m)
  <2>. HIDE DEF keys
  <2>. QED
    BY <1>3, <1>4, NthFacts
<1>6. \A n \in 1 .. c : lit(n) \in S /\ toInt(lit(n)) = Nth(keys, n)
  <2>1. TAKE n \in 1 .. c
  <2>2. Nth(keys, n) \in keys
    BY <1>5
  <2>3. PICK l \in S : toInt(l) = Nth(keys, n)
    BY <2>2
  <2>. HIDE DEF keys
  <2>. QED
    BY <2>3
<1>7. Sorted(S) = [n \in 1 .. c |-> lit(n)]
  BY DEF Sorted
<1>. HIDE DEF lit, keys, c
<1>8. Sorted(S) \in Seq(S) /\ DOMAIN Sorted(S) = 1 .. c /\ \A n \in 1 .. c : Sorted(S)[n] = lit(n)
  <2>. HIDE DEF lit
  <2>. QED
    BY <1>1, <1>6, <1>7
<1>9. \A n, m \in 1 .. c : lit(n) = lit(m) => n = m
  <2>1. SUFFICES ASSUME NEW n \in 1 .. c, NEW m \in 1 .. c, n < m  PROVE lit(n) # lit(m)
    BY <1>1
  <2>2. Nth(keys, n) < Nth(keys, m) /\ Nth(keys, n) \in Int /\ Nth(keys, m) \in Int
    BY <1>4, <1>5, <2>1
  <2>3. toInt(lit(n)) # toInt(lit(m))
    BY <1>6, <2>2
  <2>. QED
    BY <2>3
<1>10. \A l \in S : \E n \in 1 .. c : lit(n) = l
  <2>1. TAKE l \in S
  <2>0. toInt(l) \in keys
    BY DEF keys
  <2>2. PICK n \in 1 .. c : Nth(keys, n) = toInt(l)
    BY <1>5, <2>0
  <2>3. lit(n) \in S /\ toInt(lit(n)) = toInt(l)
    BY <1>6, <2>2
  <2>4. lit(n) = l
    BY <2>3, LitsFacts
  <2>. QED
    BY <2>4
<1>. QED
  BY <1>8, <1>9, <1>10

\* Swapping two places of a sequence changes nothing else.
LEMMA SwappedFacts ==
    ASSUME NEW S, NEW s \in Seq(S), NEW i \in DOMAIN s, NEW j \in DOMAIN s
    PROVE  LET t == Swapped(s, i, j) IN
           /\ t \in Seq(S) /\ DOMAIN t = DOMAIN s /\ Len(t) = Len(s)
           /\ t[i] = s[j] /\ t[j] = s[i]
           /\ \A k \in DOMAIN s : k # i /\ k # j => t[k] = s[k]
BY DEF Swapped

\* A sequence that has the elements of another, each at one place.
Rearranged(t, s) ==
    /\ Len(t) = Len(s)
    /\ \E g \in [DOMAIN t -> DOMAIN s] : /\ \A k \in DOMAIN t : t[k] = s[g[k]]
                                         /\ \A k, m \in DOMAIN t : g[k] = g[m] => k = m
                                         /\ \A m \in DOMAIN s : \E k \in DOMAIN t : g[k] = m

\* A clause with two literals swapped has the same literals.
LEMMA SwappedRearranges ==
    ASSUME NEW S, NEW s \in Seq(S), NEW i \in DOMAIN s, NEW j \in DOMAIN s
    PROVE  Rearranged(Swapped(s, i, j), s)
<1>. DEFINE t == Swapped(s, i, j)
            g == [k \in DOMAIN s |-> IF k = i THEN j ELSE IF k = j THEN i ELSE k]
<1>1. /\ t \in Seq(S) /\ DOMAIN t = DOMAIN s /\ Len(t) = Len(s)
      /\ t[i] = s[j] /\ t[j] = s[i]
      /\ \A k \in DOMAIN s : k # i /\ k # j => t[k] = s[k]
  BY SwappedFacts
<1>. HIDE DEF t
<1>2. g \in [DOMAIN t -> DOMAIN s]
  BY <1>1
<1>3. \A k \in DOMAIN t : t[k] = s[g[k]]
  BY <1>1
<1>4. \A k, m \in DOMAIN t : g[k] = g[m] => k = m
  BY <1>1
<1>5. \A m \in DOMAIN s : \E k \in DOMAIN t : g[k] = m
  BY <1>1
<1>. HIDE DEF g
<1>. QED
  BY <1>1, <1>2, <1>3, <1>4, <1>5 DEF Rearranged, t

\* Different numbers have different members.
LEMMA NthInjective ==
    ASSUME NEW I, I \subseteq Int, IsFiniteSet(I),
           NEW n \in 1 .. Cardinality(I), NEW m \in 1 .. Cardinality(I), Nth(I, n) = Nth(I, m)
    PROVE  n = m
<1>1. Nth(I, n) \in Int /\ Nth(I, m) \in Int /\ Cardinality(I) \in Nat
  BY NthFacts
<1>2. (n < m => Nth(I, n) < Nth(I, m)) /\ (m < n => Nth(I, m) < Nth(I, n))
  BY NthFacts
<1>3. ~ n < m /\ ~ m < n
  BY <1>1, <1>2
<1>. QED
  BY <1>1, <1>3

\* Two sets with nothing in common, counted together.
LEMMA DisjointCardinality ==
    ASSUME NEW A, IsFiniteSet(A), NEW B, IsFiniteSet(B), A \cap B = {}
    PROVE  IsFiniteSet(A \cup B) /\ Cardinality(A \cup B) = Cardinality(A) + Cardinality(B)
<1>. DEFINE a == Cardinality(A)
            b == Cardinality(B)
<1>1. a \in Nat /\ b \in Nat
  BY FS_CardinalityType
<1>2. PICK f : f \in Bijection(1 .. a, A)
  BY FS_CardinalityType DEF ExistsBijection
<1>3. PICK g : g \in Bijection(1 .. b, B)
  BY FS_CardinalityType DEF ExistsBijection
<1>. HIDE DEF a, b
<1>4. /\ f \in [1 .. a -> A] /\ (\A x, y \in 1 .. a : f[x] = f[y] => x = y)
      /\ \A z \in A : \E x \in 1 .. a : f[x] = z
  BY <1>2 DEF Bijection, Injection, Surjection, IsInjective
<1>5. /\ g \in [1 .. b -> B] /\ (\A x, y \in 1 .. b : g[x] = g[y] => x = y)
      /\ \A z \in B : \E x \in 1 .. b : g[x] = z
  BY <1>3 DEF Bijection, Injection, Surjection, IsInjective
<1>. DEFINE h == [n \in 1 .. a + b |-> IF n <= a THEN f[n] ELSE g[n - a]]
<1>6. \A n \in 1 .. a + b : \/ n \in 1 .. a /\ h[n] = f[n] /\ h[n] \in A
                            \/ n \notin 1 .. a /\ n - a \in 1 .. b /\ h[n] = g[n - a] /\ h[n] \in B
  <2>1. TAKE n \in 1 .. a + b
  <2>2. CASE n <= a
    <3>1. n \in 1 .. a
      BY <1>1, <2>2
    <3>. QED
      BY <1>4, <2>2, <3>1
  <2>3. CASE ~ n <= a
    <3>1. n \notin 1 .. a /\ n - a \in 1 .. b
      BY <1>1, <2>3
    <3>. QED
      BY <1>5, <2>3, <3>1
  <2>. QED
    BY <2>2, <2>3
<1>7. h \in [1 .. a + b -> A \cup B]
  BY <1>6
<1>8. \A x, y \in 1 .. a + b : h[x] = h[y] => x = y
  <2>1. TAKE x, y \in 1 .. a + b
  <2>2. HAVE h[x] = h[y]
  <2>. HIDE DEF h
  <2>3. CASE x \in 1 .. a /\ y \in 1 .. a
    BY <1>4, <1>6, <2>2, <2>3
  <2>4. CASE x \notin 1 .. a /\ y \notin 1 .. a
    <3>1. g[x - a] = g[y - a] /\ x - a \in 1 .. b /\ y - a \in 1 .. b
      BY <1>6, <2>2, <2>4
    <3>2. x - a = y - a
      BY <1>5, <3>1
    <3>. QED
      BY <1>1, <3>2
  <2>. QED
    BY <1>6, <2>2, <2>3, <2>4
<1>9. \A z \in A \cup B : \E n \in 1 .. a + b : h[n] = z
  <2>1. TAKE z \in A \cup B
  <2>2. CASE z \in A
    <3>1. PICK n \in 1 .. a : f[n] = z
      BY <1>4, <2>2
    <3>2. n \in 1 .. a + b /\ n <= a
      BY <1>1
    <3>. QED
      BY <3>1, <3>2
  <2>3. CASE z \in B
    <3>1. PICK n \in 1 .. b : g[n] = z
      BY <1>5, <2>3
    <3>2. n + a \in 1 .. a + b /\ ~ n + a <= a /\ (n + a) - a = n
      BY <1>1
    <3>. QED
      BY <3>1, <3>2
  <2>. QED
    BY <2>2, <2>3
<1>. HIDE DEF h
<1>10. h \in Bijection(1 .. a + b, A \cup B)
  BY <1>7, <1>8, <1>9, Fun_IsBij
<1>11. a + b \in Nat /\ ExistsBijection(1 .. a + b, A \cup B)
  BY <1>1, <1>10 DEF ExistsBijection
<1>12. Cardinality(A \cup B) = a + b
  BY <1>11, FS_CountingElements
<1>13. IsFiniteSet(A \cup B)
  BY <1>11, FS_NatBijection
<1>. QED
  BY <1>12, <1>13 DEF a, b

\* What is left of a sequence without some elements, wherever it has moved.
\* Some places of a sequence, among them the first.
Picked(t, s) ==
    /\ Len(t) >= 1
    /\ \E g \in [DOMAIN t -> DOMAIN s] : /\ \A k \in DOMAIN t : t[k] = s[g[k]]
                                         /\ \A k, m \in DOMAIN t : g[k] = g[m] => k = m
                                         /\ g[1] = 1

\* Without keeps the first literal and everything that is not to go, and adds
\* nothing, though it takes the tail in another order.
LEMMA WithoutFacts ==
    ASSUME NEW S, NEW s \in Seq(S), NEW gone, s # <<>>, s[1] \notin gone
    PROVE  LET t == Without(s, gone) IN
           /\ t \in Seq(S) /\ Len(t) \in 1 .. Len(s) /\ t[1] = s[1]
           /\ Picked(t, s)
           /\ \A m \in DOMAIN s : s[m] \notin gone => \E k \in DOMAIN t : t[k] = s[m]
<1>. DEFINE N == Len(s)
            keep == {i \in DOMAIN s : s[i] \notin gone}
            size == Cardinality(keep)
            front == {i \in 1 .. size : s[i] \notin gone}
            gaps == {i \in 1 .. size : s[i] \in gone}
            behind == {j \in size + 1 .. N : s[j] \notin gone}
            B == Cardinality(behind)
            G == Cardinality(gaps)
            rk(i) == Cardinality({h \in gaps : h < i})
            g == [i \in 1 .. size |-> IF s[i] \in gone THEN Nth(behind, B - rk(i)) ELSE i]
<1>1. N \in Nat /\ N >= 1 /\ DOMAIN s = 1 .. N
  OBVIOUS
<1>2. IsFiniteSet(1 .. N) /\ Cardinality(1 .. N) = N
  BY <1>1, FS_Interval
<1>3. keep \subseteq 1 .. N
  BY <1>1
<1>. HIDE DEF N
<1>4. IsFiniteSet(keep) /\ size \in 0 .. N
  <2>. HIDE DEF keep
  <2>1. IsFiniteSet(keep) /\ size \in Nat /\ size <= N
    BY <1>2, <1>3, FS_Subset, FS_CardinalityType
  <2>. QED
    BY <1>1, <2>1
<1>5. keep = front \cup behind /\ front \cap behind = {}
  <2>. HIDE DEF size
  <2>1. \A i \in 1 .. N : i \in 1 .. size \/ i \in size + 1 .. N
    BY <1>1, <1>4
  <2>2. 1 .. size \subseteq 1 .. N /\ size + 1 .. N \subseteq 1 .. N
    BY <1>1, <1>4
  <2>3. 1 .. size \cap size + 1 .. N = {}
    BY <1>1, <1>4
  <2>. QED
    BY <1>1, <2>1, <2>2, <2>3
<1>. HIDE DEF keep
<1>6. 1 .. size = front \cup gaps /\ front \cap gaps = {}
  OBVIOUS
<1>7. IsFiniteSet(1 .. size) /\ Cardinality(1 .. size) = size
  BY <1>4, FS_Interval
<1>8. /\ gaps \subseteq 1 .. size /\ behind \subseteq size + 1 .. N
      /\ \A j \in behind : j \in 1 .. N /\ j > size /\ j \in Int /\ s[j] \notin gone
      /\ \A i \in 1 .. size : i \in gaps <=> s[i] \in gone
  BY <1>1, <1>4
<1>9. gaps \subseteq Int /\ behind \subseteq Int
  BY <1>4, <1>8
<1>10. IsFiniteSet(front) /\ IsFiniteSet(gaps) /\ IsFiniteSet(behind)
  <2>. HIDE DEF front, gaps, behind, size
  <2>. QED
    BY <1>4, <1>5, <1>6, <1>7, FS_Subset
<1>. HIDE DEF front, behind
<1>11. B \in Nat /\ G \in Nat /\ Cardinality(front) \in Nat
  BY <1>10, FS_CardinalityType
<1>12. size = Cardinality(front) + B
  BY <1>5, <1>10, DisjointCardinality
<1>13. size = Cardinality(front) + G
  <2>. HIDE DEF gaps, size
  <2>1. Cardinality(front \cup gaps) = Cardinality(front) + Cardinality(gaps)
    BY <1>6, <1>10, DisjointCardinality
  <2>. QED
    BY <1>6, <1>7, <2>1
<1>14. B = G
  BY <1>4, <1>11, <1>12, <1>13
<1>15. \A i \in 1 .. size : {h \in 1 .. i - 1 : s[h] \in gone} = {h \in gaps : h < i}
  <2>. HIDE DEF size
  <2>. QED
    BY <1>4
<1>16. /\ \A i \in gaps : rk(i) + 1 \in 1 .. G /\ Nth(gaps, rk(i) + 1) = i
       /\ \A n \in 1 .. G : Nth(gaps, n) \in gaps
       /\ \A n, m \in 1 .. G : n < m => Nth(gaps, n) < Nth(gaps, m)
  <2>. HIDE DEF gaps
  <2>. QED
    BY <1>9, <1>10, NthFacts
<1>17. /\ \A n \in 1 .. B : Nth(behind, n) \in behind
       /\ \A j \in behind : \E n \in 1 .. B : Nth(behind, n) = j
  <2>1. \A n \in 1 .. Cardinality(behind) : Nth(behind, n) \in behind
    BY <1>9, <1>10, NthFacts
  <2>2. ASSUME NEW j \in behind  PROVE \E n \in 1 .. B : Nth(behind, n) = j
    <3>. DEFINE n == Cardinality({i \in behind : i < j}) + 1
    <3>1. n \in 1 .. Cardinality(behind) /\ Nth(behind, n) = j
      BY <1>9, <1>10, NthFacts
    <3>. HIDE DEF n
    <3>. QED
      BY <3>1
  <2>. QED
    BY <2>1, <2>2
<1>18. /\ Without(s, gone) = [i \in 1 .. size |-> Without(s, gone)[i]]
       /\ \A i \in 1 .. size : Without(s, gone)[i] = s[g[i]]
  <2>1. behind = {j \in size + 1 .. Len(s) : s[j] \notin gone}
    BY DEF behind, N
  <2>. DEFINE e(i) == IF s[i] \in gone
                      THEN s[Nth(behind, B - Cardinality({h \in 1 .. i - 1 : s[h] \in gone}))] ELSE s[i]
  <2>2. Without(s, gone) = [i \in 1 .. size |-> e(i)]
    BY <2>1 DEF Without, keep
  <2>3. \A i \in 1 .. size : Cardinality({h \in 1 .. i - 1 : s[h] \in gone}) = rk(i)
    BY <1>15
  <2>. HIDE DEF rk
  <2>4. \A i \in 1 .. size : e(i) = s[g[i]]
    BY <2>3
  <2>. HIDE DEF g, behind, B, size, e
  <2>. QED
    BY <2>2, <2>4
<1>. HIDE DEF rk, gaps, B, G, size
<1>19. \A i \in 1 .. size : s[i] \in gone => B - rk(i) \in 1 .. B
  <2>1. TAKE i \in 1 .. size
  <2>2. HAVE s[i] \in gone
  <2>3. rk(i) + 1 \in 1 .. B /\ rk(i) \in Int
    <3>1. rk(i) + 1 \in 1 .. G
      BY <1>8, <1>16, <2>2
    <3>2. IsFiniteSet({h \in gaps : h < i})
      BY <1>10, FS_Subset
    <3>. QED
      BY <1>14, <3>1, <3>2, FS_CardinalityType DEF rk
  <2>. QED
    BY <1>11, <2>3
<1>20. \A i \in 1 .. size : /\ g[i] \in 1 .. N /\ s[g[i]] \notin gone
                            /\ s[i] \in gone => g[i] > size /\ g[i] = Nth(behind, B - rk(i))
                            /\ s[i] \notin gone => g[i] = i
  <2>1. TAKE i \in 1 .. size
  <2>2. CASE s[i] \in gone
    BY <1>8, <1>17, <1>19, <2>2
  <2>3. CASE s[i] \notin gone
    BY <1>1, <1>4, <2>3
  <2>. QED
    BY <2>2, <2>3
<1>21. g \in [1 .. size -> 1 .. N]
  BY <1>20
<1>. HIDE DEF g
<1>22. ASSUME NEW i \in 1 .. size, NEW j \in 1 .. size, g[i] = g[j]  PROVE i = j
  <2>1. CASE s[i] \notin gone /\ s[j] \notin gone
    BY <1>20, <1>22, <2>1
  <2>2. CASE s[i] \in gone /\ s[j] \notin gone
    BY <1>4, <1>20, <1>22, <2>2
  <2>3. CASE s[i] \notin gone /\ s[j] \in gone
    BY <1>4, <1>20, <1>22, <2>3
  <2>4. CASE s[i] \in gone /\ s[j] \in gone
    <3>. DEFINE x == B - rk(i)
                y == B - rk(j)
    <3>1. x \in 1 .. B /\ y \in 1 .. B /\ Nth(behind, x) = Nth(behind, y)
      BY <1>19, <1>20, <1>22, <2>4
    <3>4. x = y
      <4>. HIDE DEF x, y
      <4>. QED
        BY <1>9, <1>10, <3>1, NthInjective DEF B
    <3>5. i \in gaps /\ j \in gaps
      BY <1>8, <2>4
    <3>6. rk(i) + 1 \in 1 .. G /\ rk(j) + 1 \in 1 .. G /\ IsFiniteSet({h \in gaps : h < i}) /\ IsFiniteSet({h \in gaps : h < j})
      BY <1>10, <1>16, <3>5, FS_Subset
    <3>7. rk(i) \in Nat /\ rk(j) \in Nat
      BY <3>6, FS_CardinalityType DEF rk
    <3>8. rk(i) = rk(j)
      BY <1>11, <3>4, <3>7
    <3>. QED
      BY <1>16, <3>5, <3>8
  <2>. QED
    BY <2>1, <2>2, <2>3, <2>4
<1>23. size >= 1 /\ 1 \in 1 .. size /\ g[1] = 1
  <2>1. 1 \in keep
    BY <1>1 DEF keep
  <2>2. size # 0
    BY <1>4, <2>1, FS_EmptySet DEF size
  <2>. QED
    BY <1>4, <1>20, <2>2
<1>24. ASSUME NEW m \in 1 .. N, s[m] \notin gone  PROVE \E k \in 1 .. size : g[k] = m
  <2>1. CASE m \in 1 .. size
    BY <1>20, <1>24, <2>1
  <2>2. CASE m \notin 1 .. size
    <3>1. m \in behind
      BY <1>1, <1>4, <1>24, <2>2 DEF behind
    <3>2. PICK n \in 1 .. B : Nth(behind, n) = m
      BY <1>17, <3>1
    <3>. DEFINE i == Nth(gaps, G - n + 1)
    <3>3. G - n + 1 \in 1 .. G
      BY <1>11, <1>14
    <3>4. i \in gaps
      BY <1>16, <3>3
    <3>5. rk(i) + 1 \in 1 .. G /\ Nth(gaps, rk(i) + 1) = i
      BY <1>16, <3>4
    <3>6. rk(i) + 1 = G - n + 1
      <4>. DEFINE x == rk(i) + 1
                  y == G - n + 1
      <4>2. x \in 1 .. G /\ y \in 1 .. G /\ Nth(gaps, x) = i /\ Nth(gaps, y) = i
        BY <3>3, <3>5
      <4>. HIDE DEF x, y, i
      <4>4. x = y
        BY <1>9, <1>10, <4>2, NthInjective DEF G
      <4>. QED
        BY <4>4 DEF x, y
    <3>. HIDE DEF i
    <3>7. i \in 1 .. size /\ s[i] \in gone
      BY <1>8, <3>4
    <3>8. rk(i) \in Nat
      <4>1. IsFiniteSet({h \in gaps : h < i})
        BY <1>10, FS_Subset
      <4>. QED
        BY <4>1, FS_CardinalityType DEF rk
    <3>9. B - rk(i) = n
      BY <1>11, <1>14, <3>6, <3>8
    <3>. QED
      BY <1>20, <3>2, <3>7, <3>9
  <2>. QED
    BY <2>1, <2>2
<1>. DEFINE t == Without(s, gone)
<1>25. t \in Seq(S) /\ Len(t) = size /\ DOMAIN t = 1 .. size /\ \A i \in 1 .. size : t[i] = s[g[i]]
  <2>1. \A i \in 1 .. size : s[g[i]] \in S
    BY <1>1, <1>20
  <2>. QED
    BY <1>4, <1>18, <2>1
<1>. HIDE DEF t
<1>26. t[1] = s[1] /\ Len(t) \in 1 .. Len(s)
  BY <1>1, <1>4, <1>23, <1>25 DEF N
<1>27. /\ g \in [DOMAIN t -> DOMAIN s] /\ g[1] = 1
       /\ \A k \in DOMAIN t : t[k] = s[g[k]] /\ s[g[k]] \notin gone
       /\ \A k, m \in DOMAIN t : g[k] = g[m] => k = m
  BY <1>1, <1>20, <1>21, <1>22, <1>23, <1>25
<1>28. \A m \in DOMAIN s : s[m] \notin gone => \E k \in DOMAIN t : t[k] = s[m]
  BY <1>1, <1>24, <1>25
<1>29. Picked(t, s)
  <2>1. Len(t) >= 1
    BY <1>26
  <2>. HIDE DEF g
  <2>. QED
    BY <1>27, <2>1 DEF Picked
<1>. QED
  BY <1>25, <1>26, <1>28, <1>29 DEF t

-----------------------------------------------------------------------------
(***************************************************************************)
(* Levels and places of the trail.                                         *)
(***************************************************************************)

\* The trail and its limits are sequences, the limits within the trail.
LEMMA TrailFacts ==
    ASSUME OrderInv
    PROVE  /\ IsSeq(trail) /\ Len(trail) \in Nat /\ DOMAIN trail = 1 .. Len(trail)
           /\ trail_lim \in Seq(Nat) /\ decisionLevel \in Nat /\ DOMAIN trail_lim = 1 .. decisionLevel
           /\ Len(trail_lim) = decisionLevel
           /\ \A j \in DOMAIN trail_lim : trail_lim[j] \in 0 .. Len(trail)
<1>1. IsSeq(trail) /\ Len(trail) \in Nat /\ DOMAIN trail = 1 .. Len(trail)
  BY IsSeqLen DEF OrderInv, TrailInv
<1>2. trail_lim \in Seq(Nat) /\ decisionLevel \in Nat /\ DOMAIN trail_lim = 1 .. decisionLevel
  BY DEF OrderInv, LimitsInv, decisionLevel
<1>3. \A j \in DOMAIN trail_lim : trail_lim[j] \in 0 .. Len(trail)
  BY <1>1, <1>2 DEF OrderInv, LimitsInv
<1>. QED
  BY <1>1, <1>2, <1>3 DEF decisionLevel

\* No two places of the trail have one variable.
LEMMA PlaceOf ==
    ASSUME LevelsInv, NEW i \in DOMAIN trail, NEW l, var(l) = var(trail[i].lit)
    PROVE  place(var(l)) = i /\ level(l) = trail[i].level /\ reason(l) = trail[i].reason
<1>1. place(var(l)) = i
  BY DEF LevelsInv, place
<1>. QED
  BY <1>1 DEF level, reason

\* A literal and its complement are not both true.
LEMMA OneSign ==
    ASSUME LevelsInv, NEW i \in DOMAIN trail, NEW j \in DOMAIN trail
    PROVE  trail[i].lit # -trail[j].lit
<1>1. trail[i].lit \in Lits /\ trail[j].lit \in Lits
  BY DEF LevelsInv, NLits
<1>2. SUFFICES ASSUME trail[i].lit = -trail[j].lit  PROVE FALSE
  OBVIOUS
<1>3. var(trail[i].lit) = var(trail[j].lit)
  BY <1>1, <1>2, LitsFacts
<1>4. i = j
  BY <1>3 DEF LevelsInv
<1>. QED
  BY <1>1, <1>2, <1>4, LitsFacts

\* What is at a level that is kept is kept.
LEMMA KeptLevels ==
    ASSUME OrderInv, LevelsInv, NEW lev \in Nat, NEW i \in DOMAIN trail
    PROVE  i <= LimitOf(lev) <=> trail[i].level <= lev
<1>1. i \in Nat /\ i <= Len(trail) /\ trail[i].level \in 0 .. decisionLevel /\ decisionLevel \in Nat
  BY TrailFacts DEF LevelsInv
<1>2. CASE lev < decisionLevel
  <2>1. lev + 1 \in DOMAIN trail_lim /\ trail_lim[lev + 1] \in Nat
    BY <1>2, TrailFacts
  <2>2. trail_lim[lev + 1] < i <=> lev + 1 <= trail[i].level
    BY <2>1 DEF LevelsInv
  <2>. QED
    BY <1>1, <1>2, <2>1, <2>2 DEF LimitOf
<1>3. CASE ~ lev < decisionLevel
  BY <1>1, <1>3 DEF LimitOf
<1>. QED
  BY <1>2, <1>3

-----------------------------------------------------------------------------
(***************************************************************************)
(* The trail: what each step does to it, and what it keeps.                *)
(***************************************************************************)

(* The steps of the trail. *)
Reached == <<trail, trail_lim, nVars>>

\* A literal is enqueued, at a new level or at the one there is.
Enqueues(l, from) ==
    /\ trail' = Append(trail, Enqueued(l, Len(trail_lim'), from))
    /\ \/ trail_lim' = trail_lim
       \/ trail_lim' = Append(trail_lim, Len(trail)) /\ from = CRef_Undef
\* What is above a level is taken off; a literal may follow.
TakesOff(lev) == Backtrack(lev) /\ trail' = Kept(lev)
Learns(lev, l, from) == Backtrack(lev) /\ trail' = Append(Kept(lev), Enqueued(l, lev, from))

\* A literal that is enqueued comes last, at the level that is then the current
\* one.
LEMMA EnqueueFacts ==
    ASSUME OrderInv, NEW l, NEW from, Enqueues(l, from)
    PROVE  /\ Len(trail') = Len(trail) + 1 /\ DOMAIN trail' = 1 .. Len(trail) + 1
           /\ \A i \in DOMAIN trail : i \in DOMAIN trail' /\ trail'[i] = trail[i]
           /\ trail'[Len(trail) + 1].lit = l
           /\ trail'[Len(trail) + 1].level = decisionLevel'
           /\ trail'[Len(trail) + 1].reason = from
           /\ decisionLevel' \in {decisionLevel, decisionLevel + 1}
           /\ DOMAIN trail_lim' = 1 .. decisionLevel'
           /\ \A j \in DOMAIN trail_lim : j \in DOMAIN trail_lim' /\ trail_lim'[j] = trail_lim[j]
           /\ decisionLevel' = decisionLevel + 1 =>
                 trail_lim'[decisionLevel'] = Len(trail) /\ from = CRef_Undef
<1>. DEFINE e == Enqueued(l, Len(trail_lim'), from)
<1>1. /\ IsSeq(trail) /\ Len(trail) \in Nat /\ DOMAIN trail = 1 .. Len(trail)
      /\ trail_lim \in Seq(Nat) /\ decisionLevel \in Nat /\ DOMAIN trail_lim = 1 .. decisionLevel
      /\ Len(trail_lim) = decisionLevel
  BY TrailFacts
<1>2. e.lit = l /\ e.level = Len(trail_lim') /\ e.reason = from /\ trail' = Append(trail, e)
  BY DEF Enqueued, Enqueues
<1>. HIDE DEF e
<1>3. /\ Len(trail') = Len(trail) + 1 /\ DOMAIN trail' = 1 .. Len(trail) + 1
      /\ \A i \in 1 .. Len(trail) : trail'[i] = trail[i]
      /\ trail'[Len(trail) + 1] = e
  BY <1>1, <1>2, AppendIsSeq
<1>4. \A i \in DOMAIN trail : i \in DOMAIN trail' /\ trail'[i] = trail[i]
  BY <1>1, <1>3
<1>5. decisionLevel' = Len(trail_lim')
  BY DEF decisionLevel
<1>6. CASE trail_lim' = trail_lim
  BY <1>1, <1>2, <1>3, <1>4, <1>5, <1>6
<1>7. CASE trail_lim' = Append(trail_lim, Len(trail)) /\ from = CRef_Undef
  <2>1. /\ Len(trail_lim') = decisionLevel + 1 /\ DOMAIN trail_lim' = 1 .. decisionLevel + 1
        /\ \A j \in 1 .. decisionLevel : trail_lim'[j] = trail_lim[j]
        /\ trail_lim'[decisionLevel + 1] = Len(trail)
    BY <1>1, <1>7
  <2>. QED
    BY <1>1, <1>2, <1>3, <1>4, <1>5, <1>7, <2>1
<1>. QED
  BY <1>6, <1>7 DEF Enqueues

\* A jump back forgets the levels above, and keeps the trail up to a limit.
LEMMA BacktrackFacts ==
    ASSUME OrderInv, NEW lev \in Nat, Backtrack(lev)
    PROVE  /\ decisionLevel' = IF lev < decisionLevel THEN lev ELSE decisionLevel
           /\ decisionLevel' \in 0 .. decisionLevel
           /\ DOMAIN trail_lim' = 1 .. decisionLevel'
           /\ \A j \in DOMAIN trail_lim' : j \in DOMAIN trail_lim /\ trail_lim'[j] = trail_lim[j]
           /\ LimitOf(lev) \in 0 .. Len(trail)
           /\ ~ lev < decisionLevel => LimitOf(lev) = Len(trail)
<1>1. /\ trail_lim \in Seq(Nat) /\ decisionLevel \in Nat /\ DOMAIN trail_lim = 1 .. decisionLevel
      /\ Len(trail_lim) = decisionLevel
  BY TrailFacts
<1>. DEFINE n == IF lev < decisionLevel THEN lev ELSE decisionLevel
<1>2. n \in 0 .. Len(trail_lim) /\ trail_lim' = SubSeq(trail_lim, 1, n)
  BY <1>1 DEF Backtrack
<1>3. /\ Len(trail_lim') = n /\ DOMAIN trail_lim' = 1 .. n
      /\ \A j \in 1 .. n : trail_lim'[j] = trail_lim[j]
  BY <1>1, <1>2
<1>4. decisionLevel' = n
  BY <1>3 DEF decisionLevel
<1>5. \A j \in 1 .. n : j \in 1 .. decisionLevel
  BY <1>1
<1>6. LimitOf(lev) \in 0 .. Len(trail)
  BY KeptPart
<1>7. ~ lev < decisionLevel => LimitOf(lev) = Len(trail)
  BY DEF LimitOf
<1>. QED
  BY <1>1, <1>3, <1>4, <1>5, <1>6, <1>7

\* A jump back takes the trail after the limit off.
LEMMA TakesOffFacts ==
    ASSUME OrderInv, NEW lev \in Nat, TakesOff(lev)
    PROVE  /\ Len(trail') = LimitOf(lev) /\ DOMAIN trail' = 1 .. LimitOf(lev)
           /\ \A i \in DOMAIN trail' : i \in DOMAIN trail /\ trail'[i] = trail[i]
<1>1. Len(trail) \in Nat /\ DOMAIN trail = 1 .. Len(trail)
  BY TrailFacts
<1>2. /\ LimitOf(lev) \in 0 .. Len(trail) /\ Len(Kept(lev)) = LimitOf(lev)
      /\ DOMAIN Kept(lev) = 1 .. LimitOf(lev)
      /\ \A i \in 1 .. LimitOf(lev) : Kept(lev)[i] = trail[i]
  BY KeptPart
<1>3. trail' = Kept(lev)
  BY DEF TakesOff
<1>4. \A i \in 1 .. LimitOf(lev) : i \in DOMAIN trail
  BY <1>1, <1>2
<1>. QED
  BY <1>2, <1>3, <1>4

\* A jump back that is followed by the literal learnt.
LEMMA LearnsFacts ==
    ASSUME OrderInv, NEW lev \in Nat, NEW l, NEW from, Learns(lev, l, from)
    PROVE  /\ LimitOf(lev) \in 0 .. Len(trail)
           /\ Len(trail') = LimitOf(lev) + 1 /\ DOMAIN trail' = 1 .. LimitOf(lev) + 1
           /\ \A i \in 1 .. LimitOf(lev) : i \in DOMAIN trail /\ trail'[i] = trail[i]
           /\ trail'[LimitOf(lev) + 1].lit = l
           /\ trail'[LimitOf(lev) + 1].level = lev
           /\ trail'[LimitOf(lev) + 1].reason = from
<1>. DEFINE e == Enqueued(l, lev, from)
            s == Kept(lev)
<1>1. Len(trail) \in Nat /\ DOMAIN trail = 1 .. Len(trail)
  BY TrailFacts
<1>2. e.lit = l /\ e.level = lev /\ e.reason = from /\ trail' = Append(s, e)
  BY DEF Enqueued, Learns
<1>3. /\ LimitOf(lev) \in 0 .. Len(trail)
      /\ IsSeq(s) /\ Len(s) = LimitOf(lev)
      /\ \A i \in 1 .. LimitOf(lev) : s[i] = trail[i]
  BY KeptPart
<1>. HIDE DEF e, s
<1>4. /\ Len(trail') = Len(s) + 1 /\ DOMAIN trail' = 1 .. Len(s) + 1
      /\ \A i \in 1 .. Len(s) : trail'[i] = s[i]
      /\ trail'[Len(s) + 1] = e
  BY <1>2, <1>3, AppendIsSeq
<1>. QED
  BY <1>1, <1>2, <1>3, <1>4

\* Reasons that are forgotten change no place of the trail.
LEMMA UnreasonedFacts ==
    ASSUME OrderInv, NEW rs, trail' = Unreasoned(rs)
    PROVE  /\ Len(trail') = Len(trail) /\ DOMAIN trail' = DOMAIN trail
           /\ \A i \in DOMAIN trail : /\ trail'[i].lit = trail[i].lit /\ trail'[i].level = trail[i].level
                                      /\ trail'[i].reason \in {trail[i].reason, CRef_Undef}
<1>. DEFINE freed == {var(lits(cr)[1]) : cr \in {c \in rs : locked(c)}}
<1>0. IsSeq(trail) /\ Len(trail) \in Nat /\ DOMAIN trail = 1 .. Len(trail)
  BY TrailFacts
<1>1. trail' = [i \in DOMAIN trail |-> IF var(trail[i].lit) \in freed
                                       THEN [trail[i] EXCEPT !.reason = CRef_Undef] ELSE trail[i]]
  BY DEF Unreasoned
<1>. HIDE DEF freed
<1>2. ASSUME NEW i \in DOMAIN trail
      PROVE  /\ trail'[i].lit = trail[i].lit /\ trail'[i].level = trail[i].level
             /\ trail'[i].reason \in {trail[i].reason, CRef_Undef}
  <2>1. trail[i] = Enqueued(trail[i].lit, trail[i].level, trail[i].reason)
    BY DEF OrderInv, TrailInv
  <2>2. CASE trail'[i] = trail[i]
    BY <2>2
  <2>3. CASE trail'[i] = [trail[i] EXCEPT !.reason = CRef_Undef]
    <3>1. trail'[i] = Enqueued(trail[i].lit, trail[i].level, CRef_Undef)
      BY <2>1, <2>3 DEF Enqueued
    <3>. QED
      BY <3>1 DEF Enqueued
  <2>. QED
    BY <1>1, <2>2, <2>3
<1>3. DOMAIN trail' = 1 .. Len(trail) /\ Len(trail') = Len(trail)
  BY <1>0, <1>1
<1>. QED
  BY <1>0, <1>2, <1>3

-----------------------------------------------------------------------------
\* Enqueuing a literal without a value keeps the levels of the trail right.
LEMMA EnqueueKeepsLevels ==
    ASSUME OrderInv, LevelsInv, NEW l \in NLits, NEW from \in CRefs \cup {CRef_Undef},
           isUndef(l), Enqueues(l, from), UNCHANGED nVars,
           from = CRef_Undef => trail_lim' # trail_lim \/ trail_lim = <<>>
    PROVE  LevelsInv'
<1>. DEFINE n == Len(trail) + 1
<1>0. /\ Len(trail) \in Nat /\ DOMAIN trail = 1 .. Len(trail)
      /\ decisionLevel \in Nat /\ DOMAIN trail_lim = 1 .. decisionLevel
      /\ \A j \in DOMAIN trail_lim : trail_lim[j] \in 0 .. Len(trail)
  BY TrailFacts
<1>1. /\ DOMAIN trail' = 1 .. n
      /\ \A i \in DOMAIN trail : i \in DOMAIN trail' /\ trail'[i] = trail[i]
      /\ trail'[n].lit = l /\ trail'[n].level = decisionLevel' /\ trail'[n].reason = from
      /\ decisionLevel' \in {decisionLevel, decisionLevel + 1}
      /\ DOMAIN trail_lim' = 1 .. decisionLevel'
      /\ \A j \in DOMAIN trail_lim : j \in DOMAIN trail_lim' /\ trail_lim'[j] = trail_lim[j]
      /\ decisionLevel' = decisionLevel + 1 =>
            trail_lim'[decisionLevel'] = Len(trail) /\ from = CRef_Undef
  BY EnqueueFacts
<1>2. NLits' = NLits
  BY DEF NLits
<1>3. \A j \in DOMAIN trail_lim' : \/ j \in DOMAIN trail_lim /\ trail_lim'[j] = trail_lim[j]
                                   \/ j = decisionLevel + 1 /\ j = decisionLevel' /\ trail_lim'[j] = Len(trail)
  BY <1>0, <1>1
<1>4. \A i \in DOMAIN trail' : i \in DOMAIN trail \/ i = n
  BY <1>0, <1>1
<1>5. ASSUME NEW i \in DOMAIN trail
      PROVE  /\ trail'[i].lit \in NLits' /\ trail'[i].level \in 0 .. decisionLevel'
             /\ trail'[i].reason \in CRefs \cup {CRef_Undef}
             /\ \A j \in DOMAIN trail_lim' : trail_lim'[j] < i <=> j <= trail'[i].level
             /\ trail'[i].level > 0 /\ trail'[i].reason = CRef_Undef => i = trail_lim'[trail'[i].level] + 1
  <2>1. /\ trail[i].lit \in NLits /\ trail[i].level \in 0 .. decisionLevel
        /\ trail[i].reason \in CRefs \cup {CRef_Undef}
        /\ \A j \in DOMAIN trail_lim : trail_lim[j] < i <=> j <= trail[i].level
        /\ trail[i].level > 0 /\ trail[i].reason = CRef_Undef => i = trail_lim[trail[i].level] + 1
    BY DEF LevelsInv
  <2>2. trail'[i] = trail[i]
    BY <1>1
  <2>3. \A j \in DOMAIN trail_lim' : trail_lim'[j] < i <=> j <= trail[i].level
    <3>1. TAKE j \in DOMAIN trail_lim'
    <3>2. CASE j \in DOMAIN trail_lim /\ trail_lim'[j] = trail_lim[j]
      BY <2>1, <3>2
    <3>3. CASE j = decisionLevel + 1 /\ trail_lim'[j] = Len(trail)
      BY <1>0, <2>1, <3>3
    <3>. QED
      BY <1>3, <3>2, <3>3
  <2>4. trail[i].level > 0 => trail[i].level \in DOMAIN trail_lim
    BY <1>0, <2>1
  <2>5. trail[i].level \in 0 .. decisionLevel'
    BY <1>0, <1>1, <2>1
  <2>. QED
    BY <1>1, <1>2, <2>1, <2>2, <2>3, <2>4, <2>5
<1>6. /\ trail'[n].lit \in NLits' /\ trail'[n].level \in 0 .. decisionLevel'
      /\ trail'[n].reason \in CRefs \cup {CRef_Undef}
      /\ \A j \in DOMAIN trail_lim' : trail_lim'[j] < n <=> j <= trail'[n].level
      /\ trail'[n].level > 0 /\ trail'[n].reason = CRef_Undef => n = trail_lim'[trail'[n].level] + 1
  <2>1. \A j \in DOMAIN trail_lim' : trail_lim'[j] < n /\ j <= decisionLevel'
    <3>1. TAKE j \in DOMAIN trail_lim'
    <3>2. trail_lim'[j] \in 0 .. Len(trail)
      BY <1>0, <1>3
    <3>. QED
      BY <1>0, <1>1, <3>2
  <2>2. decisionLevel' \in 0 .. decisionLevel'
    BY <1>0, <1>1
  <2>3. decisionLevel' > 0 /\ from = CRef_Undef => n = trail_lim'[decisionLevel'] + 1
    <3>1. SUFFICES ASSUME decisionLevel' > 0, from = CRef_Undef
                   PROVE  n = trail_lim'[decisionLevel'] + 1
      OBVIOUS
    <3>2. trail_lim' # trail_lim
      BY <1>0, <3>1 DEF decisionLevel
    <3>3. decisionLevel' = decisionLevel + 1
      BY <1>0, <3>2, TrailFacts DEF Enqueues, decisionLevel
    <3>. QED
      BY <1>1, <3>3
  <2>. QED
    BY <1>1, <1>2, <2>1, <2>2, <2>3
<1>7. ASSUME NEW i \in DOMAIN trail  PROVE var(trail[i].lit) # var(l)
  <2>1. trail[i].lit \in Lits /\ l \in Lits
    BY DEF LevelsInv, NLits
  <2>2. trail[i].lit # l /\ trail[i].lit # -l
    BY DEF isUndef, isTrue, isFalse
  <2>. QED
    BY <2>1, <2>2, LitsFacts
<1>8. \A i, j \in DOMAIN trail' : var(trail'[i].lit) = var(trail'[j].lit) => i = j
  BY <1>1, <1>4, <1>7 DEF LevelsInv
<1>. HIDE DEF n
<1>. QED
  BY <1>4, <1>5, <1>6, <1>8 DEF LevelsInv

\* The part of the trail that is kept, and what may follow it.
LEMMA ShortenKeepsLevels ==
    ASSUME OrderInv, LevelsInv, NEW lev \in Nat, Backtrack(lev), UNCHANGED nVars,
           Len(trail') \in {LimitOf(lev), LimitOf(lev) + 1}, DOMAIN trail' = 1 .. Len(trail'),
           \A i \in 1 .. LimitOf(lev) : trail'[i] = trail[i],
           LET m == LimitOf(lev) + 1 IN
           Len(trail') = m =>
              /\ trail'[m].lit \in NLits /\ trail'[m].level = lev /\ lev < decisionLevel
              /\ trail'[m].reason \in CRefs \cup {CRef_Undef}
              /\ lev > 0 => trail'[m].reason # CRef_Undef
              /\ \A i \in 1 .. LimitOf(lev) : var(trail[i].lit) # var(trail'[m].lit)
    PROVE  LevelsInv'
<1>. DEFINE n == LimitOf(lev)
            m == n + 1
<1>0. /\ Len(trail) \in Nat /\ DOMAIN trail = 1 .. Len(trail)
      /\ decisionLevel \in Nat /\ DOMAIN trail_lim = 1 .. decisionLevel
      /\ \A j \in DOMAIN trail_lim : trail_lim[j] \in 0 .. Len(trail)
  BY TrailFacts
<1>1. /\ decisionLevel' = IF lev < decisionLevel THEN lev ELSE decisionLevel
      /\ decisionLevel' \in 0 .. decisionLevel
      /\ DOMAIN trail_lim' = 1 .. decisionLevel'
      /\ \A j \in DOMAIN trail_lim' : j \in DOMAIN trail_lim /\ trail_lim'[j] = trail_lim[j]
      /\ n \in 0 .. Len(trail)
  BY BacktrackFacts
<1>2. NLits' = NLits
  BY DEF NLits
<1>3. \A i \in 1 .. n : i \in DOMAIN trail /\ trail'[i] = trail[i] /\ trail[i].level <= lev
  <2>1. TAKE i \in 1 .. n
  <2>2. i \in DOMAIN trail /\ i <= n
    BY <1>0, <1>1
  <2>3. trail[i].level <= lev
    BY <2>2, KeptLevels
  <2>. QED
    BY <2>2, <2>3
<1>4. \A i \in DOMAIN trail' : i \in 1 .. n \/ (i = m /\ Len(trail') = m)
  BY <1>1
<1>5. \A j \in DOMAIN trail_lim' : trail_lim[j] <= n
  BY KeptLimits, <1>1
<1>6. ASSUME NEW i \in 1 .. n
      PROVE  /\ trail'[i].lit \in NLits' /\ trail'[i].level \in 0 .. decisionLevel'
             /\ trail'[i].reason \in CRefs \cup {CRef_Undef}
             /\ \A j \in DOMAIN trail_lim' : trail_lim'[j] < i <=> j <= trail'[i].level
             /\ trail'[i].level > 0 /\ trail'[i].reason = CRef_Undef => i = trail_lim'[trail'[i].level] + 1
  <2>0. i \in DOMAIN trail /\ trail'[i] = trail[i] /\ trail[i].level <= lev
    BY <1>3
  <2>1. /\ trail[i].lit \in NLits /\ trail[i].level \in 0 .. decisionLevel
        /\ trail[i].reason \in CRefs \cup {CRef_Undef}
        /\ \A j \in DOMAIN trail_lim : trail_lim[j] < i <=> j <= trail[i].level
        /\ trail[i].level > 0 /\ trail[i].reason = CRef_Undef => i = trail_lim[trail[i].level] + 1
    BY <2>0 DEF LevelsInv
  <2>2. trail[i].level \in 0 .. decisionLevel'
    BY <1>0, <1>1, <2>0, <2>1
  <2>3. trail[i].level > 0 => trail[i].level \in DOMAIN trail_lim'
    BY <1>1, <2>2
  <2>. QED
    BY <1>1, <1>2, <2>0, <2>1, <2>2, <2>3
<1>7. ASSUME Len(trail') = m
      PROVE  /\ trail'[m].lit \in NLits' /\ trail'[m].level \in 0 .. decisionLevel'
             /\ trail'[m].reason \in CRefs \cup {CRef_Undef}
             /\ \A j \in DOMAIN trail_lim' : trail_lim'[j] < m <=> j <= trail'[m].level
             /\ trail'[m].level > 0 /\ trail'[m].reason = CRef_Undef => m = trail_lim'[trail'[m].level] + 1
  <2>1. \A j \in DOMAIN trail_lim' : trail_lim'[j] < m /\ j <= decisionLevel'
    <3>1. TAKE j \in DOMAIN trail_lim'
    <3>2. trail_lim'[j] <= n /\ trail_lim'[j] \in Nat /\ n \in Nat
      BY <1>0, <1>1, <1>5
    <3>. QED
      BY <1>0, <1>1, <3>2
  <2>2. decisionLevel' = lev
    BY <1>1, <1>7
  <2>. QED
    BY <1>2, <1>7, <2>1, <2>2
<1>8. \A i, j \in DOMAIN trail' : var(trail'[i].lit) = var(trail'[j].lit) => i = j
  BY <1>3, <1>4 DEF LevelsInv
<1>. HIDE DEF n, m
<1>. QED
  BY <1>4, <1>6, <1>7, <1>8 DEF LevelsInv

\* So does a jump back,
LEMMA TakeOffKeepsLevels ==
    ASSUME OrderInv, LevelsInv, NEW lev \in Nat, TakesOff(lev), UNCHANGED nVars
    PROVE  LevelsInv'
<1>1. Len(trail') = LimitOf(lev) /\ DOMAIN trail' = 1 .. LimitOf(lev)
      /\ \A i \in DOMAIN trail' : trail'[i] = trail[i]
  BY TakesOffFacts
<1>2. LimitOf(lev) \in Nat
  BY BacktrackFacts, TrailFacts DEF TakesOff
<1>3. Len(trail') # LimitOf(lev) + 1
  BY <1>1, <1>2
<1>. QED
  BY <1>1, <1>3, ShortenKeepsLevels DEF TakesOff

\* The learnt literal is not on the part of the trail that is kept.
LEMMA LearnKeepsLevels ==
    ASSUME OrderInv, LevelsInv, NEW lev \in Nat, NEW l, NEW from \in CRefs \cup {CRef_Undef},
           Learns(lev, l, from), UNCHANGED nVars, lev < decisionLevel, TrueAt(-l, Top), l \in Lits,
           from = CRef_Undef => lev = 0
    PROVE  LevelsInv' /\ \A i \in 1 .. LimitOf(lev) : var(trail[i].lit) # var(l)
<1>. DEFINE n == LimitOf(lev)
            m == n + 1
<1>1. /\ n \in 0 .. Len(trail)
      /\ Len(trail') = m /\ DOMAIN trail' = 1 .. m
      /\ \A i \in 1 .. n : i \in DOMAIN trail /\ trail'[i] = trail[i]
      /\ trail'[m].lit = l /\ trail'[m].level = lev /\ trail'[m].reason = from
  BY LearnsFacts
<1>2. PICK i \in DOMAIN trail : trail[i].lit = -l /\ trail[i].level = decisionLevel
  BY DEF TrueAt, Top
<1>3. l \in NLits /\ var(trail[i].lit) = var(l)
  BY <1>2, LitsFacts DEF LevelsInv, NLits
<1>4. ~ i <= n
  BY <1>2, KeptLevels, TrailFacts
<1>5. \A j \in 1 .. n : var(trail[j].lit) # var(l)
  <2>1. TAKE j \in 1 .. n
  <2>2. j \in DOMAIN trail /\ j <= n
    BY <1>1
  <2>3. j # i
    BY <1>4, <2>2
  <2>. QED
    BY <1>3, <2>2, <2>3 DEF LevelsInv
<1>6. lev > 0 => from # CRef_Undef
  OBVIOUS
<1>. QED
  BY <1>1, <1>3, <1>5, <1>6, ShortenKeepsLevels DEF Learns

\* so does a level without a decision, for an assumption that is already true,
LEMMA DummyKeepsLevels ==
    ASSUME OrderInv, LevelsInv, UNCHANGED <<trail, nVars>>, trail_lim' = Append(trail_lim, Len(trail))
    PROVE  LevelsInv'
<1>0. /\ Len(trail) \in Nat /\ DOMAIN trail = 1 .. Len(trail)
      /\ decisionLevel \in Nat /\ DOMAIN trail_lim = 1 .. decisionLevel /\ trail_lim \in Seq(Nat)
      /\ Len(trail_lim) = decisionLevel
  BY TrailFacts
<1>1. /\ decisionLevel' = decisionLevel + 1 /\ DOMAIN trail_lim' = 1 .. decisionLevel + 1
      /\ \A j \in DOMAIN trail_lim : trail_lim'[j] = trail_lim[j]
      /\ trail_lim'[decisionLevel + 1] = Len(trail)
  BY <1>0 DEF decisionLevel
<1>2. NLits' = NLits
  BY DEF NLits
<1>5. ASSUME NEW i \in DOMAIN trail
      PROVE  /\ trail[i].lit \in NLits /\ trail[i].level \in 0 .. decisionLevel'
             /\ trail[i].reason \in CRefs \cup {CRef_Undef}
             /\ \A j \in DOMAIN trail_lim' : trail_lim'[j] < i <=> j <= trail[i].level
             /\ trail[i].level > 0 /\ trail[i].reason = CRef_Undef => i = trail_lim'[trail[i].level] + 1
  <2>1. /\ trail[i].lit \in NLits /\ trail[i].level \in 0 .. decisionLevel
        /\ trail[i].reason \in CRefs \cup {CRef_Undef}
        /\ \A j \in DOMAIN trail_lim : trail_lim[j] < i <=> j <= trail[i].level
        /\ trail[i].level > 0 /\ trail[i].reason = CRef_Undef => i = trail_lim[trail[i].level] + 1
    BY DEF LevelsInv
  <2>3. \A j \in DOMAIN trail_lim' : trail_lim'[j] < i <=> j <= trail[i].level
    <3>1. TAKE j \in DOMAIN trail_lim'
    <3>2. CASE j \in DOMAIN trail_lim /\ trail_lim'[j] = trail_lim[j]
      BY <2>1, <3>2
    <3>3. CASE j = decisionLevel + 1 /\ trail_lim'[j] = Len(trail)
      BY <1>0, <2>1, <3>3
    <3>. QED
      BY <1>0, <1>1, <3>2, <3>3
  <2>4. trail[i].level > 0 => trail[i].level \in DOMAIN trail_lim
    BY <1>0, <2>1
  <2>5. trail[i].level \in 0 .. decisionLevel'
    BY <1>0, <1>1, <2>1
  <2>. QED
    BY <1>1, <2>1, <2>3, <2>4, <2>5
<1>. QED
  BY <1>2, <1>5 DEF LevelsInv

\* so does forgetting reasons at level 0,
LEMMA UnreasonKeepsLevels ==
    ASSUME OrderInv, LevelsInv, UNCHANGED <<trail_lim, nVars>>, NEW rs, trail' = Unreasoned(rs),
           trail_lim = <<>>
    PROVE  LevelsInv'
<1>0. DOMAIN trail_lim = {} /\ decisionLevel = 0
  BY DEF decisionLevel
<1>1. /\ DOMAIN trail' = DOMAIN trail
      /\ \A i \in DOMAIN trail : /\ trail'[i].lit = trail[i].lit /\ trail'[i].level = trail[i].level
                                 /\ trail'[i].reason \in {trail[i].reason, CRef_Undef}
  BY UnreasonedFacts
<1>2. NLits' = NLits /\ decisionLevel' = decisionLevel
  BY DEF NLits, decisionLevel
<1>3. \A i \in DOMAIN trail : ~ trail[i].level > 0 /\ trail[i].level \in 0 .. decisionLevel
                              /\ trail[i].lit \in NLits /\ trail[i].reason \in CRefs \cup {CRef_Undef}
  BY <1>0 DEF LevelsInv
<1>4. \A i \in DOMAIN trail' :
          /\ trail'[i].lit \in NLits' /\ trail'[i].level \in 0 .. decisionLevel'
          /\ trail'[i].reason \in CRefs \cup {CRef_Undef}
          /\ ~ trail'[i].level > 0
  BY <1>1, <1>2, <1>3
<1>5. \A i, j \in DOMAIN trail' : var(trail'[i].lit) = var(trail'[j].lit) => i = j
  BY <1>1 DEF LevelsInv
<1>. QED
  BY <1>0, <1>4, <1>5 DEF LevelsInv

\* and so does what leaves the trail alone.
LEMMA SameKeepsLevels ==
    ASSUME LevelsInv, UNCHANGED <<trail, trail_lim>>, NLits \subseteq NLits'
    PROVE  LevelsInv'
<1>1. decisionLevel' = decisionLevel
  BY DEF decisionLevel
<1>. QED
  BY <1>1 DEF LevelsInv

\* The head and the tail of a sequence, place by place.
LEMMA HeadTail ==
    ASSUME NEW S, NEW s \in Seq(S), s # <<>>
    PROVE  /\ Head(s) = s[1] /\ Head(s) \in S /\ 1 \in DOMAIN s /\ Tail(s) \in Seq(S)
           /\ Len(s) \in Nat /\ Len(s) > 0
           /\ Len(Tail(s)) = Len(s) - 1 /\ DOMAIN Tail(s) = 1 .. Len(s) - 1
           /\ \A n \in 1 .. Len(s) - 1 : Tail(s)[n] = s[n + 1] /\ n + 1 \in DOMAIN s
OBVIOUS

\* The types of the watch lists and of what is left to visit.
LEMMA VisitingType ==
    ASSUME WatchInv
    PROVE  /\ visiting = [p |-> visiting.p, todo |-> visiting.todo]
           /\ visiting.p \in Lits \cup {Undef}
           /\ visiting.todo \in Seq([cref : CRefs, blocker : Lits])
           /\ \A l \in Lits : /\ watches[l] \in Seq([cref : CRefs, blocker : Lits])
                              /\ watchesBin[l] \in Seq([cref : CRefs, blocker : Lits])
BY DEF WatchInv, WatcherSeqs

\* The literal that is propagated is true, and of the level of the last decision.
LEMMA VisitedTrue ==
    ASSUME IInv, pc \in {"binary", "long"}
    PROVE  visiting.p \in Lits /\ visiting.p \in NLits /\ isTrue(visiting.p) /\ TrueAt(visiting.p, Top)
           /\ dirty = {}
<1>1. TrueAt(visiting.p, Top)
  BY DEF IInv, VisitInv
<1>2. isTrue(visiting.p) /\ visiting.p \in NLits
  BY <1>1 DEF IInv, LevelsInv, TrueAt, isTrue
<1>3. dirty = {}
  BY DEF IInv, ControlInv
<1>. QED
  BY <1>1, <1>2, <1>3 DEF NLits

\* The clause of the next watcher, among the binary ones...
LEMMA VisitedBinary ==
    ASSUME IInv, pc = "binary", visiting.todo # <<>>
    PROVE  LET w == Head(visiting.todo)
               p == visiting.p
           IN /\ w.cref \in CRefs /\ w.blocker \in NLits
              /\ w.cref \in DOMAIN ca /\ ca[w.cref].mark = 0 /\ Len(lits(w.cref)) = 2
              /\ lits(w.cref) = <<-p, w.blocker>> \/ lits(w.cref) = <<w.blocker, -p>>
<1>. DEFINE w == Head(visiting.todo)
            p == visiting.p
<1>1. p \in Lits /\ dirty = {}
  BY VisitedTrue
<1>2. w \in [cref : CRefs, blocker : Lits] /\ w = visiting.todo[1] /\ 1 \in DOMAIN visiting.todo
  BY VisitingType, HeadTail DEF IInv
<1>3. PICK m \in DOMAIN watchesBin[p] : watchesBin[p][m] = w
  BY <1>2 DEF IInv, VisitInv
<1>. HIDE DEF w, p
<1>4. /\ w.cref \in DOMAIN ca
      /\ lits(w.cref) = <<-p, w.blocker>> \/ lits(w.cref) = <<w.blocker, -p>>
      /\ ca[w.cref].mark = 0
  BY <1>1, <1>3 DEF IInv, WatchInv
<1>5. w.cref \in CRefs /\ w.blocker \in Lits
  BY <1>2
<1>6. Len(lits(w.cref)) = 2 /\ \E k \in DOMAIN lits(w.cref) : lits(w.cref)[k] = w.blocker
  BY <1>4
<1>7. w.blocker \in NLits
  BY <1>4, <1>6 DEF IInv, ClausesInv
<1>. QED
  BY <1>4, <1>5, <1>6, <1>7 DEF w, p

\* The list that is visited, kept part and rest, place by place.
LEMMA ListOfVisited ==
    ASSUME WatchInv, pc = "long", visiting.p \in Lits
    PROVE  LET p == visiting.p
               n == Len(watches[p])
           IN /\ ListOf(p) = watches[p] \o visiting.todo
              /\ ListOf(p) \in Seq([cref : CRefs, blocker : Lits])
              /\ n \in Nat /\ DOMAIN watches[p] = 1 .. n
              /\ DOMAIN visiting.todo = 1 .. Len(visiting.todo) /\ Len(visiting.todo) \in Nat
              /\ DOMAIN ListOf(p) = 1 .. n + Len(visiting.todo)
              /\ \A i \in 1 .. n : ListOf(p)[i] = watches[p][i]
              /\ \A i \in DOMAIN visiting.todo : /\ n + i \in DOMAIN ListOf(p)
                                                 /\ ListOf(p)[n + i] = visiting.todo[i]
<1>. DEFINE p == visiting.p
            W == [cref : CRefs, blocker : Lits]
            n == Len(watches[p])
            t == visiting.todo
<1>1. watches[p] \in Seq(W) /\ t \in Seq(W)
  BY VisitingType
<1>2. ListOf(p) = watches[p] \o t
  BY DEF ListOf, Pending
<1>. HIDE DEF W, p, t
<1>3. /\ watches[p] \o t \in Seq(W)
      /\ Len(watches[p] \o t) = n + Len(t) /\ n \in Nat /\ Len(t) \in Nat
      /\ DOMAIN watches[p] = 1 .. n /\ DOMAIN t = 1 .. Len(t)
      /\ DOMAIN (watches[p] \o t) = 1 .. n + Len(t)
      /\ \A i \in 1 .. n + Len(t) : (watches[p] \o t)[i] = IF i <= n THEN watches[p][i] ELSE t[i - n]
  BY <1>1
<1>4. \A i \in 1 .. n : i \in 1 .. n + Len(t) /\ i <= n
  BY <1>3
<1>5. \A i \in 1 .. Len(t) : n + i \in 1 .. n + Len(t) /\ ~ n + i <= n /\ (n + i) - n = i
  BY <1>3
<1>. QED
  BY <1>1, <1>2, <1>3, <1>4, <1>5 DEF p, t, W

\* ...and among the long ones, the false literal in the second place.
LEMMA VisitedLong ==
    ASSUME IInv, pc = "long", visiting.todo # <<>>
    PROVE  LET w == Head(visiting.todo)
               p == visiting.p
               ps == Turned(w.cref)
           IN /\ w \in [cref : CRefs, blocker : Lits] /\ w.cref \in Refs(ListOf(p))
              /\ w.cref \in DOMAIN ca /\ ca[w.cref].mark = 0 /\ Len(lits(w.cref)) > 2
              /\ lits(w.cref) \in Seq(Lits)
              /\ ps \in Seq(Lits) /\ Len(ps) = Len(lits(w.cref)) /\ DOMAIN ps = 1 .. Len(ps)
              /\ ps[1] \in NLits /\ ps[2] = -p /\ {ps[1], ps[2]} = {lits(w.cref)[1], lits(w.cref)[2]}
              /\ ps[1] # ps[2]
              /\ ps = lits(w.cref) \/ ps = Swapped(lits(w.cref), 1, 2)
<1>. DEFINE w == Head(visiting.todo)
            p == visiting.p
            ps == Turned(w.cref)
<1>1. p \in Lits /\ dirty = {}
  BY VisitedTrue
<1>2. w \in [cref : CRefs, blocker : Lits] /\ w = visiting.todo[1] /\ 1 \in DOMAIN visiting.todo
  BY VisitingType, HeadTail DEF IInv
<1>3. w.cref \in Refs(ListOf(p))
  <2>1. Len(watches[p]) + 1 \in DOMAIN ListOf(p) /\ ListOf(p)[Len(watches[p]) + 1] = w
    BY <1>1, <1>2, ListOfVisited DEF IInv
  <2>. QED
    BY <2>1 DEF Refs
<1>. HIDE DEF w, p
<1>4. /\ w.cref \in DOMAIN ca /\ ca[w.cref].mark = 0
      /\ Len(lits(w.cref)) > 2 /\ -p \in {lits(w.cref)[1], lits(w.cref)[2]}
  BY <1>1, <1>3 DEF IInv, WatchInv
<1>. DEFINE ls == lits(w.cref)
<1>5. /\ ls \in Seq(Lits) /\ \A k \in DOMAIN ls : ls[k] \in NLits
      /\ \A k, m \in DOMAIN ls : ls[k] = ls[m] => k = m
  BY <1>4 DEF IInv, ClausesInv, ClauseRecords, lits
<1>6. ps = IF ls[1] = -p THEN Swapped(ls, 1, 2) ELSE ls
  BY DEF Turned, p
<1>. HIDE DEF ls, ps
<1>7. 1 \in DOMAIN ls /\ 2 \in DOMAIN ls /\ Len(ls) \in Nat /\ DOMAIN ls = 1 .. Len(ls)
  BY <1>4, <1>5 DEF ls
<1>8. /\ Swapped(ls, 1, 2) \in Seq(Lits) /\ DOMAIN Swapped(ls, 1, 2) = DOMAIN ls
      /\ Len(Swapped(ls, 1, 2)) = Len(ls)
      /\ Swapped(ls, 1, 2)[1] = ls[2] /\ Swapped(ls, 1, 2)[2] = ls[1]
  <2>1. ls \in Seq(Lits) /\ 1 \in DOMAIN ls /\ 2 \in DOMAIN ls
    BY <1>5, <1>7
  <2>. QED
    BY <2>1, SwappedFacts
<1>9. ls[1] # ls[2]
  BY <1>5, <1>7
<1>10. /\ ps \in Seq(Lits) /\ Len(ps) = Len(ls) /\ DOMAIN ps = 1 .. Len(ps)
       /\ ps[1] \in NLits /\ ps[2] = -p /\ {ps[1], ps[2]} = {ls[1], ls[2]} /\ ps[1] # ps[2]
       /\ ps = ls \/ ps = Swapped(ls, 1, 2)
  <2>1. CASE ls[1] = -p
    BY <1>5, <1>6, <1>7, <1>8, <1>9, <2>1
  <2>2. CASE ls[1] # -p
    <3>1. ls[2] = -p
      BY <1>4, <2>2 DEF ls
    <3>. QED
      BY <1>5, <1>6, <1>7, <1>9, <2>2, <3>1
  <2>. QED
    BY <2>1, <2>2
<1>. QED
  BY <1>2, <1>3, <1>4, <1>5, <1>10 DEF w, p, ls, ps

-----------------------------------------------------------------------------
(***************************************************************************)
(* The calls of the user, and the six ways the trail changes.              *)
(***************************************************************************)

\* The next call, and the variables it may use.
LEMMA NewVarsStep ==
    ASSUME NEW s, NEW i \in Nat
    PROVE  /\ NewVars(s, i) \in Nat
           /\ NewVars(s, i + 1) = IF s[i + 1].op = "newVar" THEN NewVars(s, i) + 1 ELSE NewVars(s, i)
<1>. DEFINE New(n) == {j \in 1 .. n : s[j].op = "newVar"}
<1>1. IsFiniteSet(New(i))
  <2>1. IsFiniteSet(1 .. i)
    BY FS_Interval
  <2>. QED
    BY <2>1, FS_Subset
<1>2. New(i + 1) = IF s[i + 1].op = "newVar" THEN New(i) \cup {i + 1} ELSE New(i)
  <2>1. 1 .. i + 1 = 1 .. i \cup {i + 1}
    OBVIOUS
  <2>. QED
    BY <2>1
<1>3. i + 1 \notin New(i)
  OBVIOUS
<1>4. Cardinality(New(i)) \in Nat
  BY <1>1, FS_CardinalityType
<1>5. NewVars(s, i) = Cardinality(New(i)) /\ NewVars(s, i + 1) = Cardinality(New(i + 1))
  BY DEF NewVars
<1>. HIDE DEF New
<1>6. Cardinality(New(i) \cup {i + 1}) = Cardinality(New(i)) + 1
  BY <1>1, <1>3, FS_AddElement
<1>7. Cardinality(New(i + 1)) = IF s[i + 1].op = "newVar" THEN Cardinality(New(i)) + 1
                                ELSE Cardinality(New(i))
  BY <1>2, <1>6
<1>. QED
  BY <1>4, <1>5, <1>7

\* A call uses only variables that have been created.
LEMMA CallFacts ==
    ASSUME ScriptInv, script # <<>>
    PROVE  /\ call \in Calls
           /\ script' = Tail(script) /\ nVars' = (IF call.op = "newVar" THEN nVars + 1 ELSE nVars) => ScriptInv'
           /\ call.op = "newVar" => nVars + 1 <= MaxVars
           /\ call.op # "newVar" => \A l \in Used(call) : var(l) <= nVars
<1>0. PICK s \in Scripts :
         \E i \in 0 .. Len(s) : script = SubSeq(s, i + 1, Len(s)) /\ nVars = NewVars(s, i)
  BY DEF ScriptInv
<1>1. PICK i \in 0 .. Len(s) : script = SubSeq(s, i + 1, Len(s)) /\ nVars = NewVars(s, i)
  BY <1>0
<1>2. /\ s \in Seq(Calls) /\ NewVars(s, Len(s)) <= MaxVars
      /\ \A j \in DOMAIN s : \A l \in Used(s[j]) : var(l) <= NewVars(s, j)
  BY ScriptsAssumption
<1>. DEFINE C == Calls
<1>3. s \in Seq(C) /\ Len(s) \in Nat /\ DOMAIN s = 1 .. Len(s)
  BY <1>2
<1>. HIDE DEF C
<1>4. i < Len(s) /\ i \in Nat
  <2>1. i # Len(s)
    <3>1. SUFFICES ASSUME i = Len(s)  PROVE FALSE
      OBVIOUS
    <3>2. Len(s) + 1 \in Int /\ Len(s) \in Int /\ Len(s) < Len(s) + 1
      BY <1>3
    <3>3. SubSeq(s, Len(s) + 1, Len(s)) = <<>>
      BY <3>2, SubSeqEmpty
    <3>. QED
      BY <1>1, <3>1, <3>3
  <2>. DEFINE N == Len(s)
  <2>0. N \in Nat /\ i \in 0 .. N /\ i # N
    BY <1>3, <2>1
  <2>. HIDE DEF N
  <2>2. i \in Nat /\ N \in Nat /\ i <= N /\ i # N
    BY <2>0
  <2>3. i < N
    BY <2>2
  <2>. QED
    BY <2>2, <2>3 DEF N
<1>5. call = s[i + 1] /\ i + 1 \in DOMAIN s /\ Tail(script) = SubSeq(s, (i + 1) + 1, Len(s))
  <2>1. i + 1 \in 1 .. Len(s)
    BY <1>3, <1>4
  <2>2. Head(script) = s[i + 1] /\ Tail(script) = SubSeq(s, (i + 1) + 1, Len(s))
    <3>1. Len(s) \in i + 1 .. Len(s)
      BY <1>3, <1>4
    <3>. DEFINE t == SubSeq(s, i + 1, Len(s))
                u == SubSeq(s, (i + 1) + 1, Len(s))
    <3>2. Head(t) = s[i + 1] /\ Tail(t) = u
      BY <1>3, <2>1, <3>1, HeadTailOfSubSeq
    <3>3. script = t
      BY <1>1
    <3>. HIDE DEF t, u
    <3>4. Head(script) = s[i + 1] /\ Tail(script) = u
      BY <3>2, <3>3
    <3>. QED
      BY <3>4 DEF u
  <2>. QED
    BY <1>3, <2>1, <2>2 DEF call
<1>6. /\ NewVars(s, i) \in Nat
      /\ NewVars(s, i + 1) = IF s[i + 1].op = "newVar" THEN NewVars(s, i) + 1 ELSE NewVars(s, i)
  BY <1>4, NewVarsStep
<1>7. call \in C
  BY <1>3, <1>5
<1>8. ASSUME script' = Tail(script), nVars' = (IF call.op = "newVar" THEN nVars + 1 ELSE nVars)
      PROVE  ScriptInv'
  <2>1. i + 1 \in 0 .. Len(s) /\ script' = SubSeq(s, (i + 1) + 1, Len(s)) /\ nVars' = NewVars(s, i + 1)
    BY <1>1, <1>3, <1>4, <1>5, <1>6, <1>8
  <2>. QED
    BY <2>1 DEF ScriptInv
<1>9. call.op # "newVar" => \A l \in Used(call) : var(l) <= nVars
  BY <1>1, <1>2, <1>5, <1>6
<1>10. ASSUME call.op = "newVar"  PROVE nVars + 1 <= MaxVars
  <2>1. NewVars(s, i + 1) <= NewVars(s, Len(s))
    <3>. DEFINE A == {j \in 1 .. i + 1 : s[j].op = "newVar"}
                B == {j \in 1 .. Len(s) : s[j].op = "newVar"}
    <3>1. IsFiniteSet(B)
      <4>1. IsFiniteSet(1 .. Len(s))
        BY <1>3, FS_Interval
      <4>. QED
        BY <4>1, FS_Subset
    <3>2. A \subseteq B
      BY <1>3, <1>4
    <3>. HIDE DEF A, B
    <3>3. Cardinality(A) <= Cardinality(B)
      BY <3>1, <3>2, FS_Subset
    <3>. QED
      BY <3>3 DEF A, B, NewVars
  <2>2. NewVars(s, Len(s)) \in Nat
    BY <1>3, NewVarsStep
  <2>. QED
    BY <1>1, <1>2, <1>5, <1>6, <1>10, <2>1, <2>2, MaxVarsAssumption
<1>. QED
  BY <1>7, <1>8, <1>9, <1>10 DEF C

\* The literals of a clause, or the assumptions, of a call.
LEMMA CalledLits ==
    ASSUME ScriptInv, script # <<>>
    PROVE  /\ call.op = "clause" => call.lits \in Seq(Lits) /\ ToSet(call.lits) \subseteq NLits
           /\ call.op = "solve" => call.assumps \in Seq(Lits) /\ \A i \in DOMAIN call.assumps : call.assumps[i] \in NLits
<1>1. call \in Calls /\ (call.op # "newVar" => \A l \in Used(call) : var(l) <= nVars)
  BY CallFacts
<1>2. ASSUME call.op = "clause"  PROVE call.lits \in Seq(Lits) /\ ToSet(call.lits) \subseteq NLits
  <2>1. call.lits \in Seq(Lits)
    BY <1>1, <1>2 DEF Calls
  <2>2. Used(call) = ToSet(call.lits)
    BY <1>2 DEF Used
  <2>. QED
    BY <1>1, <1>2, <2>1, <2>2 DEF ToSet, NLits
<1>3. ASSUME call.op = "solve"
      PROVE  call.assumps \in Seq(Lits) /\ \A i \in DOMAIN call.assumps : call.assumps[i] \in NLits
  <2>1. call.assumps \in Seq(Lits)
    BY <1>1, <1>3 DEF Calls
  <2>2. Used(call) = ToSet(call.assumps)
    BY <1>3 DEF Used
  <2>. QED
    BY <1>1, <1>3, <2>1, <2>2 DEF ToSet, NLits
<1>. QED
  BY <1>2, <1>3

\* What addClause_ makes of a clause.
LEMMA AddedLits ==
    ASSUME IInv, script # <<>>, call.op = "clause", ~ Superfluous(call.lits)
    PROVE  LET qs == Sorted(Unassigned(call.lits)) IN
           /\ qs \in Seq(Lits) /\ \A k \in DOMAIN qs : qs[k] \in NLits /\ isUndef(qs[k])
           /\ \A k, m \in DOMAIN qs : qs[k] = qs[m] => k = m
           /\ \A k, m \in DOMAIN qs : qs[k] # -qs[m]
           /\ ToSet(qs) = Unassigned(call.lits)
<1>. DEFINE U == Unassigned(call.lits)
            qs == Sorted(U)
<1>1. call.lits \in Seq(Lits) /\ ToSet(call.lits) \subseteq NLits
  BY CalledLits DEF IInv
<1>2. U \subseteq NLits /\ U \subseteq Lits /\ \A l \in U : isUndef(l) /\ -l \notin U
  BY <1>1 DEF Unassigned, NLits, Superfluous, isUndef
<1>. HIDE DEF U
<1>3. /\ qs \in Seq(U) /\ \A n, m \in DOMAIN qs : qs[n] = qs[m] => n = m
      /\ \A l \in U : \E n \in DOMAIN qs : qs[n] = l
  BY <1>2, SortedFacts
<1>. HIDE DEF qs
<1>4. qs \in Seq(Lits) /\ \A k \in DOMAIN qs : qs[k] \in U
  BY <1>2, <1>3
<1>5. ToSet(qs) = U
  BY <1>3, <1>4 DEF ToSet
<1>6. \A k, m \in DOMAIN qs : qs[k] # -qs[m]
  BY <1>2, <1>4
<1>. QED
  BY <1>2, <1>3, <1>4, <1>5, <1>6 DEF U, qs

(* What a step does to the trail. *)
Quiet == UNCHANGED <<trail, trail_lim>> /\ nVars' \in {nVars, nVars + 1}
Forces(cr, l) ==
    /\ cr \in DOMAIN ca' /\ ca'[cr].mark = 0
    /\ \E k \in DOMAIN ca'[cr].lits : ca'[cr].lits[k] = l
    /\ Len(ca'[cr].lits) > 2 => ca'[cr].lits[1] = l
    /\ \A k \in DOMAIN ca'[cr].lits : ca'[cr].lits[k] = l \/ isTrue(-ca'[cr].lits[k])
EnqueueStep == \E l \in NLits, from \in CRefs \cup {CRef_Undef} :
    /\ isUndef(l) /\ Enqueues(l, from) /\ UNCHANGED nVars
    /\ \/ /\ from = CRef_Undef /\ trail_lim' = trail_lim /\ trail_lim = <<>> /\ pc = "idle"
          /\ Sorted(Unassigned(call.lits)) = <<l>> /\ script # <<>> /\ call.op = "clause"
          /\ ~ Superfluous(call.lits) /\ formula' = formula \cup {ToSet(call.lits)}
       \/ from = CRef_Undef /\ trail_lim' = Append(trail_lim, Len(trail)) /\ pc = "decide"
       \/ /\ from # CRef_Undef /\ trail_lim' = trail_lim /\ pc \in {"binary", "long"}
          /\ Forces(from, l)
LearnStep == \E lev \in Nat, from \in CRefs \cup {CRef_Undef} :
    /\ pc = "learn" /\ lev < decisionLevel /\ Learns(lev, an.out[1], from) /\ UNCHANGED nVars
    /\ \/ from = CRef_Undef /\ Len(an.out) = 1 /\ lev = 0
       \/ /\ from # CRef_Undef /\ Fresh(from) /\ ca' = alloc(from, an.out, TRUE, an.lbd)
          /\ Len(an.out) > 1 /\ lev = level(an.out[2])
TakeOffStep == TakesOff(0) /\ UNCHANGED nVars /\ pc \in {"search", "return"}
DummyStep == UNCHANGED <<trail, nVars>> /\ trail_lim' = Append(trail_lim, Len(trail)) /\ pc = "decide"
UnreasonStep == /\ \E rs : trail' = Unreasoned(rs)
                /\ UNCHANGED <<trail_lim, nVars>> /\ trail_lim = <<>> /\ pc = "simplify"

\* Learn jumps back below the current level and enqueues a literal that is then
\* without a value.
LEMMA LearnSteps ==
    ASSUME IInv, Learn
    PROVE  LearnStep
<1>1. PICK bt \in 0 .. decisionLevel :
         /\ bt = IF Len(an.out) = 1 THEN 0 ELSE level(an.out[2])
         /\ Backtrack(bt)
         /\ \/ /\ Len(an.out) = 1
               /\ trail' = Append(Kept(bt), Enqueued(an.out[1], bt, CRef_Undef))
            \/ /\ Len(an.out) > 1
               /\ \E cr \in CRefs :
                     /\ Fresh(cr)
                     /\ ca' = alloc(cr, an.out, TRUE, an.lbd)
                     /\ trail' = Append(Kept(bt), Enqueued(an.out[1], bt, cr))
  BY DEF Learn
<1>2. pc = "learn" /\ UNCHANGED nVars
  BY DEF Learn, user
<1>3. OrderInv /\ LevelsInv /\ decisionLevel > 0 /\ OutGood(an.out) /\ an.out \in Seq(Lits)
  BY <1>2 DEF IInv, MinimiseInv, ValuesInv, AnType
<1>4. decisionLevel \in Nat
  BY <1>3, TrailFacts
<1>5. CRef_Undef \notin CRefs
  BY CountsAssumption DEF CRefs, CRef_Undef
<1>6. CASE Len(an.out) = 1
  <2>1. bt = 0 /\ Learns(bt, an.out[1], CRef_Undef)
    BY <1>1, <1>6 DEF Learns
  <2>. QED
    BY <1>2, <1>3, <1>4, <1>6, <2>1 DEF LearnStep
<1>7. CASE Len(an.out) > 1
  <2>1. bt = level(an.out[2])
    BY <1>1, <1>7
  <2>2. 2 \in 2 .. Len(an.out)
    BY <1>3, <1>7
  <2>3. TrueAt(-an.out[2], BelowTop) /\ an.out[2] \in Lits
    BY <1>3, <1>7, <2>2 DEF OutGood
  <2>4. PICK i \in DOMAIN trail : trail[i].lit = -an.out[2] /\ trail[i].level \in BelowTop
    BY <2>3 DEF TrueAt
  <2>5. var(an.out[2]) = var(trail[i].lit)
    BY <2>3, <2>4, LitsFacts
  <2>6. bt = trail[i].level
    BY <1>3, <2>1, <2>5, PlaceOf
  <2>7. bt < decisionLevel /\ bt \in Nat
    BY <1>4, <2>4, <2>6 DEF BelowTop
  <2>8. PICK cr \in CRefs : /\ Fresh(cr)
                            /\ ca' = alloc(cr, an.out, TRUE, an.lbd)
                            /\ trail' = Append(Kept(bt), Enqueued(an.out[1], bt, cr))
    <3>1. Len(an.out) # 1
      <4>. DEFINE n == Len(an.out)
      <4>1. n \in Nat /\ n > 1
        BY <1>3, <1>7
      <4>. HIDE DEF n
      <4>2. n # 1
        BY <4>1
      <4>. QED
        BY <4>2 DEF n
    <3>. QED
      BY <1>1, <3>1, Zenon
  <2>9. Learns(bt, an.out[1], cr) /\ cr # CRef_Undef
    BY <1>1, <1>5, <2>8 DEF Learns
  <2>. QED
    BY <1>2, <1>7, <2>1, <2>7, <2>8, <2>9 DEF LearnStep
<1>. QED
  BY <1>1, <1>6, <1>7

\* addClause enqueues at most one literal, at level 0.
LEMMA AddSteps ==
    ASSUME IInv, addClause
    PROVE  Quiet \/ EnqueueStep
<1>1. script # <<>> /\ call.op = "clause" /\ pc = "idle" /\ UNCHANGED <<nVars, trail_lim>>
      /\ formula' = formula \cup {ToSet(call.lits)}
  BY DEF addClause, addClauseThen, Called, call, UnchangedByAdd
<1>. DEFINE qs == Sorted(Unassigned(call.lits))
<1>2. \/ UNCHANGED trail
      \/ ~ Superfluous(call.lits) /\ Len(qs) = 1 /\ uncheckedEnqueue(qs[1], CRef_Undef)
  BY DEF addClause, addClauseThen, addClause_
<1>3. CASE UNCHANGED trail
  BY <1>1, <1>3 DEF Quiet
<1>4. CASE ~ Superfluous(call.lits) /\ Len(qs) = 1 /\ uncheckedEnqueue(qs[1], CRef_Undef)
  <2>1. qs \in Seq(Lits) /\ \A k \in DOMAIN qs : qs[k] \in NLits /\ isUndef(qs[k])
    BY <1>1, <1>4, AddedLits
  <2>2. 1 \in DOMAIN qs /\ qs = <<qs[1]>>
    BY <1>4, <2>1
  <2>3. trail_lim = <<>>
    BY <1>1 DEF IInv, ControlInv
  <2>4. Enqueues(qs[1], CRef_Undef)
    BY <1>1, <1>4 DEF Enqueues, uncheckedEnqueue, decisionLevel
  <2>. HIDE DEF qs
  <2>5. qs[1] \in NLits /\ isUndef(qs[1])
    BY <2>1, <2>2
  <2>. QED
    BY <1>1, <1>4, <2>2, <2>3, <2>4, <2>5 DEF EnqueueStep, qs
<1>. QED
  BY <1>2, <1>3, <1>4

\* The visit of a watcher of a clause of two enqueues at most one literal.
LEMMA BinarySteps ==
    ASSUME IInv, VisitBinary
    PROVE  Quiet \/ EnqueueStep
<1>. DEFINE w == Head(visiting.todo)
            p == visiting.p
<1>1. /\ pc = "binary" /\ visiting.todo # <<>> /\ UNCHANGED <<nVars, trail_lim, ca>>
      /\ \/ UNCHANGED trail
         \/ isUndef(w.blocker) /\ uncheckedEnqueue(w.blocker, w.cref)
  BY DEF VisitBinary, UnchangedByPropagate, user
<1>2. CASE UNCHANGED trail
  BY <1>1, <1>2 DEF Quiet
<1>3. CASE isUndef(w.blocker) /\ uncheckedEnqueue(w.blocker, w.cref)
  <2>1. /\ w.cref \in CRefs /\ w.blocker \in NLits
        /\ w.cref \in DOMAIN ca /\ ca[w.cref].mark = 0 /\ Len(lits(w.cref)) = 2
        /\ lits(w.cref) = <<-p, w.blocker>> \/ lits(w.cref) = <<w.blocker, -p>>
    BY <1>1, VisitedBinary
  <2>2. isTrue(p) /\ p \in Lits
    BY <1>1, VisitedTrue
  <2>. HIDE DEF w, p
  <2>3. Enqueues(w.blocker, w.cref) /\ w.cref # CRef_Undef
    BY <1>1, <1>3, <2>1, CountsAssumption DEF Enqueues, uncheckedEnqueue, decisionLevel, CRefs, CRef_Undef
  <2>4. isTrue(-(-p))
    BY <2>2, LitsFacts
  <2>5. Forces(w.cref, w.blocker)
    <3>. DEFINE ls == ca'[w.cref].lits
    <3>1. ls = <<-p, w.blocker>> \/ ls = <<w.blocker, -p>>
      BY <1>1, <2>1 DEF lits
    <3>2. w.cref \in DOMAIN ca' /\ ca'[w.cref].mark = 0
      BY <1>1, <2>1
    <3>. HIDE DEF ls
    <3>3. /\ \E k \in DOMAIN ls : ls[k] = w.blocker
          /\ ~ Len(ls) > 2
          /\ \A k \in DOMAIN ls : ls[k] = w.blocker \/ ls[k] = -p
      BY <3>1
    <3>. QED
      BY <2>4, <3>2, <3>3 DEF Forces, ls
  <2>. QED
    BY <1>1, <1>3, <2>1, <2>3, <2>5 DEF EnqueueStep
<1>. QED
  BY <1>1, <1>2, <1>3

\* So does the visit of a watcher of a longer clause.
LEMMA KeepSteps ==
    ASSUME IInv, KeepWatch
    PROVE  Quiet \/ EnqueueStep
<1>. DEFINE w == Head(visiting.todo)
            p == visiting.p
            ps == Turned(w.cref)
<1>1. /\ pc = "long" /\ visiting.todo # <<>> /\ UNCHANGED <<nVars, trail_lim>>
      /\ isTrue(ps[1]) \/ Replacements(ps) = {}
      /\ ca' = [ca EXCEPT ![w.cref].lits = ps]
      /\ \/ UNCHANGED trail
         \/ isUndef(ps[1]) /\ uncheckedEnqueue(ps[1], w.cref)
  BY DEF KeepWatch, UnchangedByPropagate, user
<1>2. CASE UNCHANGED trail
  BY <1>1, <1>2 DEF Quiet
<1>3. CASE isUndef(ps[1]) /\ uncheckedEnqueue(ps[1], w.cref)
  <2>1. /\ w \in [cref : CRefs, blocker : Lits]
        /\ w.cref \in DOMAIN ca /\ ca[w.cref].mark = 0
        /\ ps \in Seq(Lits) /\ DOMAIN ps = 1 .. Len(ps) /\ Len(ps) > 2
        /\ ps[1] \in NLits /\ ps[2] = -p
    BY <1>1, VisitedLong
  <2>2. isTrue(p) /\ p \in Lits
    BY <1>1, VisitedTrue
  <2>3. Replacements(ps) = {}
    BY <1>1, <1>3 DEF isUndef
  <2>. HIDE DEF w, p, ps
  <2>4. Enqueues(ps[1], w.cref) /\ w.cref # CRef_Undef
    BY <1>1, <1>3, <2>1, CountsAssumption DEF Enqueues, uncheckedEnqueue, decisionLevel, CRefs, CRef_Undef
  <2>5. \A k \in DOMAIN ps : ps[k] = ps[1] \/ isTrue(-ps[k])
    <3>1. TAKE k \in DOMAIN ps
    <3>2. CASE k = 1
      BY <3>2
    <3>3. CASE k = 2
      BY <2>1, <2>2, <3>3, LitsFacts
    <3>4. CASE k # 1 /\ k # 2
      <4>1. k \in 3 .. Len(ps)
        BY <2>1, <3>4
      <4>. QED
        BY <2>3, <4>1 DEF Replacements, isFalse
    <3>. QED
      BY <3>2, <3>3, <3>4
  <2>6. w.cref \in DOMAIN ca' /\ ca'[w.cref].mark = 0 /\ ca'[w.cref].lits = ps
    <3>1. ca[w.cref] \in ClauseRecords
      BY <2>1 DEF IInv, ClausesInv
    <3>. QED
      BY <1>1, <2>1, <3>1 DEF ClauseRecords
  <2>7. Forces(w.cref, ps[1])
    BY <2>1, <2>5, <2>6 DEF Forces
  <2>8. w.cref \in CRefs
    BY <2>1
  <2>. QED
    BY <1>1, <1>3, <2>1, <2>4, <2>7, <2>8 DEF EnqueueStep
<1>. QED
  BY <1>1, <1>2, <1>3

\* An assumption or a decision opens a level with one literal.
LEMMA DecideSteps ==
    ASSUME IInv, Assume \/ PickBranchLit
    PROVE  EnqueueStep
<1>1. ASSUME NEW l \in NLits, isUndef(l), Decided(l), UNCHANGED nVars, pc = "decide"
      PROVE  EnqueueStep
  <2>1. Len(trail_lim') = decisionLevel + 1
    BY <1>1, TrailFacts DEF Decided, newDecisionLevel, decisionLevel, IInv
  <2>2. Enqueues(l, CRef_Undef)
    BY <1>1, <2>1 DEF Enqueues, Decided, newDecisionLevel
  <2>. QED
    BY <1>1, <2>2 DEF EnqueueStep, Decided, newDecisionLevel
<1>2. CASE Assume
  <2>1. pc = "decide" /\ decisionLevel < Len(assumptions) /\ isUndef(Assumed) /\ Decided(Assumed)
        /\ UNCHANGED nVars
    BY <1>2 DEF Assume, UnchangedByDecide, user
  <2>2. assumptions \in Seq(Lits) /\ \A i \in DOMAIN assumptions : assumptions[i] \in NLits
    BY DEF IInv, ValuesInv
  <2>3. decisionLevel \in Nat
    BY TrailFacts DEF IInv
  <2>4. decisionLevel + 1 \in DOMAIN assumptions
    BY <2>1, <2>2, <2>3
  <2>5. Assumed \in NLits
    BY <2>2, <2>4 DEF Assumed
  <2>. QED
    BY <1>1, <2>1, <2>5
<1>3. CASE PickBranchLit
  <2>1. PICK v \in Candidates : Decided(mkLit(v, polarity[v]))
    BY <1>3 DEF PickBranchLit
  <2>2. pc = "decide" /\ UNCHANGED nVars
    BY <1>3 DEF PickBranchLit, UnchangedByDecide, user
  <2>. DEFINE l == mkLit(v, polarity[v])
  <2>3. v \in 1 .. nVars /\ nVars \in 0 .. MaxVars /\ MaxVars \in Nat /\ isUndef(v)
    BY MaxVarsAssumption DEF Candidates, IInv, ValuesInv
  <2>4. v \in Vars /\ v <= nVars
    BY <2>3 DEF Vars
  <2>5. v \in Lits /\ -v \in Lits /\ var(v) = v /\ var(-v) = v
    BY <2>4, LitsFacts
  <2>6. l = v \/ l = -v
    BY DEF mkLit
  <2>7. -(-v) = v
    BY <2>5, LitsFacts
  <2>8. isUndef(-v)
    BY <2>3, <2>7 DEF isUndef, isFalse
  <2>9. l \in NLits /\ isUndef(l)
    BY <2>3, <2>4, <2>5, <2>6, <2>8 DEF NLits
  <2>. HIDE DEF l
  <2>. QED
    BY <1>1, <2>1, <2>2, <2>9 DEF l
<1>. QED
  BY <1>2, <1>3

\* The six ways the trail changes.
LEMMA TrailSteps ==
    ASSUME IInv, [Next]_svars
    PROVE  Quiet \/ EnqueueStep \/ LearnStep \/ TakeOffStep \/ DummyStep \/ UnreasonStep
<1>. USE DEF assignment, user
<1>1. CASE newVar
  BY <1>1 DEF newVar, Quiet
<1>2. CASE addClause
  BY <1>2, AddSteps
<1>3. CASE callSimplify \/ solve \/ interrupt
  BY <1>3 DEF callSimplify, solve, interrupt, Quiet
<1>4. CASE Added
  BY <1>4 DEF Added, Quiet
<1>5. CASE Return
  <2>1. TakesOff(0) /\ pc = "return" /\ UNCHANGED nVars
    BY <1>5 DEF Return, Returned, cancelUntil, TakesOff
  <2>. QED
    BY <2>1 DEF TakeOffStep
<1>6. CASE VisitBinary
  BY <1>6, BinarySteps
<1>7. CASE KeepWatch
  BY <1>7, KeepSteps
<1>8. CASE Dequeue \/ Propagated \/ StartLong \/ SkipClause \/ MoveWatch \/ EndLong
  BY <1>8 DEF Dequeue, Propagated, StartLong, SkipClause, MoveWatch, EndLong, UnchangedByPropagate, Quiet
<1>9. CASE SearchConflict \/ NoConflict \/ SimplifyReturns \/ CheckGarbage \/ KeepLearnts
            \/ NothingToReduce \/ reduceDB
  BY <1>9 DEF SearchConflict, NoConflict, SimplifyReturns, CheckGarbage, KeepLearnts, NothingToReduce,
              reduceDB, Quiet
<1>10. CASE Analyze \/ Minimise \/ litRedundant \/ Shorten
  BY <1>10 DEF Analyze, Minimise, litRedundant, Shorten, UnchangedByAnalyze, Quiet
<1>11. CASE Learn
  BY <1>11, LearnSteps
<1>12. CASE Restart
  <2>1. TakesOff(0) /\ pc = "search" /\ UNCHANGED nVars
    BY <1>12 DEF Restart, cancelUntil, TakesOff
  <2>. QED
    BY <2>1 DEF TakeOffStep
<1>13. CASE Simplify
  <2>1. pc = "simplify" /\ UNCHANGED <<trail_lim, nVars>> /\ \E rs : trail' = Unreasoned(rs)
    BY <1>13 DEF Simplify, removeClauses
  <2>2. trail_lim = <<>>
    BY <2>1 DEF IInv, ControlInv
  <2>. QED
    BY <2>1, <2>2 DEF UnreasonStep
<1>14. CASE DummyLevel
  <2>1. UNCHANGED <<trail, nVars>> /\ trail_lim' = Append(trail_lim, Len(trail)) /\ pc = "decide"
    BY <1>14 DEF DummyLevel, newDecisionLevel, UnchangedByDecide
  <2>. QED
    BY <2>1 DEF DummyStep
<1>15. CASE AssumptionFails \/ AnalyzeFinal \/ FinalAnalyzed \/ ModelFound
  BY <1>15 DEF AssumptionFails, AnalyzeFinal, FinalAnalyzed, ModelFound, UnchangedByDecide, Quiet
<1>16. CASE Assume \/ PickBranchLit
  BY <1>16, DecideSteps
<1>17. CASE UNCHANGED svars
  BY <1>17 DEF svars, Quiet
<1>. HIDE DEF assignment, user
<1>. QED
  BY <1>1, <1>2, <1>3, <1>4, <1>5, <1>6, <1>7, <1>8, <1>9, <1>10, <1>11, <1>12, <1>13, <1>14, <1>15,
     <1>16, <1>17 DEF Next, Step, User, Search, Propagate

\* Variables are only added.
LEMMA NLitsGrow ==
    ASSUME IInv, nVars' \in {nVars, nVars + 1}
    PROVE  NLits \subseteq NLits'
<1>1. nVars \in Nat
  BY MaxVarsAssumption DEF IInv, ValuesInv
<1>2. \A l \in Lits : var(l) \in Int
  BY LitsFacts DEF Vars
<1>3. NLits' = {l \in Lits : var(l) <= nVars'}
  BY DEF NLits
<1>4. \A l \in Lits : var(l) <= nVars => var(l) <= nVars'
  BY <1>1, <1>2
<1>. QED
  BY <1>3, <1>4 DEF NLits

\* Every step keeps the levels of the trail right.
LEMMA LevelsStep ==
    ASSUME IInv, [Next]_svars
    PROVE  LevelsInv'
<1>0. OrderInv /\ LevelsInv
  BY DEF IInv
<1>1. CASE Quiet
  BY <1>0, <1>1, NLitsGrow, SameKeepsLevels DEF Quiet
<1>2. CASE EnqueueStep
  <2>1. PICK l \in NLits, from \in CRefs \cup {CRef_Undef} :
           /\ isUndef(l) /\ Enqueues(l, from) /\ UNCHANGED nVars
           /\ \/ from = CRef_Undef /\ trail_lim' = trail_lim /\ trail_lim = <<>>
              \/ from = CRef_Undef /\ trail_lim' = Append(trail_lim, Len(trail))
              \/ from # CRef_Undef /\ trail_lim' = trail_lim
    BY <1>2 DEF EnqueueStep
  <2>2. trail_lim' = Append(trail_lim, Len(trail)) => trail_lim' # trail_lim
    <3>1. trail_lim \in Seq(Nat) /\ Len(trail) \in Nat
      BY <1>0, TrailFacts
    <3>2. Len(Append(trail_lim, Len(trail))) = Len(trail_lim) + 1 /\ Len(trail_lim) \in Nat
      BY <3>1
    <3>3. Len(Append(trail_lim, Len(trail))) # Len(trail_lim)
      BY <3>2
    <3>. QED
      BY <3>3
  <2>. QED
    BY <1>0, <2>1, <2>2, EnqueueKeepsLevels
<1>3. CASE LearnStep
  <2>1. PICK lev \in Nat, from \in CRefs \cup {CRef_Undef} :
           /\ pc = "learn" /\ lev < decisionLevel /\ Learns(lev, an.out[1], from) /\ UNCHANGED nVars
           /\ from = CRef_Undef => lev = 0
    BY <1>3 DEF LearnStep
  <2>2. OutGood(an.out) /\ an.out \in Seq(Lits)
    BY <2>1 DEF IInv, MinimiseInv, ValuesInv, AnType
  <2>3. an.out[1] \in Lits /\ TrueAt(-an.out[1], Top)
    BY <2>2 DEF OutGood
  <2>. QED
    BY <1>0, <2>1, <2>3, LearnKeepsLevels
<1>4. CASE TakeOffStep
  BY <1>0, <1>4, TakeOffKeepsLevels DEF TakeOffStep
<1>5. CASE DummyStep
  BY <1>0, <1>5, DummyKeepsLevels DEF DummyStep
<1>6. CASE UnreasonStep
  BY <1>0, <1>6, UnreasonKeepsLevels DEF UnreasonStep
<1>. QED
  BY <1>1, <1>2, <1>3, <1>4, <1>5, <1>6, TrailSteps

-----------------------------------------------------------------------------
(***************************************************************************)
(* The order of the calls, and the queue of literals to propagate.         *)
(***************************************************************************)

\* What is left of the script is a tail of it, and fits the variables.
LEMMA ScriptStep ==
    ASSUME IInv, [Next]_svars
    PROVE  ScriptInv'
<1>0. ScriptInv
  BY DEF IInv
<1>1. CASE UNCHANGED <<script, nVars>>
  BY <1>0, <1>1 DEF ScriptInv
<1>2. ASSUME NEW op \in {"newVar", "clause", "simplify", "solve", "interrupt"}, Called(op),
             nVars' = IF op = "newVar" THEN nVars + 1 ELSE nVars
      PROVE  ScriptInv'
  BY <1>0, <1>2, CallFacts DEF Called, call
<1>3. CASE User
  <2>. USE DEF result, user
  <2>1. CASE newVar
    BY <1>2, <2>1 DEF newVar
  <2>2. CASE addClause
    BY <1>2, <2>2 DEF addClause, addClauseThen, UnchangedByAdd
  <2>3. CASE callSimplify
    BY <1>2, <2>3 DEF callSimplify
  <2>4. CASE solve
    BY <1>2, <2>4 DEF solve
  <2>5. CASE interrupt
    BY <1>2, <2>5 DEF interrupt
  <2>. HIDE DEF result, user
  <2>. QED
    BY <1>3, <2>1, <2>2, <2>3, <2>4, <2>5 DEF User
<1>4. CASE Propagate
  BY <1>1, <1>4 DEF Propagate, Dequeue, Propagated, VisitBinary, StartLong, SkipClause, MoveWatch, KeepWatch,
                    EndLong, UnchangedByPropagate, user
<1>5. CASE Search
  <2>. USE DEF user
  <2>1. CASE SearchConflict \/ Restart \/ NoConflict \/ SimplifyReturns \/ Simplify
             \/ KeepLearnts \/ NothingToReduce \/ reduceDB \/ Learn
    BY <1>1, <2>1 DEF SearchConflict, Restart, NoConflict, SimplifyReturns, Simplify, KeepLearnts,
                      NothingToReduce, reduceDB, Learn
  <2>2. CASE Analyze \/ Minimise \/ litRedundant \/ Shorten
    BY <1>1, <2>2 DEF Analyze, Minimise, litRedundant, Shorten, UnchangedByAnalyze
  <2>3. CASE DummyLevel \/ Assume \/ AssumptionFails \/ AnalyzeFinal \/ FinalAnalyzed
             \/ PickBranchLit \/ ModelFound
    BY <1>1, <2>3 DEF DummyLevel, Assume, AssumptionFails, AnalyzeFinal, FinalAnalyzed, PickBranchLit,
                      ModelFound, UnchangedByDecide
  <2>. HIDE DEF user
  <2>. QED
    BY <1>5, <2>1, <2>2, <2>3 DEF Search
<1>6. CASE Added \/ CheckGarbage \/ Return
  BY <1>1, <1>6 DEF Added, CheckGarbage, Return, Returned, user
<1>7. CASE UNCHANGED svars
  BY <1>1, <1>7 DEF svars, user
<1>. QED
  BY <1>3, <1>4, <1>5, <1>6, <1>7 DEF Next, Step

\* Every step keeps to the order of the calls: who called propagate, what
\* follows it, and where only level 0 exists.
LEMMA ControlStep ==
    ASSUME IInv, [Next]_svars
    PROVE  ControlInv'
<1>0. ControlInv
  BY DEF IInv
<1>. DEFINE Low == <<pc, caller, after, trail_lim, dirty>>
<1>1. CASE UNCHANGED Low
  BY <1>0, <1>1 DEF ControlInv, Propagating
<1>2. CASE User
  <2>. USE DEF result, user, database, assignment
  <2>1. CASE newVar \/ interrupt
    BY <1>1, <2>1 DEF newVar, interrupt
  <2>2. CASE addClause
    BY <1>0, <2>2 DEF addClause, addClauseThen, addClause_, UnchangedByAdd, ControlInv, Places, Propagating
  <2>3. CASE callSimplify \/ solve
    BY <1>0, <2>3 DEF callSimplify, solve, solve_, ControlInv, Places, Propagating
  <2>. HIDE DEF result, user, database, assignment
  <2>. QED
    BY <1>2, <2>1, <2>2, <2>3 DEF User
<1>3. CASE Propagate
  <2>. USE DEF UnchangedByPropagate, ControlInv, Places, Propagating
  <2>1. CASE Dequeue \/ Propagated
    BY <1>0, <2>1 DEF Dequeue, Propagated, cleanAll
  <2>2. CASE VisitBinary \/ StartLong \/ SkipClause
    BY <1>0, <2>2 DEF VisitBinary, StartLong, SkipClause
  <2>3. CASE MoveWatch \/ EndLong
    BY <1>0, <2>3 DEF MoveWatch, EndLong
  <2>4. CASE KeepWatch
    <3>1. pc = "long" /\ pc' \in {"long", caller} /\ UNCHANGED <<caller, after, trail_lim, dirty>>
      BY <2>4 DEF KeepWatch
    <3>. QED
      BY <1>0, <3>1
  <2>. QED
    BY <1>3, <2>1, <2>2, <2>3, <2>4 DEF Propagate
<1>4. CASE SearchConflict \/ NoConflict \/ SimplifyReturns \/ KeepLearnts \/ NothingToReduce
  <2>1. decisionLevel = 0 => trail_lim = <<>>
    <3>1. trail_lim \in Seq(Nat)
      BY TrailFacts DEF IInv
    <3>2. Len(trail_lim) = 0 => trail_lim = <<>>
      BY <3>1
    <3>. QED
      BY <3>2 DEF decisionLevel
  <2>. QED
    BY <1>0, <1>4, <2>1 DEF SearchConflict, NoConflict, SimplifyReturns, KeepLearnts, NothingToReduce,
         ControlInv, Places, Propagating, assignment, database, user, Leave
<1>5. CASE Analyze \/ Minimise \/ litRedundant \/ Shorten
  <2>1. /\ pc \in {"analyze", "minimise", "redundant", "shorten"}
        /\ pc' \in {"analyze", "minimise", "redundant", "shorten", "learn"}
        /\ UNCHANGED <<caller, after, trail_lim, dirty>>
    BY <1>5 DEF Analyze, Minimise, litRedundant, Shorten, UnchangedByAnalyze, assignment
  <2>. QED
    BY <1>0, <2>1 DEF ControlInv, Places, Propagating
<1>6. CASE Learn
  <2>1. pc = "learn" /\ pc' = "propagate" /\ caller' = "search" /\ UNCHANGED after
    BY <1>6 DEF Learn
  <2>. QED
    BY <1>0, <2>1 DEF ControlInv, Places, Propagating
<1>7. CASE Restart
  <2>1. pc = "search" /\ pc' \in {"propagate", "return"} /\ UNCHANGED <<caller, after, dirty>>
        /\ Backtrack(0)
    BY <1>7 DEF Restart, Leave, cancelUntil, database
  <2>2. DOMAIN trail_lim' = 1 .. 0 /\ trail_lim' \in Seq(Nat)
    BY <2>1, BacktrackFacts, KeptLimits, TrailFacts DEF IInv
  <2>3. trail_lim' = <<>>
    BY <2>2
  <2>. QED
    BY <1>0, <2>1, <2>3 DEF ControlInv, Places, Propagating
<1>8. CASE Return
  <2>1. pc = "return" /\ pc' = "idle" /\ UNCHANGED <<caller, after, dirty>> /\ Backtrack(0)
    BY <1>8 DEF Return, Returned, cancelUntil, database
  <2>2. DOMAIN trail_lim' = 1 .. 0 /\ trail_lim' \in Seq(Nat)
    BY <2>1, BacktrackFacts, KeptLimits, TrailFacts DEF IInv
  <2>3. trail_lim' = <<>>
    BY <2>2
  <2>. QED
    BY <1>0, <2>1, <2>3 DEF ControlInv, Places, Propagating
<1>9. CASE Simplify
  BY <1>0, <1>9 DEF Simplify, ControlInv, Places, Propagating
<1>10. CASE reduceDB
  BY <1>0, <1>10 DEF reduceDB, ControlInv, Places, Propagating, assignment
<1>11. CASE CheckGarbage \/ Added
  BY <1>0, <1>11 DEF CheckGarbage, Added, ControlInv, Places, Propagating, assignment, database
<1>12. CASE DummyLevel \/ Assume \/ PickBranchLit
  BY <1>0, <1>12 DEF DummyLevel, Assume, PickBranchLit, Decided, UnchangedByDecide, ControlInv, Places,
       Propagating, database
<1>13. CASE AssumptionFails \/ AnalyzeFinal \/ FinalAnalyzed \/ ModelFound
  BY <1>0, <1>13 DEF AssumptionFails, AnalyzeFinal, FinalAnalyzed, ModelFound, Leave, UnchangedByDecide,
       ControlInv, Places, Propagating, database
<1>14. CASE UNCHANGED svars
  BY <1>1, <1>14 DEF svars, database, assignment
<1>. HIDE DEF Low
<1>. QED
  BY <1>2, <1>3, <1>4, <1>5, <1>6, <1>7, <1>8, <1>9, <1>10, <1>11, <1>12, <1>13, <1>14
     DEF Next, Step, Search

\* Where nothing is left to propagate.
Drained == \/ pc \in {"reduce", "decide"}
           \/ pc = "garbage" /\ after # "idle"
           \/ pc \in {"added", "search", "simplify"} /\ confl = CRef_Undef

\* What leaves trail and head alone keeps the queue.
LEMMA SameQueue ==
    ASSUME QueueInv, UNCHANGED <<trail, trail_lim, qhead>>, Drained' => Drained
    PROVE  QueueInv'
BY DEF QueueInv, Drained, decisionLevel

\* So does enqueuing while the queue is not known to be empty,
LEMMA EnqueueQueue ==
    ASSUME OrderInv, QueueInv, UNCHANGED qhead, ~ Drained', NEW l, NEW from, Enqueues(l, from),
           trail_lim' = trail_lim \/ qhead = Len(trail)
    PROVE  QueueInv'
<1>. DEFINE n == Len(trail)
<1>1. /\ n \in Nat /\ Len(trail') = n + 1 /\ DOMAIN trail' = 1 .. n + 1 /\ DOMAIN trail = 1 .. n
      /\ \A i \in 1 .. n : trail'[i] = trail[i]
      /\ trail'[n + 1].level = decisionLevel'
  BY EnqueueFacts, TrailFacts
<1>2. qhead \in 0 .. n /\ \A i \in qhead + 1 .. n : trail[i].level = decisionLevel
  BY DEF QueueInv
<1>3. trail_lim' = trail_lim => decisionLevel' = decisionLevel
  BY DEF decisionLevel
<1>4. \A i \in qhead' + 1 .. Len(trail') : trail'[i].level = decisionLevel'
  <2>. HIDE DEF n
  <2>1. TAKE i \in qhead' + 1 .. Len(trail')
  <2>2. i = n + 1 \/ (i \in qhead + 1 .. n /\ i \in 1 .. n)
    BY <1>1, <1>2
  <2>3. CASE i = n + 1
    BY <1>1, <2>3
  <2>4. CASE i \in qhead + 1 .. n /\ i \in 1 .. n
    <3>1. qhead # n
      BY <1>1, <1>2, <2>4
    <3>. QED
      BY <1>1, <1>2, <1>3, <2>4, <3>1 DEF n
  <2>. QED
    BY <2>2, <2>3, <2>4
<1>. HIDE DEF n
<1>. QED
  BY <1>1, <1>2, <1>4 DEF QueueInv, Drained

\* and so does a jump back.
LEMMA BacktrackQueue ==
    ASSUME OrderInv, QueueInv, ~ Drained', NEW lev \in Nat, Backtrack(lev),
           \/ TakesOff(lev)
           \/ lev < decisionLevel /\ \E l, from : Learns(lev, l, from)
    PROVE  QueueInv'
<1>. DEFINE n == LimitOf(lev)
<1>1. /\ decisionLevel' = IF lev < decisionLevel THEN lev ELSE decisionLevel
      /\ n \in 0 .. Len(trail) /\ Len(trail) \in Nat
      /\ ~ lev < decisionLevel => n = Len(trail)
      /\ qhead' = IF lev < decisionLevel THEN n ELSE qhead
  BY BacktrackFacts, TrailFacts DEF Backtrack
<1>2. qhead \in 0 .. Len(trail) /\ \A i \in qhead + 1 .. Len(trail) : trail[i].level = decisionLevel
  BY DEF QueueInv
<1>3. CASE TakesOff(lev)
  <2>1. Len(trail') = n /\ DOMAIN trail' = 1 .. n /\ \A i \in 1 .. n : trail'[i] = trail[i]
    BY <1>3, TakesOffFacts
  <2>2. qhead' \in 0 .. Len(trail')
    BY <1>1, <1>2, <2>1
  <2>3. \A i \in qhead' + 1 .. Len(trail') : trail'[i].level = decisionLevel'
    <3>. HIDE DEF n
    <3>1. TAKE i \in qhead' + 1 .. Len(trail')
    <3>2. ~ lev < decisionLevel /\ n = Len(trail)
      BY <1>1, <2>1
    <3>3. i \in qhead + 1 .. Len(trail) /\ i \in 1 .. n
      BY <1>1, <1>2, <2>1, <3>2
    <3>. QED
      BY <1>1, <1>2, <2>1, <3>2, <3>3
  <2>. QED
    BY <2>2, <2>3 DEF QueueInv, Drained
<1>4. CASE lev < decisionLevel /\ \E l, from : Learns(lev, l, from)
  <2>1. Len(trail') = n + 1 /\ trail'[n + 1].level = lev
    BY <1>4, LearnsFacts
  <2>2. qhead' = n /\ decisionLevel' = lev /\ n \in Nat
    BY <1>1, <1>4
  <2>. HIDE DEF n
  <2>. QED
    BY <2>1, <2>2 DEF QueueInv, Drained
<1>. QED
  BY <1>3, <1>4

\* Steps that leave the trail and the queue alone.
Still == UNCHANGED <<trail, trail_lim, qhead>> /\ (Drained' => Drained)

\* The steps that leave trail and head alone.
LEMMA StillSteps ==
    ASSUME IInv,
           \/ newVar \/ callSimplify \/ solve \/ interrupt \/ Added \/ StartLong \/ SkipClause \/ MoveWatch
           \/ EndLong \/ SearchConflict \/ NoConflict \/ SimplifyReturns \/ CheckGarbage \/ KeepLearnts
           \/ NothingToReduce \/ reduceDB \/ Analyze \/ Minimise \/ litRedundant \/ Shorten
           \/ AssumptionFails \/ AnalyzeFinal \/ FinalAnalyzed \/ ModelFound \/ UNCHANGED svars
    PROVE  Still
<1>0. ControlInv
  BY DEF IInv
<1>. USE DEF Still, Drained, assignment, user
<1>1. CASE newVar \/ callSimplify \/ solve \/ interrupt
  BY <1>1 DEF newVar, callSimplify, solve, solve_, interrupt
<1>2. CASE Added
  BY <1>0, <1>2 DEF Added, ControlInv
<1>3. CASE StartLong \/ SkipClause \/ MoveWatch \/ EndLong
  BY <1>3 DEF StartLong, SkipClause, MoveWatch, EndLong, UnchangedByPropagate
<1>4. CASE SearchConflict \/ NoConflict
  BY <1>4 DEF SearchConflict, NoConflict, Leave
<1>5. CASE SimplifyReturns
  BY <1>0, <1>5 DEF SimplifyReturns, Leave, ControlInv, Propagating
<1>6. CASE CheckGarbage
  <2>1. pc = "garbage" /\ pc' = after /\ UNCHANGED <<trail, trail_lim, qhead, after, confl>>
    BY <1>6 DEF CheckGarbage
  <2>. QED
    BY <1>0, <2>1 DEF ControlInv
<1>7. CASE KeepLearnts \/ NothingToReduce \/ reduceDB
  BY <1>7 DEF KeepLearnts, NothingToReduce, reduceDB
<1>8. CASE Analyze \/ Minimise \/ litRedundant \/ Shorten
  BY <1>8 DEF Analyze, Minimise, litRedundant, Shorten, UnchangedByAnalyze
<1>9. CASE AssumptionFails \/ AnalyzeFinal \/ FinalAnalyzed \/ ModelFound
  BY <1>9 DEF AssumptionFails, AnalyzeFinal, FinalAnalyzed, ModelFound, Leave, UnchangedByDecide
<1>10. CASE UNCHANGED svars
  BY <1>10 DEF svars
<1>. HIDE DEF Still, Drained, assignment, user
<1>. QED
  BY <1>1, <1>2, <1>3, <1>4, <1>5, <1>6, <1>7, <1>8, <1>9, <1>10

\* Every step keeps the queue: what waits is at the current level, and after a
\* propagation without conflict nothing waits.
LEMMA QueueStep ==
    ASSUME IInv, [Next]_svars
    PROVE  QueueInv'
<1>0. OrderInv /\ QueueInv /\ ControlInv /\ LevelsInv
  BY DEF IInv
<1>. DEFINE n == Len(trail)
<1>a. n \in Nat /\ qhead \in 0 .. n /\ \A i \in qhead + 1 .. n : trail[i].level = decisionLevel
  BY <1>0, TrailFacts DEF QueueInv
<1>b. Drained => qhead = n
  BY <1>0 DEF QueueInv, Drained
<1>1. CASE \/ newVar \/ callSimplify \/ solve \/ interrupt \/ Added \/ StartLong \/ SkipClause \/ MoveWatch
           \/ EndLong \/ SearchConflict \/ NoConflict \/ SimplifyReturns \/ CheckGarbage \/ KeepLearnts
           \/ NothingToReduce \/ reduceDB \/ Analyze \/ Minimise \/ litRedundant \/ Shorten
           \/ AssumptionFails \/ AnalyzeFinal \/ FinalAnalyzed \/ ModelFound \/ UNCHANGED svars
  <2>1. Still
    BY <1>1, StillSteps
  <2>. QED
    BY <1>0, <2>1, SameQueue DEF Still
<1>2. CASE addClause
  <2>. DEFINE l == Sorted(Unassigned(call.lits))[1]
  <2>1. pc = "idle" /\ UNCHANGED <<trail_lim, qhead>> /\ after' \in {after, "idle"} /\ ~ Drained'
        /\ \/ UNCHANGED trail
           \/ uncheckedEnqueue(l, CRef_Undef)
    BY <1>2 DEF addClause, addClauseThen, addClause_, UnchangedByAdd, Drained
  <2>2. uncheckedEnqueue(l, CRef_Undef) => Enqueues(l, CRef_Undef)
    BY <2>1 DEF uncheckedEnqueue, Enqueues, decisionLevel
  <2>. QED
    BY <1>0, <2>1, <2>2, SameQueue, EnqueueQueue
<1>3. CASE Dequeue
  <2>1. UNCHANGED <<trail, trail_lim>> /\ qhead' = qhead + 1 /\ ~ Drained' /\ qhead < n
    BY <1>3 DEF Dequeue, UnchangedByPropagate, Drained
  <2>2. qhead' \in 0 .. n
    BY <1>a, <2>1
  <2>3. \A i \in qhead' + 1 .. n : trail[i].level = decisionLevel
    BY <1>a, <2>1
  <2>. QED
    BY <2>1, <2>2, <2>3 DEF QueueInv, Drained, decisionLevel
<1>4. CASE Propagated
  <2>1. UNCHANGED <<trail, trail_lim, qhead>> /\ qhead = n
    BY <1>4 DEF Propagated, UnchangedByPropagate
  <2>. QED
    BY <1>0, <2>1 DEF QueueInv, decisionLevel
<1>5. CASE VisitBinary
  <2>. DEFINE w == Head(visiting.todo)
  <2>1. /\ pc = "binary" /\ visiting.todo # <<>> /\ UNCHANGED <<trail_lim, qhead>>
        /\ \/ confl' = w.cref /\ pc' = caller /\ UNCHANGED trail
           \/ UNCHANGED pc /\ UNCHANGED trail
           \/ UNCHANGED pc /\ uncheckedEnqueue(w.blocker, w.cref)
    BY <1>5 DEF VisitBinary, UnchangedByPropagate
  <2>2. w.cref \in CRefs
    BY <2>1, VisitedBinary
  <2>. HIDE DEF w
  <2>3. w.cref # CRef_Undef
    BY <2>2, CountsAssumption DEF CRefs, CRef_Undef
  <2>4. ~ Drained'
    BY <1>0, <2>1, <2>3 DEF Drained, ControlInv
  <2>5. uncheckedEnqueue(w.blocker, w.cref) => Enqueues(w.blocker, w.cref)
    BY <2>1 DEF uncheckedEnqueue, Enqueues, decisionLevel
  <2>. QED
    BY <1>0, <2>1, <2>4, <2>5, SameQueue, EnqueueQueue
<1>6. CASE KeepWatch
  <2>. DEFINE w == Head(visiting.todo)
              ps == Turned(w.cref)
  <2>1. /\ pc = "long" /\ UNCHANGED trail_lim
        /\ \/ qhead' = n /\ UNCHANGED trail
           \/ UNCHANGED <<pc, qhead>> /\ UNCHANGED trail
           \/ UNCHANGED <<pc, qhead>> /\ uncheckedEnqueue(ps[1], w.cref)
    BY <1>6 DEF KeepWatch, UnchangedByPropagate
  <2>. HIDE DEF w, ps
  <2>2. CASE qhead' = n /\ UNCHANGED trail
    BY <1>a, <2>2 DEF QueueInv
  <2>3. CASE UNCHANGED <<pc, qhead>> /\ (UNCHANGED trail \/ uncheckedEnqueue(ps[1], w.cref))
    <3>1. ~ Drained'
      BY <2>1, <2>3 DEF Drained
    <3>2. uncheckedEnqueue(ps[1], w.cref) => Enqueues(ps[1], w.cref)
      BY <2>1 DEF uncheckedEnqueue, Enqueues, decisionLevel
    <3>. QED
      BY <1>0, <2>1, <2>3, <3>1, <3>2, SameQueue, EnqueueQueue
  <2>. QED
    BY <2>1, <2>2, <2>3
<1>7. CASE Learn
  <2>1. LearnStep /\ pc' = "propagate"
    BY <1>7, LearnSteps DEF Learn
  <2>2. PICK lev \in Nat : lev < decisionLevel /\ \E l, from : Learns(lev, l, from)
    BY <2>1 DEF LearnStep
  <2>3. Backtrack(lev) /\ ~ Drained'
    BY <2>1, <2>2 DEF Learns, Drained
  <2>. QED
    BY <1>0, <2>2, <2>3, BacktrackQueue
<1>8. CASE Restart \/ Return
  <2>1. TakesOff(0) /\ pc' \in {"propagate", "return", "idle"}
    BY <1>8 DEF Restart, Return, Returned, TakesOff, cancelUntil, Leave
  <2>2. Backtrack(0) /\ ~ Drained'
    BY <2>1 DEF TakesOff, Drained
  <2>. QED
    BY <1>0, <2>1, <2>2, BacktrackQueue
<1>9. CASE Simplify
  <2>1. pc = "simplify" /\ confl = CRef_Undef /\ UNCHANGED <<trail_lim, qhead>>
        /\ \E rs : trail' = Unreasoned(rs)
    BY <1>9 DEF Simplify, removeClauses
  <2>2. Len(trail') = n
    BY <1>0, <2>1, UnreasonedFacts
  <2>3. qhead = n
    BY <1>b, <2>1 DEF Drained
  <2>. QED
    BY <1>a, <2>1, <2>2, <2>3 DEF QueueInv
<1>10. CASE DummyLevel
  <2>1. pc = "decide" /\ UNCHANGED <<trail, qhead>>
    BY <1>10 DEF DummyLevel, UnchangedByDecide
  <2>2. qhead = n
    BY <1>b, <2>1 DEF Drained
  <2>. QED
    BY <1>a, <2>1, <2>2 DEF QueueInv
<1>11. CASE Assume \/ PickBranchLit
  <2>1. PICK l : Decided(l) /\ pc = "decide" /\ UNCHANGED qhead
    BY <1>11 DEF Assume, PickBranchLit, UnchangedByDecide
  <2>2. Len(trail_lim') = decisionLevel + 1
    BY <1>0, <2>1, TrailFacts DEF Decided, newDecisionLevel, decisionLevel
  <2>3. Enqueues(l, CRef_Undef)
    BY <2>1, <2>2 DEF Enqueues, Decided, newDecisionLevel
  <2>4. qhead = n /\ ~ Drained'
    BY <1>b, <2>1 DEF Drained, Decided
  <2>. QED
    BY <1>0, <2>1, <2>3, <2>4, EnqueueQueue
<1>. HIDE DEF n
<1>. QED
  BY <1>1, <1>2, <1>3, <1>4, <1>5, <1>6, <1>7, <1>8, <1>9, <1>10, <1>11
     DEF Next, Step, User, Search, Propagate

-----------------------------------------------------------------------------
(***************************************************************************)
(* Clauses in memory: how they are allocated, rewritten, marked and freed. *)
(***************************************************************************)

\* A sequence has its own literals.
LEMMA SameRearranges ==
    ASSUME NEW S, NEW s \in Seq(S)
    PROVE  Rearranged(s, s)
<1>. DEFINE g == [k \in DOMAIN s |-> k]
<1>1. g \in [DOMAIN s -> DOMAIN s] /\ \A k \in DOMAIN s : g[k] = k
  OBVIOUS
<1>. HIDE DEF g
<1>2. /\ \A k \in DOMAIN s : s[k] = s[g[k]]
      /\ \A k, m \in DOMAIN s : g[k] = g[m] => k = m
      /\ \A m \in DOMAIN s : \E k \in DOMAIN s : g[k] = m
  BY <1>1
<1>. QED
  BY <1>1, <1>2 DEF Rearranged

\* Rearranging twice is rearranging.
LEMMA RearrangedAgain ==
    ASSUME NEW u, NEW t, NEW s, Rearranged(u, t), Rearranged(t, s)
    PROVE  Rearranged(u, s)
<1>1. PICK g \in [DOMAIN u -> DOMAIN t] :
         /\ \A k \in DOMAIN u : u[k] = t[g[k]]
         /\ \A k, m \in DOMAIN u : g[k] = g[m] => k = m
         /\ \A m \in DOMAIN t : \E k \in DOMAIN u : g[k] = m
  BY DEF Rearranged
<1>2. PICK h \in [DOMAIN t -> DOMAIN s] :
         /\ \A k \in DOMAIN t : t[k] = s[h[k]]
         /\ \A k, m \in DOMAIN t : h[k] = h[m] => k = m
         /\ \A m \in DOMAIN s : \E k \in DOMAIN t : h[k] = m
  BY DEF Rearranged
<1>. DEFINE f == [k \in DOMAIN u |-> h[g[k]]]
<1>3. f \in [DOMAIN u -> DOMAIN s] /\ \A k \in DOMAIN u : f[k] = h[g[k]] /\ g[k] \in DOMAIN t
  BY <1>1, <1>2
<1>. HIDE DEF f
<1>4. /\ \A k \in DOMAIN u : u[k] = s[f[k]]
      /\ \A k, m \in DOMAIN u : f[k] = f[m] => k = m
  BY <1>1, <1>2, <1>3
<1>5. \A m \in DOMAIN s : \E k \in DOMAIN u : f[k] = m
  <2>1. TAKE m \in DOMAIN s
  <2>2. PICK k \in DOMAIN t : h[k] = m
    BY <1>2
  <2>3. PICK j \in DOMAIN u : g[j] = k
    BY <1>1
  <2>. QED
    BY <1>3, <2>2, <2>3
<1>6. Len(u) = Len(s)
  BY DEF Rearranged
<1>. QED
  BY <1>3, <1>4, <1>5, <1>6 DEF Rearranged

\* The elements are the same, and as often there.
LEMMA RearrangedFacts ==
    ASSUME NEW t, NEW s, Rearranged(t, s)
    PROVE  /\ Len(t) = Len(s)
           /\ \A k \in DOMAIN t : \E m \in DOMAIN s : t[k] = s[m]
           /\ \A m \in DOMAIN s : \E k \in DOMAIN t : t[k] = s[m]
           /\ ToSet(t) = ToSet(s)
           /\ (\A k, m \in DOMAIN s : s[k] = s[m] => k = m) => (\A k, m \in DOMAIN t : t[k] = t[m] => k = m)
<1>1. PICK g \in [DOMAIN t -> DOMAIN s] :
         /\ \A k \in DOMAIN t : t[k] = s[g[k]]
         /\ \A k, m \in DOMAIN t : g[k] = g[m] => k = m
         /\ \A m \in DOMAIN s : \E k \in DOMAIN t : g[k] = m
  BY DEF Rearranged
<1>2. \A k \in DOMAIN t : g[k] \in DOMAIN s
  OBVIOUS
<1>3. \A k \in DOMAIN t : \E m \in DOMAIN s : t[k] = s[m]
  BY <1>1, <1>2
<1>4. \A m \in DOMAIN s : \E k \in DOMAIN t : t[k] = s[m]
  BY <1>1
<1>5. ToSet(t) = ToSet(s)
  BY <1>3, <1>4 DEF ToSet
<1>6. (\A k, m \in DOMAIN s : s[k] = s[m] => k = m) => (\A k, m \in DOMAIN t : t[k] = t[m] => k = m)
  BY <1>1, <1>2
<1>7. Len(t) = Len(s)
  BY DEF Rearranged
<1>. QED
  BY <1>3, <1>4, <1>5, <1>6, <1>7

-----------------------------------------------------------------------------
(* What a step does to the clauses in memory. *)
GoodClause(ps) ==
    /\ ps \in Seq(Lits) /\ Len(ps) >= 2
    /\ \A k \in DOMAIN ps : ps[k] \in NLits
    /\ \A k, m \in DOMAIN ps : ps[k] = ps[m] => k = m
Allocates(cr, ps, learnt, lbd) ==
    /\ cr \in CRefs /\ Fresh(cr) /\ GoodClause(ps) /\ learnt \in BOOLEAN /\ lbd \in Nat
    /\ Implies(formula', ToSet(ps))
    /\ ca' = alloc(cr, ps, learnt, lbd)
    /\ attachClause(cr, ps)
Rewrites(d, c) ==
    /\ d \in DOMAIN ca /\ c \in ClauseRecords
    /\ Rearranged(c.lits, lits(d)) /\ c.mark = ca[d].mark
    /\ ca' = [ca EXCEPT ![d] = c]
Marks(rs) ==
    /\ DOMAIN ca' = DOMAIN ca
    /\ \A cr \in DOMAIN ca : /\ ca'[cr] \in ClauseRecords /\ ca'[cr].lits = lits(cr)
                             /\ ca'[cr].mark = IF cr \in rs THEN 1 ELSE ca[cr].mark
    /\ dirty' = Smudged(rs) /\ UNCHANGED <<watches, watchesBin>>
    /\ rs \subseteq clauses \cup learnts
Collects ==
    /\ ca' = [cr \in Reloced(clauses) |-> ca[cr]] /\ Reloced(clauses) \subseteq DOMAIN ca
    /\ cleanAll

\* What a clause in memory is.
LEMMA ClauseFacts ==
    ASSUME ClausesInv, NEW cr \in DOMAIN ca
    PROVE  /\ cr \in CRefs /\ cr # CRef_Undef /\ ca[cr] \in ClauseRecords
           /\ lits(cr) \in Seq(Lits) /\ Len(lits(cr)) \in Nat /\ Len(lits(cr)) >= 2
           /\ DOMAIN lits(cr) = 1 .. Len(lits(cr)) /\ 1 \in DOMAIN lits(cr) /\ 2 \in DOMAIN lits(cr)
           /\ GoodClause(lits(cr))
<1>1. /\ cr \in CRefs /\ ca[cr] \in ClauseRecords /\ Len(lits(cr)) >= 2
      /\ \A k \in DOMAIN lits(cr) : lits(cr)[k] \in NLits
      /\ \A k, m \in DOMAIN lits(cr) : lits(cr)[k] = lits(cr)[m] => k = m
  BY DEF ClausesInv
<1>2. cr # CRef_Undef
  BY <1>1, CountsAssumption DEF CRefs, CRef_Undef
<1>3. lits(cr) \in Seq(Lits)
  BY <1>1 DEF ClauseRecords, lits
<1>4. Len(lits(cr)) \in Nat /\ DOMAIN lits(cr) = 1 .. Len(lits(cr))
  BY <1>3
<1>. QED
  BY <1>1, <1>2, <1>3, <1>4 DEF GoodClause

\* A rewritten clause keeps its literals, its mark and its place; the others
\* keep everything.
LEMMA RewriteFacts ==
    ASSUME ClausesInv, NEW d, NEW c, Rewrites(d, c)
    PROVE  /\ DOMAIN ca' = DOMAIN ca
           /\ \A cr \in DOMAIN ca : /\ ca'[cr] \in ClauseRecords /\ ca'[cr].mark = ca[cr].mark
                                    /\ Rearranged(ca'[cr].lits, lits(cr))
                                    /\ cr # d => ca'[cr] = ca[cr]
           /\ ca'[d] = c
<1>1. DOMAIN ca' = DOMAIN ca /\ ca'[d] = c /\ \A cr \in DOMAIN ca : cr # d => ca'[cr] = ca[cr]
  BY DEF Rewrites
<1>2. ASSUME NEW cr \in DOMAIN ca
      PROVE  /\ ca'[cr] \in ClauseRecords /\ ca'[cr].mark = ca[cr].mark
             /\ Rearranged(ca'[cr].lits, lits(cr))
  <2>1. CASE cr = d
    BY <1>1, <2>1 DEF Rewrites
  <2>2. CASE cr # d
    <3>1. Rearranged(lits(cr), lits(cr))
      BY ClauseFacts, SameRearranges
    <3>. QED
      BY <1>1, <2>2, <3>1, ClauseFacts DEF lits
  <2>. QED
    BY <2>1, <2>2
<1>. QED
  BY <1>1, <1>2

\* A new clause changes no other.
LEMMA AllocFacts ==
    ASSUME NEW cr, NEW ps, NEW learnt, NEW lbd, Allocates(cr, ps, learnt, lbd)
    PROVE  /\ DOMAIN ca' = DOMAIN ca \cup {cr} /\ cr \notin DOMAIN ca
           /\ \A c \in DOMAIN ca : ca'[c] = ca[c]
           /\ ca'[cr].lits = ps /\ ca'[cr].mark = 0 /\ ca'[cr] \in ClauseRecords
<1>1. ca'[cr] = [lits |-> ps, learnt |-> learnt, lbd |-> lbd, canBeDel |-> TRUE, mark |-> 0]
  BY DEF Allocates, alloc
<1>. QED
  BY <1>1 DEF Allocates, alloc, Fresh, GoodClause, ClauseRecords

\* Turning a clause of two literals keeps its literals; a longer one is left
\* alone.
LEMMA TrueFirstFacts ==
    ASSUME ClausesInv, NEW d \in DOMAIN ca
    PROVE  LET ps == TrueFirst(lits(d)) IN
           /\ ps \in Seq(Lits) /\ Rearranged(ps, lits(d)) /\ {ps[1], ps[2]} = {lits(d)[1], lits(d)[2]}
           /\ Len(ps) > 2 => ps = lits(d)
<1>. DEFINE ls == lits(d)
<1>1. ls \in Seq(Lits) /\ 1 \in DOMAIN ls /\ 2 \in DOMAIN ls
  BY ClauseFacts
<1>. HIDE DEF ls
<1>2. LET t == Swapped(ls, 1, 2) IN
      t \in Seq(Lits) /\ Rearranged(t, ls) /\ t[1] = ls[2] /\ t[2] = ls[1] /\ Len(t) = Len(ls)
  BY <1>1, SwappedFacts, SwappedRearranges
<1>3. Rearranged(ls, ls)
  BY <1>1, SameRearranges
<1>. DEFINE t == Swapped(ls, 1, 2)
            ps == TrueFirst(ls)
<1>4. (ps = t /\ Len(ls) = 2) \/ ps = ls
  BY DEF TrueFirst
<1>5. {ls[2], ls[1]} = {ls[1], ls[2]}
  OBVIOUS
<1>. HIDE DEF t, ps
<1>6. t \in Seq(Lits) /\ Rearranged(t, ls) /\ t[1] = ls[2] /\ t[2] = ls[1] /\ Len(t) = Len(ls)
  BY <1>2 DEF t
<1>7. CASE ps = t /\ Len(ls) = 2
  <2>1. Len(ps) = 2
    BY <1>6, <1>7
  <2>2. ~ Len(ps) > 2
    BY <2>1
  <2>. QED
    BY <1>5, <1>6, <1>7, <2>2 DEF ps, ls
<1>8. CASE ps = ls
  BY <1>1, <1>3, <1>8 DEF ps, ls
<1>. QED
  BY <1>4, <1>7, <1>8

\* A rating changes neither literals nor mark.
LEMMA RatedFacts ==
    ASSUME NEW c \in ClauseRecords, NEW n \in Nat
    PROVE  Rated(c, n) \in ClauseRecords /\ Rated(c, n).lits = c.lits /\ Rated(c, n).mark = c.mark
<1>. DEFINE d == [c EXCEPT !.lbd = n]
<1>1. d \in ClauseRecords /\ d.lits = c.lits /\ d.mark = c.mark /\ d.canBeDel \in BOOLEAN
  BY DEF ClauseRecords
<1>2. Rated(c, n) = c \/ Rated(c, n) = [d EXCEPT !.canBeDel = IF c.lbd <= LbLBDFrozenClause THEN FALSE ELSE @]
  BY DEF Rated
<1>. HIDE DEF d
<1>3. \/ Rated(c, n) = c \/ Rated(c, n) = [d EXCEPT !.canBeDel = FALSE]
      \/ Rated(c, n) = [d EXCEPT !.canBeDel = d.canBeDel]
  BY <1>2
<1>4. ASSUME NEW b \in BOOLEAN
      PROVE  LET e == [d EXCEPT !.canBeDel = b] IN e \in ClauseRecords /\ e.lits = d.lits /\ e.mark = d.mark
  BY <1>1 DEF ClauseRecords
<1>. QED
  BY <1>1, <1>3, <1>4

\* A literal holds or its complement does.
LEMMA HoldsNot ==
    ASSUME NEW m \in Assignments, NEW l \in Lits
    PROVE  Holds(m, -l) <=> ~ Holds(m, l)
<1>1. MaxVars \in Nat /\ l \in -MaxVars .. MaxVars /\ l # 0 /\ (l \in Vars \/ -l \in Vars)
  BY MaxVarsAssumption, LitsFacts DEF Lits, LitsOver
<1>2. m \in [Vars -> BOOLEAN]
  BY DEF Assignments
<1>3. CASE l > 0
  <2>1. l \in Vars /\ ~ -l > 0 /\ -(-l) = l
    BY <1>1, <1>3 DEF Vars
  <2>. QED
    BY <1>2, <1>3, <2>1 DEF Holds
<1>4. CASE ~ l > 0
  <2>1. -l \in Vars /\ -l > 0
    BY <1>1, <1>4 DEF Vars
  <2>. QED
    BY <1>2, <1>4, <2>1 DEF Holds
<1>. QED
  BY <1>3, <1>4

\* More clauses have fewer models and imply more.
LEMMA ImpliesMore ==
    ASSUME NEW F, NEW G, F \subseteq G
    PROVE  /\ Models(G) \subseteq Models(F)
           /\ \A c : Implies(F, c) => Implies(G, c)
<1>1. Models(G) \subseteq Models(F)
  BY DEF Models
<1>. QED
  BY <1>1 DEF Implies

\* A clause that follows still does with more literals.
LEMMA ImpliesWeaker ==
    ASSUME NEW F, NEW c, NEW d, Implies(F, c), c \subseteq d
    PROVE  Implies(F, d)
BY DEF Implies, Satisfies

\* A model of the formula agrees with the literals of level 0.
LEMMA LevelZero ==
    ASSUME MeaningInv, LevelsInv, NEW i \in DOMAIN trail, trail[i].level = 0, NEW m \in Models(formula)
    PROVE  Holds(m, trail[i].lit)
BY DEF MeaningInv, Implies, Satisfies

\* Clauses are only added to the formula.
LEMMA FormulaGrows ==
    ASSUME [Next]_svars
    PROVE  formula \subseteq formula' /\ (~ addClause => UNCHANGED formula)
<1>. USE DEF user
<1>1. CASE User
  BY <1>1 DEF User, newVar, addClause, addClauseThen, callSimplify, solve, interrupt
<1>2. CASE Propagate
  BY <1>2 DEF Propagate, Dequeue, Propagated, VisitBinary, StartLong, SkipClause, MoveWatch, KeepWatch,
              EndLong, UnchangedByPropagate
<1>3. CASE \/ SearchConflict \/ Restart \/ NoConflict \/ SimplifyReturns \/ Simplify
             \/ KeepLearnts \/ NothingToReduce \/ reduceDB \/ Learn
  BY <1>3 DEF SearchConflict, Restart, NoConflict, SimplifyReturns, Simplify, KeepLearnts,
                      NothingToReduce, reduceDB, Learn
<1>4. CASE Analyze \/ Minimise \/ litRedundant \/ Shorten
  BY <1>4 DEF Analyze, Minimise, litRedundant, Shorten, UnchangedByAnalyze
<1>5. CASE DummyLevel \/ Assume \/ AssumptionFails \/ AnalyzeFinal \/ FinalAnalyzed
             \/ PickBranchLit \/ ModelFound
  BY <1>5 DEF DummyLevel, Assume, AssumptionFails, AnalyzeFinal, FinalAnalyzed, PickBranchLit,
                      ModelFound, UnchangedByDecide
<1>6. CASE Added \/ CheckGarbage \/ Return \/ UNCHANGED svars
  BY <1>6 DEF Added, CheckGarbage, Return, Returned, svars
<1>. HIDE DEF user
<1>. QED
  BY <1>1, <1>2, <1>3, <1>4, <1>5, <1>6 DEF Next, Step, Search

-----------------------------------------------------------------------------
\* The clause that is resolved with.
LEMMA Resolved ==
    ASSUME IInv, pc = "analyze"
    PROVE  /\ confl \in DOMAIN ca
           /\ an.p # Undef =>
                \E i \in DOMAIN trail :
                    /\ trail[i].lit = an.p /\ trail[i].level = decisionLevel /\ trail[i].reason = confl
                    /\ \A v \in an.seen : \E j \in 1 .. i - 1 : var(trail[j].lit) = v
                    /\ Given(confl, i)
<1>1. CASE an.p = Undef
  <2>1. Conflicting(confl)
    BY <1>1 DEF IInv, ConflictInv
  <2>. QED
    BY <1>1, <2>1 DEF Conflicting
<1>2. CASE an.p # Undef
  <2>1. PICK i \in DOMAIN trail :
              /\ trail[i].lit = an.p /\ trail[i].level = decisionLevel
              /\ trail[i].reason = confl /\ confl # CRef_Undef
              /\ \A v \in an.seen : \E j \in 1 .. i - 1 : var(trail[j].lit) = v
    BY <1>2 DEF IInv, AnalyzeInv
  <2>2. decisionLevel > 0
    BY DEF IInv, AnalyzeInv
  <2>3. Given(confl, i)
    BY <2>1, <2>2 DEF IInv, ReasonInv
  <2>4. confl \in DOMAIN ca
    BY <2>3 DEF Given
  <2>. QED
    BY <2>1, <2>3, <2>4
<1>. QED
  BY <1>1, <1>2

\* The number of levels in a clause is a number.
LEMMA LBDType ==
    ASSUME NEW S, NEW ls \in Seq(S)
    PROVE  computeLBD(ls) \in Nat
<1>1. IsFiniteSet(DOMAIN ls)
  <2>1. DOMAIN ls = 1 .. Len(ls) /\ Len(ls) \in Int
    OBVIOUS
  <2>. QED
    BY <2>1, FS_Interval
<1>. DEFINE f == [i \in DOMAIN ls |-> level(ls[i])]
<1>3. f \in Surjection(DOMAIN ls, Levels(ls))
  BY DEF Surjection, Levels
<1>. HIDE DEF f
<1>2. IsFiniteSet(Levels(ls))
  BY <1>1, <1>3, FS_Surjection
<1>. QED
  BY <1>2, FS_CardinalityType DEF computeLBD

\* The same literals come first.
SameTwo(d, c) == /\ {c.lits[1], c.lits[2]} = {lits(d)[1], lits(d)[2]}
                 /\ Len(lits(d)) > 2 => c.lits[1] = lits(d)[1]
SameLong(d, c) == {c.lits[1], c.lits[2]} = {lits(d)[1], lits(d)[2]}

\* analyze rewrites the clause it resolves with, and no other.
LEMMA AnalyzeRewrites ==
    ASSUME IInv, Analyze
    PROVE  \E c : Rewrites(confl, c) /\ SameTwo(confl, c)
<1>. DEFINE ps == IF an.p = Undef THEN lits(confl) ELSE TrueFirst(lits(confl))
            e == [ca[confl] EXCEPT !.lits = ps]
            c == Rated(e, computeLBD(ps))
<1>1. pc = "analyze" /\ ca' = [ca EXCEPT ![confl] = c]
  BY DEF Analyze
<1>2. confl \in DOMAIN ca /\ ClausesInv
  BY <1>1, Resolved DEF IInv
<1>3. ps \in Seq(Lits) /\ Rearranged(ps, lits(confl)) /\ {ps[1], ps[2]} = {lits(confl)[1], lits(confl)[2]}
      /\ (Len(ps) > 2 => ps = lits(confl))
  <2>1. Rearranged(lits(confl), lits(confl)) /\ lits(confl) \in Seq(Lits)
    BY <1>2, ClauseFacts, SameRearranges
  <2>. QED
    BY <1>2, <2>1, TrueFirstFacts
<1>. HIDE DEF ps
<1>4. e \in ClauseRecords /\ e.lits = ps /\ e.mark = ca[confl].mark
  <2>1. ca[confl] \in ClauseRecords
    BY <1>2, ClauseFacts
  <2>. QED
    BY <1>3, <2>1 DEF ClauseRecords
<1>. HIDE DEF e
<1>5. c \in ClauseRecords /\ c.lits = ps /\ c.mark = ca[confl].mark
  BY <1>3, <1>4, LBDType, RatedFacts
<1>. HIDE DEF c
<1>6. Rewrites(confl, c)
  BY <1>1, <1>2, <1>3, <1>5 DEF Rewrites
<1>7. Len(ps) = Len(lits(confl))
  BY <1>3 DEF Rearranged
<1>8. SameTwo(confl, c)
  BY <1>3, <1>5, <1>7 DEF SameTwo
<1>. QED
  BY <1>6, <1>8

\* litRedundant rewrites a reason at most.
LEMMA RedundantRewrites ==
    ASSUME IInv, litRedundant
    PROVE  UNCHANGED ca \/ \E d, c : Rewrites(d, c) /\ SameTwo(d, c)
<1>1. CASE an.stack = <<>>
  BY <1>1 DEF litRedundant
<1>2. CASE an.stack # <<>>
  <2>. DEFINE d == reason(Last(an.stack))
              ps == TrueFirst(lits(d))
              c == [ca[d] EXCEPT !.lits = ps]
  <2>1. pc = "redundant" /\ ca' = [ca EXCEPT ![d] = c]
    BY <1>2 DEF litRedundant
  <2>2. an.stack \in Seq(Lits)
    BY DEF IInv, ValuesInv, AnType
  <2>3. Last(an.stack) = an.stack[Len(an.stack)] /\ Len(an.stack) \in DOMAIN an.stack
    BY <1>2, <2>2 DEF Last
  <2>4. PICK i \in DOMAIN trail : trail[i].lit = -Last(an.stack) /\ trail[i].level > 0 /\ trail[i].reason # CRef_Undef
    BY <2>1, <2>3 DEF IInv, MinimiseInv
  <2>5. var(Last(an.stack)) = var(trail[i].lit)
    BY <2>2, <2>3, <2>4, LitsFacts
  <2>6. d = trail[i].reason
    BY <2>5, PlaceOf DEF IInv
  <2>7. d \in DOMAIN ca /\ ClausesInv
    BY <2>4, <2>6 DEF IInv, ReasonInv, Given
  <2>. HIDE DEF d
  <2>8. ps \in Seq(Lits) /\ Rearranged(ps, lits(d)) /\ {ps[1], ps[2]} = {lits(d)[1], lits(d)[2]}
        /\ (Len(ps) > 2 => ps = lits(d))
    BY <2>7, TrueFirstFacts
  <2>. HIDE DEF ps
  <2>9. c \in ClauseRecords /\ c.lits = ps /\ c.mark = ca[d].mark
    <3>1. ca[d] \in ClauseRecords
      BY <2>7, ClauseFacts
    <3>. QED
      BY <2>8, <3>1 DEF ClauseRecords
  <2>. HIDE DEF c
  <2>10. Rewrites(d, c)
    BY <2>1, <2>7, <2>8, <2>9 DEF Rewrites
  <2>11. Len(ps) = Len(lits(d))
    BY <2>8 DEF Rearranged
  <2>12. SameTwo(d, c)
    BY <2>8, <2>9, <2>11 DEF SameTwo
  <2>. QED
    BY <2>10, <2>12
<1>. QED
  BY <1>1, <1>2

\* A visited clause is rewritten with its false literal second.
LEMMA KeepRewrites ==
    ASSUME IInv, KeepWatch
    PROVE  LET d == Head(visiting.todo).cref IN
           \E c : Rewrites(d, c) /\ SameLong(d, c) /\ ca[d].mark = 0 /\ Len(lits(d)) > 2
                  /\ c.lits = Turned(d)
<1>. DEFINE d == Head(visiting.todo).cref
            ps == Turned(d)
            c == [ca[d] EXCEPT !.lits = ps]
<1>1. pc = "long" /\ visiting.todo # <<>> /\ ca' = [ca EXCEPT ![d].lits = ps]
  BY DEF KeepWatch
<1>2. /\ d \in DOMAIN ca /\ ca[d].mark = 0 /\ Len(lits(d)) > 2
      /\ lits(d) \in Seq(Lits)
      /\ ps \in Seq(Lits) /\ {ps[1], ps[2]} = {lits(d)[1], lits(d)[2]}
      /\ ps = lits(d) \/ ps = Swapped(lits(d), 1, 2)
  BY <1>1, VisitedLong
<1>3. ClausesInv
  BY DEF IInv
<1>. HIDE DEF d, ps
<1>4. Rearranged(ps, lits(d))
  BY <1>2, <1>3, ClauseFacts, SameRearranges, SwappedRearranges
<1>5. c \in ClauseRecords /\ c.lits = ps /\ c.mark = ca[d].mark
  <2>1. ca[d] \in ClauseRecords
    BY <1>2, <1>3, ClauseFacts
  <2>. QED
    BY <1>2, <2>1 DEF ClauseRecords
<1>6. ca' = [ca EXCEPT ![d] = c]
  BY <1>1
<1>. HIDE DEF c
<1>7. Rewrites(d, c) /\ SameLong(d, c)
  BY <1>2, <1>4, <1>5, <1>6 DEF Rewrites, SameLong
<1>. QED
  BY <1>2, <1>5, <1>7 DEF d, ps

\* The new second literal is one of the others, and not false.
LEMMA MoveRewrites ==
    ASSUME IInv, MoveWatch
    PROVE  LET w == Head(visiting.todo)
               d == w.cref
               ps == Turned(d)
           IN \E c : \E k \in 3 .. Len(ps) :
                /\ Rewrites(d, c) /\ ca[d].mark = 0 /\ Len(lits(d)) > 2 /\ c.lits = Swapped(ps, 2, k)
                /\ c.lits[1] = ps[1] /\ c.lits[2] = ps[k] /\ ps[2] = -visiting.p
                /\ {ps[1], ps[2]} = {lits(d)[1], lits(d)[2]}
                /\ ps[k] # ps[1] /\ ps[k] # ps[2] /\ ps[k] \in Lits /\ ps[1] \in Lits /\ ~ isFalse(ps[k])
                /\ watches' = WithWatcher(watches, -ps[k], Watcher(d, ps[1]))
<1>. DEFINE d == Head(visiting.todo).cref
            ps == Turned(d)
<1>1. PICK k \in Replacements(ps) :
         /\ ca' = [ca EXCEPT ![d].lits = Swapped(ps, 2, k)]
         /\ watches' = WithWatcher(watches, -ps[k], Watcher(d, ps[1]))
  BY DEF MoveWatch
<1>0. pc = "long" /\ visiting.todo # <<>>
  BY DEF MoveWatch
<1>2. /\ d \in DOMAIN ca /\ ca[d].mark = 0 /\ Len(lits(d)) > 2
      /\ lits(d) \in Seq(Lits)
      /\ ps \in Seq(Lits) /\ {ps[1], ps[2]} = {lits(d)[1], lits(d)[2]} /\ ps[2] = -visiting.p
      /\ DOMAIN ps = 1 .. Len(ps) /\ Len(ps) = Len(lits(d))
      /\ ps = lits(d) \/ ps = Swapped(lits(d), 1, 2)
  BY <1>0, VisitedLong
<1>3. ClausesInv
  BY DEF IInv
<1>4. k \in 3 .. Len(ps) /\ ~ isFalse(ps[k])
  BY <1>1 DEF Replacements
<1>. DEFINE c == [ca[d] EXCEPT !.lits = Swapped(ps, 2, k)]
<1>6. ca' = [ca EXCEPT ![d] = c]
  BY <1>1
<1>. HIDE DEF d, ps
<1>5. Rearranged(ps, lits(d)) /\ GoodClause(lits(d)) /\ ca[d] \in ClauseRecords
  BY <1>2, <1>3, ClauseFacts, SameRearranges, SwappedRearranges
<1>7. 1 \in DOMAIN ps /\ 2 \in DOMAIN ps /\ k \in DOMAIN ps /\ k # 1 /\ k # 2
  <2>. DEFINE n == Len(ps)
  <2>1. n \in Nat /\ n > 2 /\ DOMAIN ps = 1 .. n /\ k \in 3 .. n
    BY <1>2, <1>4
  <2>. HIDE DEF n
  <2>. QED
    BY <2>1
<1>8. \A i, j \in DOMAIN ps : ps[i] = ps[j] => i = j
  BY <1>5, RearrangedFacts DEF GoodClause
<1>. DEFINE t == Swapped(ps, 2, k)
<1>9. t \in Seq(Lits) /\ t[1] = ps[1] /\ t[2] = ps[k] /\ Rearranged(t, ps)
  <2>1. ps \in Seq(Lits)
    BY <1>2
  <2>2. t \in Seq(Lits) /\ t[2] = ps[k] /\ \A j \in DOMAIN ps : j # 2 /\ j # k => t[j] = ps[j]
    BY <1>7, <2>1, SwappedFacts
  <2>3. Rearranged(t, ps)
    BY <1>7, <2>1, SwappedRearranges
  <2>4. 1 # 2 /\ 1 # k
    BY <1>7
  <2>. QED
    BY <1>7, <2>2, <2>3, <2>4
<1>10. c \in ClauseRecords /\ c.lits = t /\ c.mark = ca[d].mark
  <2>. HIDE DEF t
  <2>1. c = [ca[d] EXCEPT !.lits = t]
    BY DEF t
  <2>. HIDE DEF c
  <2>. QED
    BY <1>5, <1>9, <2>1 DEF ClauseRecords
<1>. HIDE DEF c, t
<1>11. Rearranged(t, lits(d))
  BY <1>5, <1>9, RearrangedAgain
<1>12. Rewrites(d, c)
  BY <1>2, <1>6, <1>10, <1>11 DEF Rewrites
<1>13. ps[k] # ps[1] /\ ps[k] # ps[2] /\ ps[k] \in Lits /\ ps[1] \in Lits
  BY <1>2, <1>7, <1>8
<1>14. c.lits = Swapped(ps, 2, k)
  BY <1>10 DEF t
<1>. QED
  BY <1>1, <1>2, <1>4, <1>9, <1>10, <1>12, <1>13, <1>14 DEF d, ps

\* At level 0 the literals that are false may be left out of a clause.
LEMMA AddedFollows ==
    ASSUME IInv, pc = "idle", script # <<>>, call.op = "clause", ~ Superfluous(call.lits),
           formula' = formula \cup {ToSet(call.lits)}
    PROVE  Implies(formula', ToSet(Sorted(Unassigned(call.lits))))
<1>. DEFINE U == Unassigned(call.lits)
<1>1. ToSet(Sorted(U)) = U /\ ToSet(call.lits) \subseteq NLits
  BY AddedLits, CalledLits DEF IInv
<1>2. trail_lim = <<>> /\ decisionLevel = 0
  BY DEF IInv, ControlInv, decisionLevel
<1>3. SUFFICES ASSUME NEW m \in Models(formula')  PROVE Satisfies(m, U)
  BY <1>1 DEF Implies
<1>4. m \in Models(formula) /\ m \in Assignments
  BY ImpliesMore DEF Models
<1>5. PICK l \in ToSet(call.lits) : Holds(m, l)
  BY <1>3 DEF Models, Satisfies
<1>6. CASE isFalse(l)
  <2>1. PICK i \in DOMAIN trail : trail[i].lit = -l
    BY <1>6 DEF isFalse, isTrue
  <2>2. trail[i].level = 0
    BY <1>2 DEF IInv, LevelsInv
  <2>3. Holds(m, -l)
    BY <1>4, <2>1, <2>2, LevelZero DEF IInv
  <2>4. l \in Lits
    BY <1>1 DEF NLits
  <2>. QED
    BY <1>4, <1>5, <2>3, <2>4, HoldsNot
<1>7. CASE ~ isFalse(l)
  BY <1>5, <1>7 DEF Unassigned, Satisfies
<1>. QED
  BY <1>6, <1>7

\* addClause allocates at most one clause, with the literals that are left.
LEMMA AddAllocates ==
    ASSUME IInv, addClause
    PROVE  \/ UNCHANGED database
           \/ \E ps : \E cr \in CRefs :
                 /\ Allocates(cr, ps, FALSE, 0) /\ clauses' = clauses \cup {cr}
                 /\ UNCHANGED <<learnts, dirty, trail>> /\ pc' = pc
<1>. DEFINE qs == Sorted(Unassigned(call.lits))
<1>0. script # <<>> /\ call.op = "clause" /\ pc = "idle" /\ UNCHANGED <<nVars, trail_lim>>
      /\ formula' = formula \cup {ToSet(call.lits)}
  BY DEF addClause, addClauseThen, Called, call, UnchangedByAdd
<1>1. \/ UNCHANGED database
      \/ /\ ~ Superfluous(call.lits) /\ Len(qs) > 1
         /\ \E cr \in CRefs : /\ Fresh(cr)
                              /\ ca' = alloc(cr, qs, FALSE, 0)
                              /\ clauses' = clauses \cup {cr}
                              /\ attachClause(cr, qs)
         /\ UNCHANGED <<learnts, dirty, trail>> /\ pc' = "idle"
  BY DEF addClause, addClauseThen, addClause_
<1>2. CASE UNCHANGED database
  BY <1>2
<1>3. CASE /\ ~ Superfluous(call.lits) /\ Len(qs) > 1
           /\ \E cr \in CRefs : /\ Fresh(cr)
                                /\ ca' = alloc(cr, qs, FALSE, 0)
                                /\ clauses' = clauses \cup {cr}
                                /\ attachClause(cr, qs)
           /\ UNCHANGED <<learnts, dirty, trail>> /\ pc' = "idle"
  <2>1. /\ qs \in Seq(Lits) /\ \A k \in DOMAIN qs : qs[k] \in NLits
        /\ \A k, m \in DOMAIN qs : qs[k] = qs[m] => k = m
    BY <1>0, <1>3, AddedLits
  <2>2. Implies(formula', ToSet(qs))
    BY <1>0, <1>3, AddedFollows
  <2>. HIDE DEF qs
  <2>3. GoodClause(qs)
    <3>. DEFINE n == Len(qs)
    <3>1. n \in Nat /\ n > 1
      BY <1>3, <2>1
    <3>. HIDE DEF n
    <3>2. n >= 2
      BY <3>1
    <3>. QED
      BY <2>1, <3>2 DEF GoodClause, n
  <2>4. PICK cr \in CRefs : /\ Fresh(cr)
                            /\ ca' = alloc(cr, qs, FALSE, 0)
                            /\ clauses' = clauses \cup {cr}
                            /\ attachClause(cr, qs)
    BY <1>3
  <2>5. Allocates(cr, qs, FALSE, 0)
    BY <2>2, <2>3, <2>4 DEF Allocates
  <2>. QED
    BY <1>0, <1>3, <2>4, <2>5
<1>. QED
  BY <1>1, <1>2, <1>3

\* Learn allocates the learnt clause unless it has one literal.
LEMMA LearnAllocates ==
    ASSUME IInv, Learn
    PROVE  \/ UNCHANGED database
           \/ \E cr \in CRefs : /\ Allocates(cr, an.out, TRUE, an.lbd) /\ learnts' = learnts \cup {cr}
                                /\ UNCHANGED <<clauses, dirty>>
<1>1. \/ UNCHANGED database
      \/ /\ Len(an.out) > 1
         /\ \E cr \in CRefs : /\ Fresh(cr)
                              /\ ca' = alloc(cr, an.out, TRUE, an.lbd)
                              /\ learnts' = learnts \cup {cr}
                              /\ attachClause(cr, an.out)
         /\ UNCHANGED <<clauses, dirty>>
  BY DEF Learn
<1>2. pc = "learn" /\ UNCHANGED formula
  BY DEF Learn, user
<1>3. CASE /\ Len(an.out) > 1
           /\ \E cr \in CRefs : /\ Fresh(cr)
                                /\ ca' = alloc(cr, an.out, TRUE, an.lbd)
                                /\ learnts' = learnts \cup {cr}
                                /\ attachClause(cr, an.out)
           /\ UNCHANGED <<clauses, dirty>>
  <2>1. an.out \in Seq(Lits) /\ an.lbd \in Nat /\ OutGood(an.out)
    BY <1>2 DEF IInv, ValuesInv, AnType, MinimiseInv
  <2>2. \A k \in DOMAIN an.out : isTrue(-an.out[k]) /\ an.out[k] \in Lits
    <3>1. TAKE k \in DOMAIN an.out
    <3>2. k = 1 \/ k \in 2 .. Len(an.out)
      BY <2>1
    <3>3. \E L : TrueAt(-an.out[k], L)
      BY <2>1, <3>2 DEF OutGood
    <3>. QED
      BY <2>1, <3>3 DEF TrueAt, isTrue
  <2>3. \A k \in DOMAIN an.out : an.out[k] \in NLits
    <3>1. TAKE k \in DOMAIN an.out
    <3>2. -an.out[k] \in NLits /\ an.out[k] \in Lits
      BY <2>2 DEF isTrue, IInv, LevelsInv
    <3>. QED
      BY <3>2, LitsFacts DEF NLits
  <2>4. \A k, m \in DOMAIN an.out : an.out[k] = an.out[m] => k = m
    BY <2>1 DEF OutGood, VarInjective
  <2>5. GoodClause(an.out)
    <3>. DEFINE n == Len(an.out)
    <3>1. n \in Nat /\ n > 1
      BY <1>3, <2>1
    <3>. HIDE DEF n
    <3>2. n >= 2
      BY <3>1
    <3>. QED
      BY <2>1, <2>3, <2>4, <3>2 DEF GoodClause, n
  <2>6. Implies(formula', ToSet(an.out))
    BY <1>2, <2>1 DEF OutGood
  <2>7. PICK cr \in CRefs : /\ Fresh(cr)
                              /\ ca' = alloc(cr, an.out, TRUE, an.lbd)
                              /\ learnts' = learnts \cup {cr}
                              /\ attachClause(cr, an.out)
    BY <1>3
  <2>8. Allocates(cr, an.out, TRUE, an.lbd)
    BY <2>1, <2>5, <2>6, <2>7 DEF Allocates
  <2>. QED
    BY <1>3, <2>7, <2>8
<1>. QED
  BY <1>1, <1>3

\* simplify marks satisfied clauses, and takes them out of use and out of the
\* reasons.
LEMMA SimplifyMarks ==
    ASSUME IInv, Simplify
    PROVE  \E rs : Marks(rs) /\ learnts' = learnts \ rs /\ clauses' = clauses \ rs /\ trail' = Unreasoned(rs)
<1>. DEFINE gone == {cr \in learnts \cup (IF remove_satisfied THEN clauses ELSE {}) : satisfied(cr)}
<1>1. ca' = Marked(gone) /\ dirty' = Smudged(gone) /\ trail' = Unreasoned(gone)
      /\ learnts' = learnts \ gone /\ clauses' = clauses \ gone /\ UNCHANGED <<watches, watchesBin>>
  BY DEF Simplify, removeClauses
<1>2. gone \subseteq clauses \cup learnts
  OBVIOUS
<1>. HIDE DEF gone
<1>3. DOMAIN ca' = DOMAIN ca
  BY <1>1 DEF Marked
<1>4. \A cr \in DOMAIN ca : /\ ca'[cr] \in ClauseRecords /\ ca'[cr].lits = lits(cr)
                             /\ ca'[cr].mark = IF cr \in gone THEN 1 ELSE ca[cr].mark
  <2>1. TAKE cr \in DOMAIN ca
  <2>2. ca[cr] \in ClauseRecords
    BY DEF IInv, ClausesInv
  <2>3. ca'[cr] = IF cr \in gone THEN [ca[cr] EXCEPT !.mark = 1] ELSE ca[cr]
    BY <1>1 DEF Marked
  <2>. QED
    BY <2>2, <2>3 DEF ClauseRecords, lits
<1>5. Marks(gone)
  BY <1>1, <1>2, <1>3, <1>4 DEF Marks
<1>. QED
  BY <1>1, <1>5

\* reduceDB marks learnt clauses that are not locked and have more than two
\* literals.
LEMMA ReduceMarks ==
    ASSUME IInv, reduceDB
    PROVE  \E rs : /\ Marks(rs) /\ learnts' = learnts \ rs /\ UNCHANGED clauses /\ rs \subseteq learnts
                   /\ \A cr \in rs : ~ locked(cr) /\ Len(lits(cr)) > 2
<1>1. PICK order \in SetToSeqs(learnts) :
         LET gone == Removable(order) IN
         /\ learnts' = learnts \ gone
         /\ dirty' = Smudged(gone)
         /\ ca' = [cr \in DOMAIN ca |-> IF cr \in gone THEN [ca[cr] EXCEPT !.mark = 1]
                                        ELSE IF cr \in learnts THEN [ca[cr] EXCEPT !.canBeDel = TRUE]
                                        ELSE ca[cr]]
  BY DEF reduceDB
<1>. DEFINE gone == Removable(order)
<1>2. \A i \in DOMAIN order : order[i] \in learnts
  BY <1>1 DEF SetToSeqs
<1>3. gone \subseteq learnts /\ \A cr \in gone : ~ locked(cr) /\ Len(lits(cr)) > 2
  BY <1>2 DEF Removable
<1>. HIDE DEF gone
<1>4. /\ learnts' = learnts \ gone
      /\ dirty' = Smudged(gone)
      /\ ca' = [cr \in DOMAIN ca |-> IF cr \in gone THEN [ca[cr] EXCEPT !.mark = 1]
                                     ELSE IF cr \in learnts THEN [ca[cr] EXCEPT !.canBeDel = TRUE]
                                     ELSE ca[cr]]
  BY <1>1 DEF gone
<1>5. UNCHANGED <<clauses, watches, watchesBin>>
  BY DEF reduceDB
<1>6. \A cr \in DOMAIN ca : /\ ca'[cr] \in ClauseRecords /\ ca'[cr].lits = lits(cr)
                             /\ ca'[cr].mark = IF cr \in gone THEN 1 ELSE ca[cr].mark
  <2>1. TAKE cr \in DOMAIN ca
  <2>2. ca[cr] \in ClauseRecords
    BY DEF IInv, ClausesInv
  <2>3. \/ cr \in gone /\ ca'[cr] = [ca[cr] EXCEPT !.mark = 1]
        \/ cr \notin gone /\ ca'[cr] = [ca[cr] EXCEPT !.canBeDel = TRUE]
        \/ cr \notin gone /\ ca'[cr] = ca[cr]
    BY <1>4
  <2>. QED
    BY <2>2, <2>3 DEF ClauseRecords, lits
<1>7. Marks(gone)
  BY <1>3, <1>4, <1>5, <1>6 DEF Marks
<1>. QED
  BY <1>3, <1>4, <1>5, <1>7

WatcherRecords == [cref : CRefs, blocker : Lits]

\* Nothing is added by an empty sequence.
LEMMA EmptyConcat ==
    ASSUME NEW S, NEW s \in Seq(S)
    PROVE  s \o <<>> = s
OBVIOUS

\* What cleanAll leaves of a list.
LEMMA CleanedFacts ==
    ASSUME NEW ws \in [Lits -> WatcherSeqs], NEW l \in Lits
    PROVE  LET list == Cleaned(ws)[l] IN
           /\ list \in WatcherSeqs
           /\ \A n \in DOMAIN list : \E m \in DOMAIN ws[l] :
                 list[n] = ws[l][m] /\ (l \in dirty => ca[list[n].cref].mark # 1)
           /\ \A m \in DOMAIN ws[l] : l \notin dirty \/ ca[ws[l][m].cref].mark # 1 =>
                 \E n \in DOMAIN list : list[n] = ws[l][m]
           /\ NoRepeat(ws[l]) => NoRepeat(list)
<1>. DEFINE s == ws[l]
            I == InMemory(s)
            t == Selected(s, I)
            list == Cleaned(ws)[l]
<1>1. s \in Seq(WatcherRecords) /\ I \subseteq DOMAIN s
  BY DEF WatcherSeqs, WatcherRecords, InMemory
<1>2. list = IF l \in dirty THEN t ELSE s
  BY DEF Cleaned
<1>3. \A i \in DOMAIN s : i \in I <=> ca[s[i].cref].mark # 1
  BY DEF InMemory
<1>. HIDE DEF s, I
<1>4. /\ t \in Seq(WatcherRecords)
      /\ \A n \in DOMAIN t : Nth(I, n) \in I /\ t[n] = s[Nth(I, n)]
      /\ \A n, m \in DOMAIN t : Nth(I, n) = Nth(I, m) => n = m
      /\ \A i \in I : \E n \in DOMAIN t : t[n] = s[i]
  BY <1>1, SelectedFacts
<1>. HIDE DEF t, list
<1>5. CASE l \in dirty
  <2>1. list = t
    BY <1>2, <1>5
  <2>2. \A n \in DOMAIN t : \E m \in DOMAIN s : t[n] = s[m] /\ ca[t[n].cref].mark # 1
    <3>1. TAKE n \in DOMAIN t
    <3>. DEFINE m == Nth(I, n)
    <3>2. m \in I /\ m \in DOMAIN s /\ t[n] = s[m]
      BY <1>1, <1>4
    <3>. HIDE DEF m
    <3>3. ca[s[m].cref].mark # 1
      BY <1>3, <3>2
    <3>. QED
      BY <3>2, <3>3
  <2>3. \A m \in DOMAIN s : ca[s[m].cref].mark # 1 => \E n \in DOMAIN t : t[n] = s[m]
    BY <1>3, <1>4
  <2>4. NoRepeat(s) => NoRepeat(t)
    <3>1. SUFFICES ASSUME NoRepeat(s), NEW m \in DOMAIN t, NEW n \in DOMAIN t, t[m].cref = t[n].cref
                   PROVE  m = n
      BY DEF NoRepeat
    <3>2. Nth(I, m) \in DOMAIN s /\ Nth(I, n) \in DOMAIN s
      BY <1>1, <1>4
    <3>3. s[Nth(I, m)].cref = s[Nth(I, n)].cref
      BY <1>4, <3>1
    <3>4. Nth(I, m) = Nth(I, n)
      BY <3>1, <3>2, <3>3 DEF NoRepeat
    <3>. QED
      BY <1>4, <3>4
  <2>. QED
    BY <1>4, <1>5, <2>1, <2>2, <2>3, <2>4 DEF list, s, WatcherSeqs, WatcherRecords
<1>6. CASE l \notin dirty
  <2>1. list = s
    BY <1>2, <1>6
  <2>. QED
    BY <1>1, <1>6, <2>1 DEF list, s, WatcherSeqs, WatcherRecords
<1>. QED
  BY <1>5, <1>6

\* The lists that are not being visited, and what they may hold.
LEMMA PlainLists ==
    ASSUME WatchInv, pc # "long", NEW l \in Lits
    PROVE  ListOf(l) = watches[l] /\ watches[l] \in Seq(WatcherRecords)
<1>1. watches[l] \in Seq(WatcherRecords)
  BY DEF WatchInv, WatcherSeqs, WatcherRecords
<1>2. watches[l] \o <<>> = watches[l]
  BY <1>1, EmptyConcat
<1>. QED
  BY <1>1, <1>2 DEF ListOf, Pending

\* Garbage collection cleans the lists and then drops the marked clauses, or
\* does nothing.
LEMMA GarbageCollects ==
    ASSUME IInv, CheckGarbage
    PROVE  UNCHANGED <<ca, watches, watchesBin, dirty>> \/ Collects
<1>1. pc = "garbage"
  BY DEF CheckGarbage
<1>2. \/ UNCHANGED <<ca, watches, watchesBin, dirty>>
      \/ ca' = [cr \in Reloced(clauses) |-> ca[cr]] /\ cleanAll
  BY DEF CheckGarbage
<1>3. Watched(Cleaned(watches)) \subseteq DOMAIN ca
  <2>1. SUFFICES ASSUME NEW l \in Lits, NEW n \in DOMAIN Cleaned(watches)[l]
                 PROVE  Cleaned(watches)[l][n].cref \in DOMAIN ca
    BY DEF Watched, ToSet
  <2>2. PICK m \in DOMAIN watches[l] : Cleaned(watches)[l][n] = watches[l][m]
    BY CleanedFacts DEF IInv, WatchInv
  <2>3. watches[l][m].cref \in Refs(ListOf(l))
    BY <1>1, <2>2, PlainLists DEF Refs, IInv
  <2>. QED
    BY <2>2, <2>3 DEF IInv, WatchInv
<1>4. Watched(Cleaned(watchesBin)) \subseteq DOMAIN ca
  <2>1. SUFFICES ASSUME NEW l \in Lits, NEW n \in DOMAIN Cleaned(watchesBin)[l]
                 PROVE  Cleaned(watchesBin)[l][n].cref \in DOMAIN ca
    BY DEF Watched, ToSet
  <2>2. PICK m \in DOMAIN watchesBin[l] : Cleaned(watchesBin)[l][n] = watchesBin[l][m]
    BY CleanedFacts DEF IInv, WatchInv
  <2>. QED
    BY <2>2 DEF IInv, WatchInv
<1>5. Reloced(clauses) \subseteq DOMAIN ca
  BY <1>3, <1>4 DEF Reloced, Reasons, IInv, UseInv, InUse
<1>. QED
  BY <1>2, <1>5 DEF Collects

\* The ways the memory of clauses changes, the visits of watchers apart.
LEMMA CaKinds ==
    ASSUME IInv, [Next]_svars
    PROVE  \/ UNCHANGED ca
           \/ \E cr, ps, learnt, lbd : Allocates(cr, ps, learnt, lbd)
           \/ \E d, c : Rewrites(d, c) /\ SameTwo(d, c)
           \/ KeepWatch \/ MoveWatch \/ Simplify \/ reduceDB
           \/ Collects
<1>. USE DEF database
<1>1. CASE addClause
  BY <1>1, AddAllocates
<1>2. CASE newVar \/ callSimplify \/ solve \/ interrupt \/ Added \/ Return
  BY <1>2 DEF newVar, callSimplify, solve, interrupt, Added, Return, Returned
<1>3. CASE Dequeue \/ Propagated \/ VisitBinary \/ StartLong \/ SkipClause \/ EndLong
  BY <1>3 DEF Dequeue, Propagated, VisitBinary, StartLong, SkipClause, EndLong
<1>4. CASE MoveWatch
  BY <1>4
<1>5. CASE KeepWatch
  BY <1>5
<1>6. CASE Analyze
  BY <1>6, AnalyzeRewrites
<1>7. CASE litRedundant
  BY <1>7, RedundantRewrites
<1>8. CASE SearchConflict \/ Minimise \/ Shorten \/ Restart \/ NoConflict \/ SimplifyReturns
           \/ KeepLearnts \/ NothingToReduce
  BY <1>8 DEF SearchConflict, Minimise, Shorten, Restart, NoConflict, SimplifyReturns, KeepLearnts,
              NothingToReduce
<1>9. CASE Learn
  BY <1>9, LearnAllocates
<1>10. CASE Simplify
  BY <1>10
<1>11. CASE reduceDB
  BY <1>11
<1>12. CASE CheckGarbage
  BY <1>12, GarbageCollects
<1>13. CASE DummyLevel \/ Assume \/ AssumptionFails \/ AnalyzeFinal \/ FinalAnalyzed
              \/ PickBranchLit \/ ModelFound
  BY <1>13 DEF DummyLevel, Assume, AssumptionFails, AnalyzeFinal, FinalAnalyzed,
                       PickBranchLit, ModelFound, UnchangedByDecide
<1>14. CASE UNCHANGED svars
  BY <1>14 DEF svars
<1>. HIDE DEF database
<1>. QED
  BY <1>1, <1>2, <1>3, <1>4, <1>5, <1>6, <1>7, <1>8, <1>9, <1>10, <1>11, <1>12, <1>13, <1>14
     DEF Next, Step, User, Search, Propagate

\* The five ways the memory of clauses changes.
LEMMA CaSteps ==
    ASSUME IInv, [Next]_svars
    PROVE  \/ UNCHANGED ca
           \/ \E cr, ps, learnt, lbd : Allocates(cr, ps, learnt, lbd)
           \/ \E d, c : Rewrites(d, c)
           \/ \E rs : Marks(rs)
           \/ Collects
<1>1. CASE KeepWatch \/ MoveWatch
  BY <1>1, KeepRewrites, MoveRewrites
<1>2. CASE Simplify \/ reduceDB
  BY <1>2, SimplifyMarks, ReduceMarks
<1>. QED
  BY <1>1, <1>2, CaKinds

\* A clause after a step is one before it, rearranged, or new.
LEMMA ClauseSteps ==
    ASSUME IInv, [Next]_svars, NEW cr \in DOMAIN ca'
    PROVE  /\ ca'[cr] \in ClauseRecords /\ cr \in CRefs
           /\ \/ cr \in DOMAIN ca /\ Rearranged(ca'[cr].lits, lits(cr))
              \/ GoodClause(ca'[cr].lits) /\ Implies(formula', ToSet(ca'[cr].lits))
<1>0. ClausesInv
  BY DEF IInv
<1>1. ASSUME cr \in DOMAIN ca, ca'[cr] = ca[cr]
      PROVE  ca'[cr] \in ClauseRecords /\ cr \in CRefs /\ Rearranged(ca'[cr].lits, lits(cr))
  BY <1>0, <1>1, ClauseFacts, SameRearranges DEF lits
<1>2. CASE UNCHANGED ca
  BY <1>1, <1>2
<1>3. CASE \E d, ps, learnt, lbd : Allocates(d, ps, learnt, lbd)
  <2>1. PICK d, ps, learnt, lbd : Allocates(d, ps, learnt, lbd)
    BY <1>3
  <2>2. CASE cr = d
    BY <2>1, <2>2, AllocFacts DEF Allocates
  <2>3. CASE cr # d
    BY <1>1, <2>1, <2>3, AllocFacts
  <2>. QED
    BY <2>2, <2>3
<1>4. CASE \E d, c : Rewrites(d, c)
  BY <1>0, <1>4, RewriteFacts, ClauseFacts
<1>5. CASE \E rs : Marks(rs)
  <2>1. cr \in DOMAIN ca /\ ca'[cr] \in ClauseRecords /\ ca'[cr].lits = lits(cr)
    BY <1>5 DEF Marks
  <2>. QED
    BY <1>0, <2>1, ClauseFacts, SameRearranges
<1>6. CASE Collects
  BY <1>1, <1>6 DEF Collects
<1>. QED
  BY <1>2, <1>3, <1>4, <1>5, <1>6, CaSteps

\* Every step keeps the clauses well formed.
LEMMA ClausesStep ==
    ASSUME IInv, [Next]_svars
    PROVE  ClausesInv'
<1>1. SUFFICES ASSUME NEW cr \in DOMAIN ca'
               PROVE  /\ cr \in CRefs /\ ca'[cr] \in ClauseRecords /\ Len(ca'[cr].lits) >= 2
                      /\ \A k \in DOMAIN ca'[cr].lits : ca'[cr].lits[k] \in NLits'
                      /\ \A k, m \in DOMAIN ca'[cr].lits : ca'[cr].lits[k] = ca'[cr].lits[m] => k = m
  BY DEF ClausesInv, lits
<1>2. NLits \subseteq NLits'
  <2>1. nVars' \in {nVars, nVars + 1}
    <3>1. CASE Quiet
      BY <3>1 DEF Quiet
    <3>2. CASE EnqueueStep
      BY <3>2 DEF EnqueueStep
    <3>3. CASE LearnStep
      BY <3>3 DEF LearnStep
    <3>4. CASE TakeOffStep \/ DummyStep \/ UnreasonStep
      BY <3>4 DEF TakeOffStep, DummyStep, UnreasonStep
    <3>. QED
      BY <3>1, <3>2, <3>3, <3>4, TrailSteps
  <2>. QED
    BY <2>1, NLitsGrow
<1>3. CASE cr \in DOMAIN ca /\ Rearranged(ca'[cr].lits, lits(cr))
  <2>1. GoodClause(lits(cr))
    BY <1>3, ClauseFacts DEF IInv
  <2>. DEFINE t == ca'[cr].lits
              s == lits(cr)
  <2>2. /\ Len(s) >= 2 /\ \A k \in DOMAIN s : s[k] \in NLits
        /\ \A k, m \in DOMAIN s : s[k] = s[m] => k = m
    BY <2>1 DEF GoodClause
  <2>3. Rearranged(t, s)
    BY <1>3
  <2>. HIDE DEF t, s
  <2>4. /\ Len(t) = Len(s)
        /\ \A k \in DOMAIN t : \E m \in DOMAIN s : t[k] = s[m]
        /\ \A k, m \in DOMAIN t : t[k] = t[m] => k = m
    BY <2>2, <2>3, RearrangedFacts
  <2>5. Len(t) >= 2 /\ \A k \in DOMAIN t : t[k] \in NLits
    BY <2>2, <2>4
  <2>. QED
    BY <1>2, <2>4, <2>5, ClauseSteps DEF t
<1>4. CASE GoodClause(ca'[cr].lits)
  BY <1>2, <1>4, ClauseSteps DEF GoodClause
<1>. QED
  BY <1>3, <1>4, ClauseSteps

-----------------------------------------------------------------------------
(***************************************************************************)
(* Watch lists: pieces of the invariant, and steps that leave the lists    *)
(* alone.                                                                  *)
(***************************************************************************)

\* Two sequences one after the other, place by place.
LEMMA ConcatFacts ==
    ASSUME NEW S, NEW a \in Seq(S), NEW b \in Seq(S), NEW m, m = Len(a), NEW n, n = Len(b)
    PROVE  /\ a \o b \in Seq(S) /\ DOMAIN (a \o b) = 1 .. m + n
           /\ \A i \in 1 .. m : (a \o b)[i] = a[i]
           /\ \A i \in m + 1 .. m + n : (a \o b)[i] = b[i - m]
OBVIOUS

\* The watcher that is visited goes to the list that stays.
LEMMA VisitedPlace ==
    ASSUME NEW S, NEW a \in Seq(S), NEW todo \in Seq(S), todo # <<>>, NEW w \in S
    PROVE  LET s == a \o todo
               t == Append(a, w) \o Tail(todo)
           IN /\ t \in Seq(S) /\ s \in Seq(S) /\ DOMAIN t = DOMAIN s
              /\ Len(a) + 1 \in DOMAIN s /\ t[Len(a) + 1] = w /\ s[Len(a) + 1] = Head(todo)
              /\ \A n \in DOMAIN s : n # Len(a) + 1 => t[n] = s[n]
<1>. DEFINE s == a \o todo
            b == Append(a, w)
            r == Tail(todo)
            t == b \o r
            m == Len(a)
            n == Len(todo)
<1>1. m \in Nat /\ n \in Nat /\ n > 0 /\ DOMAIN a = 1 .. m /\ DOMAIN todo = 1 .. n
  OBVIOUS
<1>2. /\ b \in Seq(S) /\ Len(b) = m + 1 /\ DOMAIN b = 1 .. m + 1 /\ b[m + 1] = w /\ \A i \in 1 .. m : b[i] = a[i]
  OBVIOUS
<1>3. /\ r \in Seq(S) /\ Len(r) = n - 1 /\ \A i \in 1 .. n - 1 : r[i] = todo[i + 1]
  OBVIOUS
<1>4. /\ s \in Seq(S) /\ DOMAIN s = 1 .. m + n /\ (\A i \in 1 .. m : s[i] = a[i])
      /\ \A i \in m + 1 .. m + n : s[i] = todo[i - m]
  OBVIOUS
<1>5. Head(todo) = todo[1]
  OBVIOUS
<1>. HIDE DEF b, r, m, n, s
<1>6. /\ t \in Seq(S) /\ DOMAIN t = 1 .. (m + 1) + (n - 1)
      /\ (\A i \in 1 .. m + 1 : t[i] = b[i])
      /\ \A i \in (m + 1) + 1 .. (m + 1) + (n - 1) : t[i] = r[i - (m + 1)]
  <2>. DEFINE m1 == m + 1
              n1 == n - 1
  <2>1. m1 = Len(b) /\ n1 = Len(r)
    BY <1>2, <1>3
  <2>. HIDE DEF m1, n1
  <2>2. /\ t \in Seq(S) /\ DOMAIN t = 1 .. m1 + n1
        /\ (\A i \in 1 .. m1 : t[i] = b[i])
        /\ \A i \in m1 + 1 .. m1 + n1 : t[i] = r[i - m1]
    <3>1. b \in Seq(S) /\ r \in Seq(S)
      BY <1>2, <1>3
    <3>2. /\ b \o r \in Seq(S) /\ DOMAIN (b \o r) = 1 .. m1 + n1
          /\ \A i \in 1 .. m1 : (b \o r)[i] = b[i]
          /\ \A i \in m1 + 1 .. m1 + n1 : (b \o r)[i] = r[i - m1]
      BY <2>1, <3>1, ConcatFacts
    <3>. QED
      BY <3>2
  <2>. QED
    BY <2>2 DEF m1, n1
<1>. HIDE DEF t
<1>7. DOMAIN t = DOMAIN s
  BY <1>1, <1>2, <1>3, <1>4, <1>6
<1>8. t[m + 1] = w /\ s[m + 1] = todo[1] /\ m + 1 \in DOMAIN s
  BY <1>1, <1>2, <1>4, <1>6
<1>9. \A i \in DOMAIN s : i # m + 1 => t[i] = s[i]
  <2>1. SUFFICES ASSUME NEW i \in 1 .. m + n, i # m + 1  PROVE t[i] = s[i]
    BY <1>4
  <2>2. CASE i \in 1 .. m
    BY <1>1, <1>2, <1>4, <1>6, <2>2
  <2>3. CASE i \in m + 2 .. m + n
    <3>1. i - (m + 1) \in 1 .. n - 1 /\ (i - (m + 1)) + 1 = i - m
      BY <1>1, <2>3
    <3>2. t[i] = r[i - (m + 1)]
      BY <1>1, <1>2, <1>3, <1>6, <2>3
    <3>3. s[i] = todo[i - m]
      BY <1>1, <1>4, <2>3
    <3>. QED
      BY <1>3, <3>1, <3>2, <3>3
  <2>. QED
    BY <1>1, <2>1, <2>2, <2>3
<1>. QED
  BY <1>4, <1>5, <1>6, <1>7, <1>8, <1>9 DEF s, t, b, r, m

\* A list without one of its watchers.
LEMMA LeftCrefs ==
    ASSUME NEW t, NEW s, NEW p \in DOMAIN s, NoRepeat(s),
           \E g \in [DOMAIN t -> DOMAIN s] :
                    /\ \A i \in DOMAIN t : t[i] = s[g[i]] /\ g[i] # p
                    /\ \A i, j \in DOMAIN t : g[i] = g[j] => i = j
                    /\ \A j \in DOMAIN s : j # p => \E i \in DOMAIN t : g[i] = j
    PROVE  Refs(t) = Refs(s) \ {s[p].cref} /\ NoRepeat(t)
<1>1. PICK g \in [DOMAIN t -> DOMAIN s] :
                    /\ \A i \in DOMAIN t : t[i] = s[g[i]] /\ g[i] # p
                    /\ \A i, j \in DOMAIN t : g[i] = g[j] => i = j
                    /\ \A j \in DOMAIN s : j # p => \E i \in DOMAIN t : g[i] = j
  OBVIOUS
<1>2. \A i \in DOMAIN t : g[i] \in DOMAIN s /\ t[i].cref = s[g[i]].cref
  BY <1>1
<1>3. NoRepeat(t)
  BY <1>1, <1>2 DEF NoRepeat
<1>4. Refs(t) \subseteq Refs(s) \ {s[p].cref}
  BY <1>1, <1>2 DEF Refs, NoRepeat
<1>5. Refs(s) \ {s[p].cref} \subseteq Refs(t)
  <2>1. SUFFICES ASSUME NEW j \in DOMAIN s, s[j].cref # s[p].cref  PROVE s[j].cref \in Refs(t)
    BY DEF Refs
  <2>2. PICK i \in DOMAIN t : g[i] = j
    BY <1>1, <2>1
  <2>. QED
    BY <1>2, <2>2 DEF Refs
<1>. QED
  BY <1>3, <1>4, <1>5

\* The watcher that is visited goes elsewhere.
LEMMA LeftPlace ==
    ASSUME NEW S, NEW a \in Seq(S), NEW todo \in Seq(S), todo # <<>>
    PROVE  LET s == a \o todo
               t == a \o Tail(todo)
           IN NoRepeat(s) => Refs(t) = Refs(s) \ {Head(todo).cref} /\ NoRepeat(t)
<1>. DEFINE s == a \o todo
            r == Tail(todo)
            t == a \o r
            m == Len(a)
            n == Len(todo)
            g == [i \in DOMAIN t |-> IF i <= m THEN i ELSE i + 1]
<1>1. m \in Nat /\ n \in Nat /\ n > 0 /\ DOMAIN a = 1 .. m /\ DOMAIN todo = 1 .. n
  OBVIOUS
<1>3. /\ r \in Seq(S) /\ Len(r) = n - 1 /\ \A i \in 1 .. n - 1 : r[i] = todo[i + 1]
  OBVIOUS
<1>4. /\ s \in Seq(S) /\ DOMAIN s = 1 .. m + n /\ (\A i \in 1 .. m : s[i] = a[i])
      /\ \A i \in m + 1 .. m + n : s[i] = todo[i - m]
  OBVIOUS
<1>5. Head(todo) = todo[1]
  OBVIOUS
<1>. HIDE DEF r, n, s
<1>6. /\ t \in Seq(S) /\ DOMAIN t = 1 .. m + (n - 1)
      /\ (\A i \in 1 .. m : t[i] = a[i])
      /\ \A i \in m + 1 .. m + (n - 1) : t[i] = r[i - m]
  <2>1. a \in Seq(S) /\ r \in Seq(S)
    BY <1>3
  <2>2. /\ a \o r \in Seq(S) /\ DOMAIN (a \o r) = 1 .. m + Len(r)
        /\ (\A i \in 1 .. m : (a \o r)[i] = a[i])
        /\ \A i \in m + 1 .. m + Len(r) : (a \o r)[i] = r[i - m]
    BY <2>1, ConcatFacts
  <2>. QED
    BY <1>3, <2>2
<1>. HIDE DEF t, m
<1>7. DOMAIN t = 1 .. m + n - 1
  BY <1>1, <1>3, <1>6
<1>8. s[m + 1] = todo[1] /\ m + 1 \in DOMAIN s
  BY <1>1, <1>4
<1>9. g \in [DOMAIN t -> DOMAIN s]
  BY <1>1, <1>4, <1>7
<1>10. \A i \in DOMAIN t : g[i] = IF i <= m THEN i ELSE i + 1
  OBVIOUS
<1>. HIDE DEF g
<1>11. \A i \in DOMAIN t : t[i] = s[g[i]] /\ g[i] # m + 1
  <2>1. TAKE i \in DOMAIN t
  <2>2. CASE i \in 1 .. m
    <3>1. g[i] = i /\ i # m + 1
      BY <1>1, <1>10, <2>2
    <3>. QED
      BY <1>4, <1>6, <2>2, <3>1
  <2>3. CASE i \in m + 1 .. m + n - 1
    <3>1. g[i] = i + 1 /\ i + 1 # m + 1
      BY <1>1, <1>10, <2>3
    <3>2. i - m \in 1 .. n - 1 /\ (i - m) + 1 = (i + 1) - m /\ i + 1 \in m + 1 .. m + n
      BY <1>1, <2>3
    <3>3. t[i] = r[i - m]
      BY <1>1, <1>3, <1>6, <2>3
    <3>4. s[i + 1] = todo[(i + 1) - m]
      BY <1>4, <3>2
    <3>. QED
      BY <1>3, <3>1, <3>2, <3>3, <3>4
  <2>. QED
    BY <1>1, <1>7, <2>1, <2>2, <2>3
<1>12. \A i, j \in DOMAIN t : g[i] = g[j] => i = j
  BY <1>1, <1>7, <1>10
<1>13. \A j \in DOMAIN s : j # m + 1 => \E i \in DOMAIN t : g[i] = j
  <2>1. SUFFICES ASSUME NEW j \in 1 .. m + n, j # m + 1  PROVE \E i \in DOMAIN t : g[i] = j
    BY <1>4
  <2>2. CASE j <= m
    <3>1. j \in DOMAIN t
      BY <1>1, <1>7, <2>1, <2>2
    <3>. QED
      BY <1>10, <2>2, <3>1
  <2>3. CASE ~ j <= m
    <3>1. j - 1 \in DOMAIN t /\ ~ j - 1 <= m /\ (j - 1) + 1 = j
      BY <1>1, <1>7, <2>1, <2>3
    <3>. QED
      BY <1>10, <3>1
  <2>. QED
    BY <2>2, <2>3
<1>14. NoRepeat(s) => Refs(t) = Refs(s) \ {s[m + 1].cref} /\ NoRepeat(t)
  BY <1>8, <1>9, <1>11, <1>12, <1>13, LeftCrefs
<1>. QED
  BY <1>5, <1>8, <1>14 DEF s, t, r

\* Lists that refer to the same clauses in the same order.
LEMMA SameCrefs ==
    ASSUME NEW t, NEW s, DOMAIN t = DOMAIN s, \A n \in DOMAIN s : t[n].cref = s[n].cref
    PROVE  Refs(t) = Refs(s) /\ (NoRepeat(s) => NoRepeat(t))
BY DEF Refs, NoRepeat

\* The lists of the watchers, in terms of what they are made of.
LongLists == [l \in Lits |-> ListOf(l)]
LongIn(mem, due, cr, l) ==
    /\ cr \in DOMAIN mem /\ Len(mem[cr].lits) > 2 /\ -l \in {mem[cr].lits[1], mem[cr].lits[2]}
    /\ mem[cr].mark = 0 \/ l \in due
BinIn(mem, due, w, l) ==
    /\ w.cref \in DOMAIN mem
    /\ mem[w.cref].lits = <<-l, w.blocker>> \/ mem[w.cref].lits = <<w.blocker, -l>>
    /\ mem[w.cref].mark = 0 \/ l \in due
CoveredIn(mem, long, bin, cr, k) ==
    cr \in Refs(IF Len(mem[cr].lits) = 2 THEN bin[-mem[cr].lits[k]] ELSE long[-mem[cr].lits[k]])
ListsIn(mem, due, long, bin) ==
    \A l \in Lits : /\ NoRepeat(long[l]) /\ NoRepeat(bin[l])
                    /\ \A cr \in Refs(long[l]) : LongIn(mem, due, cr, l)
                    /\ \A n \in DOMAIN bin[l] : BinIn(mem, due, bin[l][n], l)
TypesOK ==
    /\ watches \in [Lits -> WatcherSeqs] /\ watchesBin \in [Lits -> WatcherSeqs] /\ dirty \subseteq Lits
    /\ visiting \in [p : Lits \cup {Undef}, todo : WatcherSeqs]

\* The invariant of the watch lists in terms of the pieces of state it is about,
LEMMA WatchParts ==
    WatchInv <=> TypesOK /\ ListsIn(ca, dirty, LongLists, watchesBin)
<1>1. \A l \in Lits : LongLists[l] = ListOf(l)
  BY DEF LongLists
<1>2. ListsIn(ca, dirty, LongLists, watchesBin) <=>
         \A l \in Lits : /\ NoRepeat(ListOf(l)) /\ NoRepeat(watchesBin[l])
                         /\ \A cr \in Refs(ListOf(l)) : LongIn(ca, dirty, cr, l)
                         /\ \A n \in DOMAIN watchesBin[l] : BinIn(ca, dirty, watchesBin[l][n], l)
  BY <1>1 DEF ListsIn
<1>. QED
  BY <1>2 DEF WatchInv, TypesOK, LongIn, BinIn, lits

\* and the same after a step.
LEMMA NextWatchParts ==
    WatchInv' <=> TypesOK' /\ ListsIn(ca', dirty', LongLists', watchesBin')
<1>1. WatchInv' <=> TypesOK' /\ ListsIn(ca, dirty, LongLists, watchesBin)'
  <2>1. WatchInv <=> TypesOK /\ ListsIn(ca, dirty, LongLists, watchesBin)
    BY WatchParts
  <2>. QED
    BY <2>1, PTL
<1>. QED
  BY <1>1

CoversIn(mem, long, bin, used) == \A cr \in used : \A k \in {1, 2} : CoveredIn(mem, long, bin, cr, k)

\* That clauses in use are in their lists, in terms of the same pieces,
LEMMA CoverParts ==
    ASSUME ClausesInv, UseInv
    PROVE  CoverInv <=> CoversIn(ca, LongLists, watchesBin, clauses \cup learnts)
<1>1. \A l \in Lits : LongLists[l] = ListOf(l)
  BY DEF LongLists
<1>2. ASSUME NEW cr \in clauses \cup learnts, NEW k \in {1, 2}
      PROVE  -lits(cr)[k] \in Lits
  <2>1. cr \in DOMAIN ca
    BY DEF UseInv, InUse
  <2>. QED
    BY <2>1, ClauseFacts, LitsFacts
<1>3. \A cr \in clauses \cup learnts : \A k \in {1, 2} : LongLists[-lits(cr)[k]] = ListOf(-lits(cr)[k])
  BY <1>1, <1>2
<1>. QED
  BY <1>3 DEF CoverInv, CoversIn, CoveredIn, lits

\* and the same after a step.
LEMMA NextCoverParts ==
    ClausesInv' /\ UseInv' => (CoverInv' <=> CoversIn(ca', LongLists', watchesBin', clauses' \cup learnts'))
<1>1. ClausesInv' /\ UseInv' => (CoverInv' <=> CoversIn(ca, LongLists, watchesBin, clauses \cup learnts)')
  <2>1. ClausesInv /\ UseInv => (CoverInv <=> CoversIn(ca, LongLists, watchesBin, clauses \cup learnts))
    BY CoverParts
  <2>. QED
    BY <2>1, PTL
<1>. QED
  BY <1>1

-----------------------------------------------------------------------------
\* A rewritten clause has the same literals in front.
KeepsPlaces ==
    /\ \A cr : \A l \in Lits : LongIn(ca, dirty, cr, l) => LongIn(ca', dirty', cr, l)
    /\ \A w : \A l \in Lits : BinIn(ca, dirty, w, l) => BinIn(ca', dirty', w, l)
    /\ \A cr \in DOMAIN ca : /\ cr \in DOMAIN ca' /\ Len(ca'[cr].lits) = Len(ca[cr].lits)
                             /\ {ca'[cr].lits[1], ca'[cr].lits[2]} = {ca[cr].lits[1], ca[cr].lits[2]}

\* A clause that is rewritten with the same first two literals keeps its lists
\* right,
LEMMA RewriteKeepsPlaces ==
    ASSUME ClausesInv, NEW d, NEW c, Rewrites(d, c), SameLong(d, c), UNCHANGED dirty
    PROVE  KeepsPlaces
<1>1. /\ DOMAIN ca' = DOMAIN ca
      /\ \A cr \in DOMAIN ca : /\ ca'[cr] \in ClauseRecords /\ ca'[cr].mark = ca[cr].mark
                               /\ Rearranged(ca'[cr].lits, lits(cr))
                               /\ cr # d => ca'[cr] = ca[cr]
      /\ ca'[d] = c
  BY RewriteFacts
<1>2. ASSUME NEW cr \in DOMAIN ca
      PROVE  /\ cr \in DOMAIN ca' /\ ca'[cr].mark = ca[cr].mark
             /\ Len(ca'[cr].lits) = Len(ca[cr].lits) /\ ca'[cr].lits \in Seq(Lits)
             /\ {ca'[cr].lits[1], ca'[cr].lits[2]} = {ca[cr].lits[1], ca[cr].lits[2]}
  <2>1. {ca'[cr].lits[1], ca'[cr].lits[2]} = {ca[cr].lits[1], ca[cr].lits[2]}
    BY <1>1 DEF SameLong, lits
  <2>2. Len(ca'[cr].lits) = Len(ca[cr].lits)
    BY <1>1 DEF Rearranged, lits
  <2>3. ca'[cr].lits \in Seq(Lits)
    BY <1>1 DEF ClauseRecords
  <2>. QED
    BY <1>1, <2>1, <2>2, <2>3
<1>3. \A cr, l : LongIn(ca, dirty, cr, l) => LongIn(ca', dirty', cr, l)
  <2>1. SUFFICES ASSUME NEW cr, NEW l, LongIn(ca, dirty, cr, l)  PROVE LongIn(ca', dirty', cr, l)
    OBVIOUS
  <2>. QED
    BY <1>2, <2>1 DEF LongIn
<1>4. \A w, l : BinIn(ca, dirty, w, l) => BinIn(ca', dirty', w, l)
  <2>1. SUFFICES ASSUME NEW w, NEW l, BinIn(ca, dirty, w, l)  PROVE BinIn(ca', dirty', w, l)
    OBVIOUS
  <2>. DEFINE cr == w.cref
              s == ca[cr].lits
              t == ca'[cr].lits
  <2>2. cr \in DOMAIN ca /\ (s = <<-l, w.blocker>> \/ s = <<w.blocker, -l>>) /\ (ca[cr].mark = 0 \/ l \in dirty)
    BY <2>1 DEF BinIn
  <2>3. /\ cr \in DOMAIN ca' /\ ca'[cr].mark = ca[cr].mark /\ Len(t) = Len(s) /\ t \in Seq(Lits)
        /\ {t[1], t[2]} = {s[1], s[2]}
    BY <1>2, <2>2
  <2>. HIDE DEF s, t
  <2>7. Len(s) = 2
    BY <2>2
  <2>4. Len(t) = 2 /\ ((t[1] = s[1] /\ t[2] = s[2]) \/ (t[1] = s[2] /\ t[2] = s[1]))
    BY <2>3, <2>7
  <2>5. t = <<t[1], t[2]>>
    BY <2>3, <2>4
  <2>6. t = <<-l, w.blocker>> \/ t = <<w.blocker, -l>>
    <3>1. CASE s = <<-l, w.blocker>>
      <4>1. s[1] = -l /\ s[2] = w.blocker
        BY <3>1
      <4>. QED
        BY <2>4, <2>5, <4>1
    <3>2. CASE s = <<w.blocker, -l>>
      <4>1. s[2] = -l /\ s[1] = w.blocker
        BY <3>2
      <4>. QED
        BY <2>4, <2>5, <4>1
    <3>. QED
      BY <2>2, <3>1, <3>2
  <2>. QED
    BY <2>2, <2>3, <2>6 DEF t, BinIn
<1>. QED
  BY <1>2, <1>3, <1>4 DEF KeepsPlaces

\* and so does memory that does not change.
LEMMA SameKeepsPlaces ==
    ASSUME UNCHANGED <<ca, dirty>>
    PROVE  KeepsPlaces
BY DEF LongIn, BinIn, KeepsPlaces

\* The lists have the same clauses, in one order or another.
SameLists ==
    /\ TypesOK' /\ UNCHANGED watchesBin
    /\ \A l \in Lits : Refs(LongLists'[l]) = Refs(LongLists[l]) /\ NoRepeat(LongLists'[l])

\* If the lists and the places of the watched literals stay, the invariants of
\* the lists stay.
LEMMA SameListsKeep ==
    ASSUME ClausesInv, UseInv, ClausesInv', UseInv', WatchInv, CoverInv, SameLists, KeepsPlaces,
           clauses' \cup learnts' \subseteq clauses \cup learnts
    PROVE  WatchInv' /\ CoverInv'
<1>1. ListsIn(ca', dirty', LongLists', watchesBin')
  <2>1. ListsIn(ca, dirty, LongLists, watchesBin)
    BY WatchParts
  <2>. QED
    BY <2>1 DEF SameLists, KeepsPlaces, ListsIn
<1>2. WatchInv'
  BY <1>1, NextWatchParts DEF SameLists
<1>3. ASSUME NEW cr \in clauses' \cup learnts', NEW k \in {1, 2}
      PROVE  CoveredIn(ca', LongLists', watchesBin', cr, k)
  <2>0. cr \in clauses \cup learnts
    OBVIOUS
  <2>1. cr \in DOMAIN ca /\ \A i \in {1, 2} : CoveredIn(ca, LongLists, watchesBin, cr, i)
    BY <2>0, CoverParts DEF UseInv, InUse, CoversIn
  <2>3. Len(ca'[cr].lits) = Len(ca[cr].lits) /\ {ca'[cr].lits[1], ca'[cr].lits[2]} = {ca[cr].lits[1], ca[cr].lits[2]}
    BY <2>1 DEF KeepsPlaces
  <2>2. PICK j \in {1, 2} : ca'[cr].lits[k] = ca[cr].lits[j]
    <3>1. \A a, b, x, y : {a, b} = {x, y} => (a = x \/ a = y) /\ (b = x \/ b = y)
      OBVIOUS
    <3>2. CASE k = 1
      BY <2>3, <3>1, <3>2
    <3>3. CASE k = 2
      BY <2>3, <3>1, <3>3
    <3>. QED
      BY <3>2, <3>3
  <2>4. -ca[cr].lits[j] \in Lits
    BY <2>1, ClauseFacts, LitsFacts DEF lits
  <2>5. CoveredIn(ca, LongLists, watchesBin, cr, j)
    BY <2>1
  <2>. QED
    BY <2>2, <2>3, <2>4, <2>5 DEF SameLists, CoveredIn
<1>. QED
  BY <1>2, <1>3, NextCoverParts DEF CoversIn

\* Marking clauses keeps the lists right when the lists of their literals become
\* due for cleaning.
LEMMA MarkKeepsPlaces ==
    ASSUME IInv, NEW rs, Marks(rs)
    PROVE  KeepsPlaces
<1>1. /\ DOMAIN ca' = DOMAIN ca
      /\ \A cr \in DOMAIN ca : /\ ca'[cr].lits = lits(cr)
                               /\ ca'[cr].mark = IF cr \in rs THEN 1 ELSE ca[cr].mark
      /\ dirty' = Smudged(rs)
  BY DEF Marks
<1>2. dirty \subseteq dirty' /\ \A cr \in rs : -lits(cr)[1] \in dirty' /\ -lits(cr)[2] \in dirty'
  BY <1>1 DEF Smudged
<1>3. ASSUME NEW cr, NEW l \in Lits, LongIn(ca, dirty, cr, l)  PROVE LongIn(ca', dirty', cr, l)
  <2>1. /\ cr \in DOMAIN ca /\ Len(ca[cr].lits) > 2 /\ -l \in {ca[cr].lits[1], ca[cr].lits[2]}
        /\ ca[cr].mark = 0 \/ l \in dirty
    BY <1>3 DEF LongIn
  <2>2. cr \in rs => l \in dirty'
    <3>1. -(-l) = l
      BY LitsFacts
    <3>. QED
      BY <1>2, <2>1, <3>1 DEF lits
  <2>. QED
    BY <1>1, <1>2, <2>1, <2>2 DEF LongIn, lits
<1>4. ASSUME NEW w, NEW l \in Lits, BinIn(ca, dirty, w, l)  PROVE BinIn(ca', dirty', w, l)
  <2>1. /\ w.cref \in DOMAIN ca
        /\ ca[w.cref].lits = <<-l, w.blocker>> \/ ca[w.cref].lits = <<w.blocker, -l>>
        /\ ca[w.cref].mark = 0 \/ l \in dirty
    BY <1>4 DEF BinIn
  <2>2. w.cref \in rs => l \in dirty'
    <3>1. -(-l) = l
      BY LitsFacts
    <3>2. ca[w.cref].lits[1] = -l \/ ca[w.cref].lits[2] = -l
      BY <2>1
    <3>. QED
      BY <1>2, <2>1, <3>1, <3>2 DEF lits
  <2>. QED
    BY <1>1, <1>2, <2>1, <2>2 DEF BinIn, lits
<1>. QED
  BY <1>1, <1>3, <1>4 DEF KeepsPlaces, lits

\* When no list is visited, all is as in watches.
LEMMA PlainNext ==
    ASSUME pc' # "long", watches' \in [Lits -> WatcherSeqs], NEW l \in Lits
    PROVE  LongLists'[l] = watches'[l] /\ watches'[l] \in Seq(WatcherRecords)
<1>1. watches'[l] \in Seq(WatcherRecords)
  BY DEF WatcherSeqs, WatcherRecords
<1>2. watches'[l] \o <<>> = watches'[l]
  BY <1>1, EmptyConcat
<1>3. Pending' = <<>>
  BY DEF Pending
<1>4. LongLists'[l] = IF visiting'.p = l THEN watches'[l] \o Pending' ELSE watches'[l]
  BY DEF LongLists, ListOf
<1>. QED
  BY <1>1, <1>2, <1>3, <1>4

\* While no list is visited, a list is what watches has.
LEMMA PlainNow ==
    ASSUME WatchInv, pc # "long", NEW l \in Lits
    PROVE  LongLists[l] = watches[l] /\ watches[l] \in Seq(WatcherRecords)
BY PlainLists DEF LongLists

\* Steps outside a visit that leave the lists alone.
LEMMA PlainSame ==
    ASSUME WatchInv, pc # "long", pc' # "long", UNCHANGED <<watches, watchesBin>>,
           dirty' \subseteq Lits, visiting' \in [p : Lits \cup {Undef}, todo : WatcherSeqs]
    PROVE  SameLists
<1>1. TypesOK'
  BY DEF WatchInv, TypesOK
<1>2. ASSUME NEW l \in Lits  PROVE LongLists'[l] = LongLists[l] /\ NoRepeat(LongLists[l])
  <2>1. LongLists'[l] = watches'[l]
    BY <1>1, PlainNext DEF TypesOK
  <2>2. LongLists[l] = watches[l] /\ ListOf(l) = watches[l]
    BY PlainNow, PlainLists
  <2>3. NoRepeat(ListOf(l))
    BY DEF WatchInv
  <2>. QED
    BY <2>1, <2>2, <2>3
<1>. QED
  BY <1>1, <1>2 DEF SameLists

\* The literal that is visited.
LEMMA VisitedNow ==
    ASSUME IInv, pc = "long"
    PROVE  /\ visiting.p \in Lits /\ watches[visiting.p] \in Seq(WatcherRecords)
           /\ visiting.todo \in Seq(WatcherRecords)
           /\ LongLists[visiting.p] = watches[visiting.p] \o visiting.todo
           /\ \A l \in Lits : l # visiting.p => LongLists[l] = watches[l]
           /\ \A l \in Lits : NoRepeat(LongLists[l])
<1>1. visiting.p \in Lits
  BY VisitedTrue
<1>2. \A l \in Lits : LongLists[l] = IF visiting.p = l THEN watches[l] \o visiting.todo ELSE watches[l]
  BY DEF LongLists, ListOf, Pending
<1>3. \A l \in Lits : NoRepeat(LongLists[l])
  BY DEF IInv, WatchInv, LongLists
<1>. QED
  BY <1>1, <1>2, <1>3, VisitingType DEF IInv, WatcherRecords

\* While a list is visited, it is the kept part followed by the rest.
LEMMA VisitedNext ==
    ASSUME pc' = "long"
    PROVE  \A l \in Lits : LongLists'[l] = IF visiting'.p = l THEN watches'[l] \o visiting'.todo ELSE watches'[l]
BY DEF LongLists, ListOf, Pending

\* The list that is visited has the same clauses, the others are the same.
LEMMA VisitedSame ==
    ASSUME IInv, pc = "long", watches' \in [Lits -> WatcherSeqs], UNCHANGED <<watchesBin, dirty>>,
           visiting' \in [p : Lits \cup {Undef}, todo : WatcherSeqs],
           Refs(LongLists'[visiting.p]) = Refs(LongLists[visiting.p]), NoRepeat(LongLists'[visiting.p]),
           \A l \in Lits : l # visiting.p => LongLists'[l] = watches[l]
    PROVE  SameLists
<1>1. TypesOK'
  BY DEF IInv, WatchInv, TypesOK
<1>2. \A l \in Lits : NoRepeat(LongLists[l]) /\ (l # visiting.p => LongLists[l] = watches[l])
  BY VisitedNow
<1>3. \A l \in Lits : Refs(LongLists'[l]) = Refs(LongLists[l]) /\ NoRepeat(LongLists'[l])
  BY <1>2
<1>. QED
  BY <1>1, <1>3 DEF SameLists

\* The start of a visit changes no list: its kept part is empty, its rest is
\* all.
LEMMA StartSame ==
    ASSUME IInv, StartLong
    PROVE  SameLists
<1>. DEFINE p == visiting.p
<1>1. /\ pc = "binary" /\ pc' = "long" /\ visiting' = [visiting EXCEPT !.todo = watches[p]]
      /\ watches' = [watches EXCEPT ![p] = <<>>] /\ UNCHANGED <<watchesBin, dirty>>
  BY DEF StartLong
<1>2. p \in Lits
  BY <1>1, VisitedTrue
<1>3. /\ watches \in [Lits -> WatcherSeqs] /\ watches[p] \in Seq(WatcherRecords)
      /\ visiting = [p |-> visiting.p, todo |-> visiting.todo]
  BY <1>1, <1>2, PlainNow, VisitingType DEF IInv, WatchInv
<1>4. visiting'.p = p /\ visiting'.todo = watches[p] /\ visiting' = [p |-> p, todo |-> watches[p]]
  BY <1>1, <1>3
<1>5. TypesOK'
  <2>1. <<>> \in WatcherSeqs
    BY DEF WatcherSeqs
  <2>2. watches' \in [Lits -> WatcherSeqs]
    BY <1>1, <1>3, <2>1
  <2>3. visiting' \in [p : Lits \cup {Undef}, todo : WatcherSeqs]
    BY <1>2, <1>3, <1>4 DEF WatcherSeqs, WatcherRecords
  <2>. QED
    BY <1>1, <2>2, <2>3 DEF IInv, WatchInv, TypesOK
<1>6. ASSUME NEW l \in Lits  PROVE LongLists'[l] = LongLists[l] /\ NoRepeat(LongLists[l])
  <2>1. LongLists[l] = watches[l] /\ NoRepeat(LongLists[l])
    BY <1>1, PlainNow DEF IInv, WatchInv, LongLists
  <2>2. LongLists'[l] = IF p = l THEN watches'[l] \o watches[p] ELSE watches'[l]
    BY <1>1, <1>4, VisitedNext
  <2>3. p # l => watches'[l] = watches[l]
    BY <1>1, <1>3
  <2>4. p = l => watches'[l] = <<>>
    BY <1>1, <1>3
  <2>5. <<>> \o watches[p] = watches[p]
    BY <1>3
  <2>. QED
    BY <2>1, <2>2, <2>3, <2>4, <2>5
<1>. QED
  BY <1>1, <1>5, <1>6 DEF SameLists

\* The end of a visit changes no list: what is left stays.
LEMMA EndSame ==
    ASSUME IInv, EndLong
    PROVE  SameLists
<1>. DEFINE p == visiting.p
<1>1. /\ pc = "long" /\ pc' # "long" /\ visiting.todo = <<>>
      /\ UNCHANGED <<watches, watchesBin, dirty, visiting>>
  BY DEF EndLong
<1>2. TypesOK'
  BY <1>1 DEF IInv, WatchInv, TypesOK
<1>3. ASSUME NEW l \in Lits  PROVE LongLists'[l] = LongLists[l] /\ NoRepeat(LongLists[l])
  <2>1. LongLists'[l] = watches[l]
    BY <1>1, <1>2, PlainNext DEF TypesOK
  <2>2. watches[p] \o <<>> = watches[p]
    BY <1>1, VisitedNow, EmptyConcat
  <2>. QED
    BY <1>1, <2>1, <2>2, VisitedNow
<1>. QED
  BY <1>1, <1>2, <1>3 DEF SameLists

\* A watcher that is added to a list comes last, the other lists stay.
LEMMA WithWatcherFacts ==
    ASSUME NEW ws \in [Lits -> WatcherSeqs], NEW l \in Lits, NEW w \in WatcherRecords
    PROVE  /\ WithWatcher(ws, l, w) \in [Lits -> WatcherSeqs]
           /\ WithWatcher(ws, l, w)[l] = Append(ws[l], w)
           /\ \A q \in Lits : q # l => WithWatcher(ws, l, w)[q] = ws[q]
<1>1. ws[l] \in Seq(WatcherRecords)
  BY DEF WatcherSeqs, WatcherRecords
<1>2. Append(ws[l], w) \in Seq(WatcherRecords)
  BY <1>1
<1>3. Append(ws[l], w) \in WatcherSeqs
  BY <1>2 DEF WatcherSeqs, WatcherRecords
<1>. QED
  BY <1>3 DEF WithWatcher

\* The watcher that is visited stays, perhaps with another blocker; on a conflict the
\* others are copied back.
LEMMA KeptSame ==
    ASSUME IInv, pc = "long", visiting.todo # <<>>, UNCHANGED <<watchesBin, dirty>>,
           NEW w \in WatcherRecords, w.cref = Head(visiting.todo).cref,
           \/ /\ watches' = WithWatcher(watches, visiting.p, w)
              /\ pc' = "long" /\ visiting' = [visiting EXCEPT !.todo = Tail(@)]
           \/ /\ watches' = [WithWatcher(watches, visiting.p, w) EXCEPT ![visiting.p] = @ \o Tail(visiting.todo)]
              /\ pc' # "long" /\ visiting' = visiting
    PROVE  SameLists
<1>. DEFINE p == visiting.p
            a == watches[p]
            todo == visiting.todo
            s == a \o todo
            t == Append(a, w) \o Tail(todo)
            ws == WithWatcher(watches, p, w)
<1>1. /\ p \in Lits /\ a \in Seq(WatcherRecords) /\ todo \in Seq(WatcherRecords)
      /\ LongLists[p] = s /\ NoRepeat(LongLists[p]) /\ todo # <<>>
  BY VisitedNow
<1>2. watches \in [Lits -> WatcherSeqs] /\ visiting = [p |-> visiting.p, todo |-> visiting.todo]
  BY VisitingType DEF IInv, WatchInv
<1>3. ws \in [Lits -> WatcherSeqs] /\ ws[p] = Append(a, w) /\ \A q \in Lits : q # p => ws[q] = watches[q]
  BY <1>1, <1>2, WithWatcherFacts
<1>4. /\ t \in Seq(WatcherRecords) /\ DOMAIN t = DOMAIN s
      /\ t[Len(a) + 1] = w /\ s[Len(a) + 1] = Head(todo)
      /\ \A n \in DOMAIN s : n # Len(a) + 1 => t[n] = s[n]
  <2>. HIDE DEF a, todo
  <2>. QED
    BY <1>1, VisitedPlace
<1>5. Tail(todo) \in Seq(WatcherRecords)
  BY <1>1
<1>. HIDE DEF ws
<1>6. Refs(t) = Refs(s) /\ NoRepeat(t)
  <2>1. NoRepeat(s)
    BY <1>1
  <2>. HIDE DEF t, s
  <2>2. \A n \in DOMAIN s : t[n].cref = s[n].cref
    BY <1>4
  <2>. QED
    BY <1>4, <2>1, <2>2, SameCrefs
<1>7. CASE pc' = "long"
  <2>1. watches' = ws /\ visiting' = [p |-> p, todo |-> Tail(todo)]
    BY <1>2, <1>7 DEF ws
  <2>2. visiting' \in [p : Lits \cup {Undef}, todo : WatcherSeqs]
    BY <1>1, <1>5, <2>1 DEF WatcherSeqs, WatcherRecords
  <2>3. \A l \in Lits : LongLists'[l] = IF p = l THEN ws[l] \o Tail(todo) ELSE ws[l]
    BY <1>7, <2>1, VisitedNext
  <2>4. LongLists'[p] = t /\ \A l \in Lits : l # p => LongLists'[l] = watches[l]
    BY <1>1, <1>3, <2>3
  <2>. QED
    BY <1>1, <1>3, <1>6, <2>1, <2>2, <2>4, VisitedSame
<1>8. CASE pc' # "long"
  <2>1. watches' = [ws EXCEPT ![p] = @ \o Tail(todo)] /\ visiting' = visiting
    BY <1>8 DEF ws
  <2>2. t \in WatcherSeqs
    BY <1>4 DEF WatcherSeqs, WatcherRecords
  <2>3. watches' = [ws EXCEPT ![p] = t]
    BY <1>1, <1>3, <2>1
  <2>. HIDE DEF t
  <2>4. watches' \in [Lits -> WatcherSeqs] /\ watches'[p] = t /\ \A q \in Lits : q # p => watches'[q] = watches[q]
    BY <1>1, <1>3, <2>2, <2>3
  <2>5. \A l \in Lits : LongLists'[l] = watches'[l]
    BY <1>8, <2>4, PlainNext
  <2>6. visiting' \in [p : Lits \cup {Undef}, todo : WatcherSeqs]
    BY <2>1 DEF IInv, WatchInv
  <2>. QED
    BY <1>1, <1>6, <2>4, <2>5, <2>6, VisitedSame
<1>. QED
  BY <1>7, <1>8

\* A clause that is satisfied by its blocker keeps its watcher.
LEMMA SkipSame ==
    ASSUME IInv, SkipClause
    PROVE  SameLists
<1>1. /\ pc = "long" /\ pc' = "long" /\ visiting.todo # <<>> /\ UNCHANGED <<watchesBin, dirty>>
      /\ watches' = WithWatcher(watches, visiting.p, Head(visiting.todo))
      /\ visiting' = [visiting EXCEPT !.todo = Tail(@)]
  BY DEF SkipClause
<1>2. Head(visiting.todo) \in WatcherRecords
  BY <1>1, VisitedNow
<1>. QED
  BY <1>1, <1>2, KeptSame

\* A clause that stays watched keeps its watcher, with another blocker.
LEMMA KeepSame ==
    ASSUME IInv, KeepWatch
    PROVE  SameLists
<1>. DEFINE ps == Turned(Head(visiting.todo).cref)
            w == Watcher(Head(visiting.todo).cref, ps[1])
<1>1. pc = "long" /\ visiting.todo # <<>> /\ UNCHANGED <<watchesBin, dirty>>
  BY DEF KeepWatch
<1>2. \/ /\ pc' = caller /\ UNCHANGED visiting
         /\ watches' = [WithWatcher(watches, visiting.p, w) EXCEPT ![visiting.p] = @ \o Tail(visiting.todo)]
      \/ /\ watches' = WithWatcher(watches, visiting.p, w)
         /\ visiting' = [visiting EXCEPT !.todo = Tail(@)] /\ UNCHANGED pc
  BY DEF KeepWatch
<1>3. caller # "long"
  BY DEF IInv, ControlInv
<1>4. w \in WatcherRecords /\ w.cref = Head(visiting.todo).cref
  <2>1. ps[1] \in NLits /\ Head(visiting.todo).cref \in CRefs
    BY <1>1, VisitedLong
  <2>. HIDE DEF ps
  <2>. QED
    BY <2>1 DEF Watcher, WatcherRecords, NLits
<1>. HIDE DEF w
<1>. QED
  BY <1>1, <1>2, <1>3, <1>4, KeptSame

-----------------------------------------------------------------------------
(***************************************************************************)
(* Watch lists: cleaning, attaching and moving watchers.                   *)
(***************************************************************************)

\* cleanAll cleans the lists that are due, and no list is due then.
LEMMA CleanAllFacts ==
    ASSUME WatchInv, cleanAll
    PROVE  dirty' = {} /\ watches' = Cleaned(watches) /\ watchesBin' = Cleaned(watchesBin)
<1>1. /\ watches = [l \in Lits |-> watches[l]] /\ watchesBin = [l \in Lits |-> watchesBin[l]]
  BY DEF WatchInv
<1>2. CASE dirty = {}
  <2>1. Cleaned(watches) = [l \in Lits |-> watches[l]] /\ Cleaned(watchesBin) = [l \in Lits |-> watchesBin[l]]
    BY <1>2 DEF Cleaned
  <2>. QED
    BY <1>1, <1>2, <2>1 DEF cleanAll
<1>3. CASE dirty # {}
  BY <1>3 DEF cleanAll
<1>. QED
  BY <1>2, <1>3

\* Cleaned lists are lists.
LEMMA CleanedType ==
    ASSUME NEW ws \in [Lits -> WatcherSeqs]
    PROVE  Cleaned(ws) \in [Lits -> WatcherSeqs]
<1>1. \A l \in Lits : Cleaned(ws)[l] \in WatcherSeqs
  BY CleanedFacts
<1>2. Cleaned(ws) = [l \in Lits |-> Cleaned(ws)[l]]
  BY DEF Cleaned
<1>. QED
  BY <1>1, <1>2

\* The clauses in the lists that have been cleaned are in memory still, and not marked.
LEMMA CleaningKeeps ==
    ASSUME IInv, cleanAll, ca' = ca \/ Collects, pc # "long", pc' # "long",
           visiting' \in [p : Lits \cup {Undef}, todo : WatcherSeqs], ClausesInv', UseInv',
           UNCHANGED <<clauses, learnts>>
    PROVE  WatchInv' /\ CoverInv'
<1>1. dirty' = {} /\ watches' = Cleaned(watches) /\ watchesBin' = Cleaned(watchesBin)
  BY CleanAllFacts DEF IInv
<1>2. TypesOK'
  BY <1>1, CleanedType DEF IInv, WatchInv, TypesOK
<1>3. \A l \in Lits : /\ LongLists'[l] = Cleaned(watches)[l] /\ LongLists[l] = watches[l]
                      /\ watches[l] \in WatcherSeqs /\ watchesBin[l] \in WatcherSeqs
  BY <1>1, <1>2, PlainNext, PlainNow DEF TypesOK, IInv, WatchInv
<1>4. ListsIn(ca, dirty, LongLists, watchesBin)
  BY WatchParts DEF IInv
<1>5. ASSUME NEW cr \in DOMAIN ca, cr \in DOMAIN ca' \/ ca' = ca  PROVE cr \in DOMAIN ca' /\ ca'[cr] = ca[cr]
  BY <1>5 DEF Collects
<1>6. ASSUME NEW cr \in DOMAIN ca, ca[cr].mark # 1  PROVE ca[cr].mark = 0
  <2>1. ca[cr] \in ClauseRecords
    BY DEF IInv, ClausesInv
  <2>. QED
    BY <1>6, <2>1 DEF ClauseRecords
<1>7. ASSUME NEW l \in Lits
      PROVE  /\ NoRepeat(LongLists'[l]) /\ NoRepeat(watchesBin'[l])
             /\ \A cr \in Refs(LongLists'[l]) : LongIn(ca', dirty', cr, l)
             /\ \A n \in DOMAIN watchesBin'[l] : BinIn(ca', dirty', watchesBin'[l][n], l)
  <2>. DEFINE ls == Cleaned(watches)[l]
              bs == Cleaned(watchesBin)[l]
  <2>1. /\ NoRepeat(watches[l]) /\ NoRepeat(watchesBin[l])
        /\ \A cr \in Refs(watches[l]) : LongIn(ca, dirty, cr, l)
        /\ \A n \in DOMAIN watchesBin[l] : BinIn(ca, dirty, watchesBin[l][n], l)
    BY <1>3, <1>4 DEF ListsIn
  <2>2. /\ \A n \in DOMAIN ls : \E m \in DOMAIN watches[l] :
              ls[n] = watches[l][m] /\ (l \in dirty => ca[ls[n].cref].mark # 1)
        /\ NoRepeat(ls)
    BY <2>1, CleanedFacts DEF IInv, WatchInv
  <2>3. /\ \A n \in DOMAIN bs : \E m \in DOMAIN watchesBin[l] :
              bs[n] = watchesBin[l][m] /\ (l \in dirty => ca[bs[n].cref].mark # 1)
        /\ NoRepeat(bs)
    BY <2>1, CleanedFacts DEF IInv, WatchInv
  <2>4. ASSUME NEW n \in DOMAIN ls  PROVE ls[n].cref \in DOMAIN ca' \/ ca' = ca
    BY <2>4 DEF Collects, Reloced, Watched, ToSet
  <2>5. ASSUME NEW n \in DOMAIN bs  PROVE bs[n].cref \in DOMAIN ca' \/ ca' = ca
    BY <2>5 DEF Collects, Reloced, Watched, ToSet
  <2>6. LongLists'[l] = ls /\ watchesBin'[l] = bs
    BY <1>1, <1>3
  <2>. HIDE DEF ls, bs
  <2>7. \A cr \in Refs(ls) : LongIn(ca', dirty', cr, l)
    <3>1. SUFFICES ASSUME NEW n \in DOMAIN ls  PROVE LongIn(ca', dirty', ls[n].cref, l)
      BY DEF Refs
    <3>2. PICK m \in DOMAIN watches[l] : ls[n] = watches[l][m] /\ (l \in dirty => ca[ls[n].cref].mark # 1)
      BY <2>2
    <3>3. LongIn(ca, dirty, ls[n].cref, l)
      BY <2>1, <3>2 DEF Refs
    <3>4. ls[n].cref \in DOMAIN ca /\ ca[ls[n].cref].mark = 0
      BY <1>6, <3>2, <3>3 DEF LongIn
    <3>5. ls[n].cref \in DOMAIN ca' /\ ca'[ls[n].cref] = ca[ls[n].cref]
      BY <1>5, <2>4, <3>4
    <3>. QED
      BY <3>3, <3>4, <3>5 DEF LongIn
  <2>8. \A n \in DOMAIN bs : BinIn(ca', dirty', bs[n], l)
    <3>1. SUFFICES ASSUME NEW n \in DOMAIN bs  PROVE BinIn(ca', dirty', bs[n], l)
      OBVIOUS
    <3>2. PICK m \in DOMAIN watchesBin[l] : bs[n] = watchesBin[l][m] /\ (l \in dirty => ca[bs[n].cref].mark # 1)
      BY <2>3
    <3>3. BinIn(ca, dirty, bs[n], l)
      BY <2>1, <3>2
    <3>4. bs[n].cref \in DOMAIN ca /\ ca[bs[n].cref].mark = 0
      BY <1>6, <3>2, <3>3 DEF BinIn
    <3>5. bs[n].cref \in DOMAIN ca' /\ ca'[bs[n].cref] = ca[bs[n].cref]
      BY <1>5, <2>5, <3>4
    <3>. QED
      BY <3>3, <3>4, <3>5 DEF BinIn
  <2>. QED
    BY <2>2, <2>3, <2>6, <2>7, <2>8
<1>8. WatchInv'
  BY <1>2, <1>7, NextWatchParts DEF ListsIn
<1>9. ASSUME NEW cr \in clauses' \cup learnts', NEW k \in {1, 2}
      PROVE  CoveredIn(ca', LongLists', watchesBin', cr, k)
  <2>1. cr \in clauses \cup learnts /\ cr \in DOMAIN ca /\ ca[cr].mark = 0
    BY DEF IInv, UseInv, InUse
  <2>2. cr \in DOMAIN ca' /\ ca'[cr] = ca[cr]
    <3>1. cr \in DOMAIN ca'
      BY DEF UseInv, InUse
    <3>. QED
      BY <1>5, <2>1, <3>1
  <2>. DEFINE l == -ca[cr].lits[k]
  <2>3. l \in Lits
    BY <2>1, ClauseFacts, LitsFacts DEF lits, IInv
  <2>4. CoveredIn(ca, LongLists, watchesBin, cr, k)
    BY <2>1, CoverParts DEF IInv, CoversIn
  <2>. HIDE DEF l
  <2>5. cr \in Refs(watches[l]) => cr \in Refs(Cleaned(watches)[l])
    <3>1. SUFFICES ASSUME NEW m \in DOMAIN watches[l], watches[l][m].cref = cr
                   PROVE  cr \in Refs(Cleaned(watches)[l])
      BY DEF Refs
    <3>2. \E n \in DOMAIN Cleaned(watches)[l] : Cleaned(watches)[l][n] = watches[l][m]
      BY <2>1, <2>3, <3>1, CleanedFacts DEF IInv, WatchInv
    <3>. QED
      BY <3>1, <3>2 DEF Refs
  <2>6. cr \in Refs(watchesBin[l]) => cr \in Refs(Cleaned(watchesBin)[l])
    <3>1. SUFFICES ASSUME NEW m \in DOMAIN watchesBin[l], watchesBin[l][m].cref = cr
                   PROVE  cr \in Refs(Cleaned(watchesBin)[l])
      BY DEF Refs
    <3>2. \E n \in DOMAIN Cleaned(watchesBin)[l] : Cleaned(watchesBin)[l][n] = watchesBin[l][m]
      BY <2>1, <2>3, <3>1, CleanedFacts DEF IInv, WatchInv
    <3>. QED
      BY <3>1, <3>2 DEF Refs
  <2>7. cr \in Refs(IF Len(ca[cr].lits) = 2 THEN watchesBin[l] ELSE watches[l])
    BY <1>3, <2>3, <2>4 DEF CoveredIn, l
  <2>8. cr \in Refs(IF Len(ca[cr].lits) = 2 THEN watchesBin'[l] ELSE LongLists'[l])
    BY <1>1, <1>3, <2>3, <2>5, <2>6, <2>7
  <2>. QED
    BY <2>2, <2>8 DEF CoveredIn, l
<1>. QED
  BY <1>8, <1>9, NextCoverParts DEF CoversIn

\* A watcher added to a list, as a set of clauses.
LEMMA AppendedFacts ==
    ASSUME NEW s \in Seq(WatcherRecords), NEW w \in WatcherRecords
    PROVE  LET t == Append(s, w) IN
           /\ t \in Seq(WatcherRecords) /\ Refs(t) = Refs(s) \cup {w.cref}
           /\ \A n \in DOMAIN t : (n \in DOMAIN s /\ t[n] = s[n]) \/ t[n] = w
           /\ NoRepeat(s) /\ w.cref \notin Refs(s) => NoRepeat(t)
<1>. DEFINE t == Append(s, w)
            N == Len(s)
<1>1. /\ N \in Nat /\ DOMAIN s = 1 .. N /\ t \in Seq(WatcherRecords) /\ DOMAIN t = 1 .. N + 1
      /\ \A n \in 1 .. N : t[n] = s[n]
      /\ t[N + 1] = w
  OBVIOUS
<1>. HIDE DEF t, N
<1>2. \A n \in DOMAIN t : (n \in DOMAIN s /\ t[n] = s[n]) \/ (n = N + 1 /\ t[n] = w)
  BY <1>1
<1>3. \A n \in DOMAIN s : n \in DOMAIN t /\ t[n] = s[n] /\ n # N + 1
  BY <1>1
<1>4. N + 1 \in DOMAIN t
  BY <1>1
<1>5. Refs(t) = Refs(s) \cup {w.cref}
  BY <1>1, <1>2, <1>3, <1>4 DEF Refs
<1>6. NoRepeat(s) /\ w.cref \notin Refs(s) => NoRepeat(t)
  <2>1. SUFFICES ASSUME NoRepeat(s), w.cref \notin Refs(s), NEW m \in DOMAIN t, NEW n \in DOMAIN t,
                        t[m].cref = t[n].cref
                 PROVE  m = n
    BY DEF NoRepeat
  <2>. QED
    BY <1>2, <2>1 DEF NoRepeat, Refs
<1>. QED
  BY <1>1, <1>2, <1>5, <1>6 DEF t

\* attachClause adds one watcher to the lists of the first two literals.
LEMMA AttachedFacts ==
    ASSUME NEW ws \in [Lits -> WatcherSeqs], NEW cr \in CRefs, NEW ps, ps[1] \in Lits, ps[2] \in Lits, ps[1] # ps[2]
    PROVE  LET us == Attached(ws, cr, ps) IN
           /\ us \in [Lits -> WatcherSeqs]
           /\ \A l \in Lits :
                /\ Refs(us[l]) = Refs(ws[l]) \cup (IF l \in {-ps[1], -ps[2]} THEN {cr} ELSE {})
                /\ NoRepeat(ws[l]) /\ cr \notin Refs(ws[l]) => NoRepeat(us[l])
                /\ \A n \in DOMAIN us[l] : \/ n \in DOMAIN ws[l] /\ us[l][n] = ws[l][n]
                                           \/ l = -ps[1] /\ us[l][n] = Watcher(cr, ps[2])
                                           \/ l = -ps[2] /\ us[l][n] = Watcher(cr, ps[1])
<1>. DEFINE p == -ps[1]
            q == -ps[2]
            v == Watcher(cr, ps[2])
            w == Watcher(cr, ps[1])
            vs == WithWatcher(ws, p, v)
            us == WithWatcher(vs, q, w)
<1>1. us = Attached(ws, cr, ps)
  BY DEF Attached
<1>2. p \in Lits /\ q \in Lits /\ p # q
  BY LitsFacts
<1>3. v \in WatcherRecords /\ w \in WatcherRecords /\ v.cref = cr /\ w.cref = cr
  BY DEF WatcherRecords, Watcher
<1>. HIDE DEF p, q, v, w, vs, us
<1>4. vs \in [Lits -> WatcherSeqs] /\ vs[p] = Append(ws[p], v) /\ \A l \in Lits : l # p => vs[l] = ws[l]
  BY <1>2, <1>3, WithWatcherFacts DEF vs
<1>5. us \in [Lits -> WatcherSeqs] /\ us[q] = Append(vs[q], w) /\ \A l \in Lits : l # q => us[l] = vs[l]
  BY <1>2, <1>3, <1>4, WithWatcherFacts DEF us
<1>6. \A l \in Lits : us[l] = IF l = p THEN Append(ws[l], v) ELSE IF l = q THEN Append(ws[l], w) ELSE ws[l]
  BY <1>2, <1>4, <1>5
<1>7. ASSUME NEW l \in Lits
      PROVE  /\ Refs(us[l]) = Refs(ws[l]) \cup (IF l \in {p, q} THEN {cr} ELSE {})
             /\ NoRepeat(ws[l]) /\ cr \notin Refs(ws[l]) => NoRepeat(us[l])
             /\ \A n \in DOMAIN us[l] : \/ n \in DOMAIN ws[l] /\ us[l][n] = ws[l][n]
                                        \/ l = p /\ us[l][n] = v
                                        \/ l = q /\ us[l][n] = w
  <2>1. ws[l] \in Seq(WatcherRecords)
    BY DEF WatcherSeqs, WatcherRecords
  <2>2. CASE l = p
    <3>1. us[l] = Append(ws[l], v)
      BY <1>6, <2>2
    <3>. QED
      BY <1>3, <2>1, <2>2, <3>1, AppendedFacts
  <2>3. CASE l = q
    <3>1. us[l] = Append(ws[l], w)
      BY <1>2, <1>6, <2>3
    <3>. QED
      BY <1>3, <2>1, <2>3, <3>1, AppendedFacts
  <2>4. CASE l # p /\ l # q
    BY <1>6, <2>4
  <2>. QED
    BY <2>2, <2>3, <2>4
<1>. QED
  BY <1>1, <1>5, <1>7 DEF p, q, v, w

\* A new clause is in no list, and goes to those of its first two literals.
LEMMA AttachKeeps ==
    ASSUME IInv, NEW cr, NEW ps, NEW learnt, NEW lbd, Allocates(cr, ps, learnt, lbd),
           pc # "long", pc' # "long", UNCHANGED <<visiting, dirty>>, ClausesInv', UseInv',
           clauses' \cup learnts' \subseteq clauses \cup learnts \cup {cr}
    PROVE  WatchInv' /\ CoverInv'
<1>1. /\ DOMAIN ca' = DOMAIN ca \cup {cr} /\ cr \notin DOMAIN ca
      /\ \A c \in DOMAIN ca : ca'[c] = ca[c]
      /\ ca'[cr].lits = ps /\ ca'[cr].mark = 0
  BY AllocFacts
<1>2. cr \in CRefs /\ GoodClause(ps) /\ attachClause(cr, ps)
  BY DEF Allocates
<1>. DEFINE N == Len(ps)
<1>3. /\ ps \in Seq(Lits) /\ N \in Nat /\ N >= 2 /\ ps[1] \in Lits /\ ps[2] \in Lits /\ ps[1] # ps[2]
      /\ DOMAIN ps = 1 .. N
  <2>1. ps \in Seq(Lits) /\ N >= 2 /\ \A k, m \in DOMAIN ps : ps[k] = ps[m] => k = m
    BY <1>2 DEF GoodClause
  <2>2. N \in Nat /\ DOMAIN ps = 1 .. N
    BY <2>1
  <2>3. 1 \in DOMAIN ps /\ 2 \in DOMAIN ps
    <3>. HIDE DEF N
    <3>. QED
      BY <2>1, <2>2
  <2>. QED
    BY <2>1, <2>2, <2>3
<1>4. -(-ps[1]) = ps[1] /\ -(-ps[2]) = ps[2]
  BY <1>3, LitsFacts
<1>5. /\ ListsIn(ca, dirty, LongLists, watchesBin)
      /\ CoversIn(ca, LongLists, watchesBin, clauses \cup learnts)
      /\ watches \in [Lits -> WatcherSeqs] /\ watchesBin \in [Lits -> WatcherSeqs]
      /\ \A l \in Lits : LongLists[l] = watches[l]
  BY WatchParts, CoverParts, PlainNow DEF IInv, WatchInv
<1>6. ASSUME NEW l \in Lits
      PROVE  /\ \A c : LongIn(ca, dirty, c, l) => LongIn(ca', dirty', c, l) /\ c # cr
             /\ \A w : BinIn(ca, dirty, w, l) => BinIn(ca', dirty', w, l) /\ w.cref # cr
  BY <1>1 DEF LongIn, BinIn
<1>7. \A l \in Lits : cr \notin Refs(watches[l]) /\ cr \notin Refs(watchesBin[l])
  <2>1. TAKE l \in Lits
  <2>2. cr \notin Refs(watches[l])
    BY <1>5, <1>6 DEF ListsIn
  <2>3. cr \notin Refs(watchesBin[l])
    BY <1>5, <1>6 DEF ListsIn, Refs
  <2>. QED
    BY <2>2, <2>3
<1>20. /\ watches \in [Lits -> WatcherSeqs] /\ watchesBin \in [Lits -> WatcherSeqs] /\ cr \in CRefs
      /\ ps[1] \in Lits /\ ps[2] \in Lits /\ ps[1] # ps[2]
  BY <1>2, <1>3, <1>5
<1>. DEFINE long == Attached(watches, cr, ps)
            bin == Attached(watchesBin, cr, ps)
<1>8. /\ long \in [Lits -> WatcherSeqs]
      /\ \A l \in Lits :
                /\ Refs(long[l]) = Refs(watches[l]) \cup (IF l \in {-ps[1], -ps[2]} THEN {cr} ELSE {})
                /\ NoRepeat(watches[l]) /\ cr \notin Refs(watches[l]) => NoRepeat(long[l])
  BY <1>20, AttachedFacts
<1>9. /\ bin \in [Lits -> WatcherSeqs]
      /\ \A l \in Lits :
                /\ Refs(bin[l]) = Refs(watchesBin[l]) \cup (IF l \in {-ps[1], -ps[2]} THEN {cr} ELSE {})
                /\ NoRepeat(watchesBin[l]) /\ cr \notin Refs(watchesBin[l]) => NoRepeat(bin[l])
                /\ \A n \in DOMAIN bin[l] : \/ n \in DOMAIN watchesBin[l] /\ bin[l][n] = watchesBin[l][n]
                                            \/ l = -ps[1] /\ bin[l][n] = Watcher(cr, ps[2])
                                            \/ l = -ps[2] /\ bin[l][n] = Watcher(cr, ps[1])
  <2>1. /\ bin \in [Lits -> WatcherSeqs]
        /\ \A l \in Lits :
                /\ Refs(bin[l]) = Refs(watchesBin[l]) \cup (IF l \in {-ps[1], -ps[2]} THEN {cr} ELSE {})
                /\ NoRepeat(watchesBin[l]) /\ cr \notin Refs(watchesBin[l]) => NoRepeat(bin[l])
    BY <1>20, AttachedFacts
  <2>2. \A l \in Lits : \A n \in DOMAIN bin[l] :
            \/ n \in DOMAIN watchesBin[l] /\ bin[l][n] = watchesBin[l][n]
            \/ l = -ps[1] /\ bin[l][n] = Watcher(cr, ps[2])
            \/ l = -ps[2] /\ bin[l][n] = Watcher(cr, ps[1])
    BY <1>20, AttachedFacts
  <2>. HIDE DEF bin
  <2>. QED
    BY <2>1, <2>2
<1>10. \/ N = 2 /\ watchesBin' = bin /\ watches' = watches
       \/ N > 2 /\ watches' = long /\ watchesBin' = watchesBin
  BY <1>2, <1>3 DEF attachClause
<1>. HIDE DEF long, bin, N
<1>11. TypesOK'
  BY <1>5, <1>8, <1>9, <1>10 DEF IInv, WatchInv, TypesOK
<1>12. \A l \in Lits : LongLists'[l] = watches'[l]
  BY <1>11, PlainNext DEF TypesOK
<1>13. ASSUME NEW l \in Lits
       PROVE  /\ NoRepeat(LongLists'[l])
              /\ \A c \in Refs(LongLists'[l]) : LongIn(ca', dirty', c, l)
  <2>1. NoRepeat(watches[l]) /\ \A c \in Refs(watches[l]) : LongIn(ca, dirty, c, l)
    BY <1>5 DEF ListsIn
  <2>2. CASE watches' = watches
    BY <1>6, <1>12, <2>1, <2>2
  <2>3. CASE N > 2 /\ watches' = long
    <3>1. l \in {-ps[1], -ps[2]} => LongIn(ca', dirty', cr, l)
      BY <1>1, <1>4, <2>3 DEF LongIn, N
    <3>. QED
      BY <1>6, <1>7, <1>8, <1>12, <2>1, <2>3, <3>1
  <2>. QED
    BY <1>10, <2>2, <2>3
<1>14. ASSUME NEW l \in Lits
       PROVE  /\ NoRepeat(watchesBin'[l])
              /\ \A n \in DOMAIN watchesBin'[l] : BinIn(ca', dirty', watchesBin'[l][n], l)
  <2>1. NoRepeat(watchesBin[l]) /\ \A n \in DOMAIN watchesBin[l] : BinIn(ca, dirty, watchesBin[l][n], l)
    BY <1>5 DEF ListsIn
  <2>2. CASE watchesBin' = watchesBin
    BY <1>6, <2>1, <2>2
  <2>3. CASE N = 2 /\ watchesBin' = bin
    <3>1. ps = <<ps[1], ps[2]>>
      BY <1>3, <2>3 DEF N
    <3>2. ASSUME l = -ps[1]  PROVE BinIn(ca', dirty', Watcher(cr, ps[2]), l)
      <4>1. -l = ps[1] /\ Watcher(cr, ps[2]).cref = cr /\ Watcher(cr, ps[2]).blocker = ps[2]
        BY <1>4, <3>2 DEF Watcher
      <4>. QED
        BY <1>1, <3>1, <4>1 DEF BinIn
    <3>3. ASSUME l = -ps[2]  PROVE BinIn(ca', dirty', Watcher(cr, ps[1]), l)
      <4>1. -l = ps[2] /\ Watcher(cr, ps[1]).cref = cr /\ Watcher(cr, ps[1]).blocker = ps[1]
        BY <1>4, <3>3 DEF Watcher
      <4>. QED
        BY <1>1, <3>1, <4>1 DEF BinIn
    <3>. QED
      BY <1>6, <1>7, <1>9, <2>1, <2>3, <3>2, <3>3
  <2>. QED
    BY <1>10, <2>2, <2>3
<1>15. WatchInv'
  BY <1>11, <1>13, <1>14, NextWatchParts DEF ListsIn
<1>16. ASSUME NEW c \in clauses' \cup learnts', NEW k \in {1, 2}
       PROVE  CoveredIn(ca', LongLists', watchesBin', c, k)
  <2>1. CASE c = cr
    <3>. DEFINE l == -ps[k]
    <3>1. l \in Lits /\ l \in {-ps[1], -ps[2]}
      BY <1>3, LitsFacts
    <3>. HIDE DEF l
    <3>2. CASE N = 2 /\ watchesBin' = bin
      BY <1>1, <1>9, <2>1, <3>1, <3>2 DEF CoveredIn, l, N
    <3>3. CASE N > 2 /\ watches' = long
      BY <1>1, <1>8, <1>12, <2>1, <3>1, <3>3 DEF CoveredIn, l, N
    <3>. QED
      BY <1>10, <3>2, <3>3
  <2>2. CASE c # cr
    <3>1. c \in clauses \cup learnts /\ c \in DOMAIN ca /\ ca'[c] = ca[c]
      BY <1>1, <2>2 DEF IInv, UseInv, InUse
    <3>. DEFINE l == -ca[c].lits[k]
    <3>2. l \in Lits
      BY <3>1, ClauseFacts, LitsFacts DEF lits, IInv
    <3>3. CoveredIn(ca, LongLists, watchesBin, c, k)
      BY <1>5, <3>1 DEF CoversIn
    <3>4. c \in Refs(IF Len(ca[c].lits) = 2 THEN watchesBin[l] ELSE watches[l])
      BY <1>5, <3>2, <3>3 DEF CoveredIn
    <3>. HIDE DEF l
    <3>5. Refs(watchesBin[l]) \subseteq Refs(watchesBin'[l]) /\ Refs(watches[l]) \subseteq Refs(LongLists'[l])
      BY <1>8, <1>9, <1>10, <1>12, <3>2
    <3>6. c \in Refs(IF Len(ca[c].lits) = 2 THEN watchesBin'[l] ELSE LongLists'[l])
      BY <3>4, <3>5
    <3>. QED
      BY <3>1, <3>6 DEF CoveredIn, l
  <2>. QED
    BY <2>1, <2>2
<1>. QED
  BY <1>15, <1>16, NextCoverParts DEF CoversIn

\* A watcher that moves leaves one list and joins another that had none for its
\* clause, so the clause still has one in each of two.
LEMMA MoveKeeps ==
    ASSUME IInv, MoveWatch, ClausesInv', UseInv'
    PROVE  WatchInv' /\ CoverInv'
<1>. DEFINE v == Head(visiting.todo)
            d == v.cref
            ps == Turned(d)
            p == visiting.p
            a == watches[p]
            todo == visiting.todo
            x == ps[1]
<1>1. /\ pc = "long" /\ pc' = "long" /\ todo # <<>>
      /\ UNCHANGED <<watchesBin, dirty, clauses, learnts>>
      /\ visiting' = [visiting EXCEPT !.todo = Tail(@)]
  BY DEF MoveWatch, UnchangedByPropagate
<1>a. PICK c : \E k \in 3 .. Len(ps) :
                /\ Rewrites(d, c) /\ ca[d].mark = 0 /\ Len(lits(d)) > 2 /\ c.lits = Swapped(ps, 2, k)
                /\ c.lits[1] = ps[1] /\ c.lits[2] = ps[k] /\ ps[2] = -visiting.p
                /\ {ps[1], ps[2]} = {lits(d)[1], lits(d)[2]}
                /\ ps[k] # ps[1] /\ ps[k] # ps[2] /\ ps[k] \in Lits /\ ps[1] \in Lits /\ ~ isFalse(ps[k])
                /\ watches' = WithWatcher(watches, -ps[k], Watcher(d, ps[1]))
  BY MoveRewrites
<1>2. PICK k \in 3 .. Len(ps) :
                /\ Rewrites(d, c) /\ ca[d].mark = 0 /\ Len(lits(d)) > 2 /\ c.lits = Swapped(ps, 2, k)
                /\ c.lits[1] = ps[1] /\ c.lits[2] = ps[k] /\ ps[2] = -visiting.p
                /\ {ps[1], ps[2]} = {lits(d)[1], lits(d)[2]}
                /\ ps[k] # ps[1] /\ ps[k] # ps[2] /\ ps[k] \in Lits /\ ps[1] \in Lits /\ ~ isFalse(ps[k])
                /\ watches' = WithWatcher(watches, -ps[k], Watcher(d, ps[1]))
  BY <1>a
<1>. DEFINE y == ps[k]
            q == -y
            w == Watcher(d, x)
<1>3. /\ p \in Lits /\ a \in Seq(WatcherRecords) /\ todo \in Seq(WatcherRecords)
      /\ LongLists[p] = a \o todo /\ \A l \in Lits : NoRepeat(LongLists[l])
      /\ \A l \in Lits : l # p => LongLists[l] = watches[l]
  BY <1>1, VisitedNow
<1>4. /\ ListsIn(ca, dirty, LongLists, watchesBin)
      /\ CoversIn(ca, LongLists, watchesBin, clauses \cup learnts)
      /\ watches \in [Lits -> WatcherSeqs] /\ watchesBin \in [Lits -> WatcherSeqs]
      /\ visiting = [p |-> visiting.p, todo |-> visiting.todo]
  BY WatchParts, CoverParts, VisitingType DEF IInv, WatchInv
<1>5. /\ DOMAIN ca' = DOMAIN ca /\ d \in DOMAIN ca
      /\ \A cr \in DOMAIN ca : cr # d => ca'[cr] = ca[cr]
      /\ ca'[d] = c /\ c.mark = 0 /\ Len(c.lits) = Len(lits(d)) /\ d \in CRefs
  <2>1. DOMAIN ca' = DOMAIN ca /\ \A cr \in DOMAIN ca : cr # d => ca'[cr] = ca[cr]
    <3>1. ClausesInv /\ Rewrites(d, c)
      BY <1>2 DEF IInv
    <3>. QED
      BY <3>1, RewriteFacts
  <2>2. ca'[d] = c /\ d \in DOMAIN ca /\ c.mark = 0
    <3>1. ClausesInv /\ Rewrites(d, c)
      BY <1>2 DEF IInv
    <3>2. d \in DOMAIN ca /\ c.mark = ca[d].mark
      BY <3>1, RewriteFacts DEF Rewrites
    <3>3. ca'[d] = c
      BY <3>1, RewriteFacts
    <3>. QED
      BY <1>2, <3>2, <3>3
  <2>3. Len(c.lits) = Len(lits(d))
    BY <1>2 DEF Rewrites, Rearranged
  <2>4. d \in CRefs
    BY <2>2 DEF IInv, ClausesInv
  <2>. QED
    BY <2>1, <2>2, <2>3, <2>4
<1>6. /\ {lits(d)[1], lits(d)[2]} = {x, -p} /\ c.lits[1] = x /\ c.lits[2] = y
      /\ Len(ca[d].lits) > 2 /\ Len(ca[d].lits) # 2 /\ Len(c.lits) > 2 /\ Len(c.lits) # 2
      /\ x \in Lits /\ y \in Lits /\ x # y /\ y # -p /\ x # -p
      /\ watches' = WithWatcher(watches, q, w)
  <2>1. x # -p
    <3>1. ps[1] # ps[2] /\ ps[2] = -p
      BY <1>1, VisitedLong
    <3>. QED
      BY <3>1
  <2>2. Len(ca[d].lits) > 2 /\ Len(c.lits) = Len(ca[d].lits) /\ Len(ca[d].lits) \in Nat
    <3>1. Len(lits(d)) \in Nat
      BY <1>5, ClauseFacts DEF IInv
    <3>. QED
      BY <1>2, <1>5, <3>1 DEF lits
  <2>. DEFINE N == Len(ca[d].lits)
  <2>3. N # 2
    <3>1. N > 2 /\ N \in Nat
      BY <2>2
    <3>. HIDE DEF N
    <3>. QED
      BY <3>1
  <2>. QED
    BY <1>2, <2>1, <2>2, <2>3
<1>7. v \in WatcherRecords /\ Tail(todo) \in Seq(WatcherRecords)
  BY <1>1, <1>3
<1>8. visiting' = [p |-> p, todo |-> Tail(todo)]
  BY <1>1, <1>4
<1>9. w \in WatcherRecords /\ w.cref = d
  BY <1>5, <1>6 DEF WatcherRecords, Watcher
<1>10. v.cref = d /\ v = Head(todo)
  OBVIOUS
<1>. HIDE DEF x, y, d, ps, w, a, v, todo
<1>. DEFINE s == a \o todo
            t == a \o Tail(todo)
<1>12. Refs(t) = Refs(LongLists[p]) \ {d} /\ NoRepeat(t)
  <2>1. LongLists[p] = a \o todo /\ NoRepeat(a \o todo)
    BY <1>3
  <2>2. todo # <<>> /\ Head(todo).cref = d
    BY <1>1, <1>10
  <2>3. /\ Refs(a \o Tail(todo)) = Refs(a \o todo) \ {Head(todo).cref}
        /\ NoRepeat(a \o Tail(todo))
    BY <1>3, <2>1, <2>2, LeftPlace
  <2>. QED
    BY <2>1, <2>2, <2>3
<1>13. q \in Lits /\ q # p /\ -q = y /\ -(-p) = p /\ -x \in Lits /\ -x # p /\ -(-x) = x /\ -x # q
  <2>1. \A l \in Lits : -l \in Lits /\ -(-l) = l
    BY LitsFacts
  <2>2. q \in Lits /\ -q = y /\ -(-p) = p /\ -x \in Lits /\ -(-x) = x
    BY <1>3, <1>6, <2>1
  <2>3. q # p /\ -x # p /\ -x # q
    <3>1. q = p => y = -p
      BY <2>2
    <3>2. -x = p => x = -p
      BY <2>2
    <3>3. -x = q => x = y
      BY <2>2
    <3>. QED
      BY <1>6, <3>1, <3>2, <3>3
  <2>. QED
    BY <2>2, <2>3
<1>. HIDE DEF q
<1>14. /\ watches' \in [Lits -> WatcherSeqs] /\ watches'[q] = Append(watches[q], w)
       /\ \A l \in Lits : l # q => watches'[l] = watches[l]
  <2>1. watches \in [Lits -> WatcherSeqs] /\ q \in Lits /\ w \in WatcherRecords
    BY <1>4, <1>9, <1>13
  <2>2. watches' = WithWatcher(watches, q, w)
    BY <1>6
  <2>. HIDE DEF s, t
  <2>. QED
    BY <2>1, <2>2, WithWatcherFacts
<1>15. TypesOK'
  <2>1. visiting' \in [p : Lits \cup {Undef}, todo : WatcherSeqs]
    BY <1>3, <1>7, <1>8 DEF WatcherSeqs, WatcherRecords
  <2>2. TypesOK /\ watches' \in [Lits -> WatcherSeqs]
    BY <1>14, WatchParts DEF IInv
  <2>. QED
    BY <1>1, <2>1, <2>2 DEF TypesOK
<1>16. /\ LongLists'[p] = t /\ LongLists'[q] = Append(LongLists[q], w)
       /\ \A l \in Lits : l # q /\ l # p => LongLists'[l] = LongLists[l]
  <2>1. \A l \in Lits : LongLists'[l] = IF p = l THEN watches'[l] \o Tail(todo) ELSE watches'[l]
    <3>1. visiting'.p = p /\ visiting'.todo = Tail(todo)
      BY <1>8
    <3>. QED
      BY <1>1, <3>1, VisitedNext
  <2>2. watches'[p] = a
    BY <1>3, <1>13, <1>14 DEF a
  <2>. QED
    BY <1>3, <1>13, <1>14, <2>1, <2>2
<1>17. d \notin Refs(LongLists[q])
  <2>1. ASSUME LongIn(ca, dirty, d, q)  PROVE FALSE
    BY <1>6, <1>13, <2>1 DEF LongIn, lits
  <2>. QED
    BY <1>4, <1>13, <2>1 DEF ListsIn
<1>18. /\ Refs(LongLists'[q]) = Refs(LongLists[q]) \cup {d} /\ NoRepeat(LongLists'[q])
  <2>1. LongLists[q] \in Seq(WatcherRecords)
    BY <1>3, <1>4, <1>13 DEF WatcherSeqs, WatcherRecords
  <2>2. NoRepeat(LongLists[q])
    BY <1>3, <1>13
  <2>. QED
    BY <1>9, <1>16, <1>17, <2>1, <2>2, AppendedFacts
<1>19. ASSUME NEW l \in Lits, NEW cr, LongIn(ca, dirty, cr, l), cr # d \/ (l # p /\ l # q)
       PROVE  LongIn(ca', dirty', cr, l)
  <2>1. /\ cr \in DOMAIN ca /\ Len(ca[cr].lits) > 2 /\ -l \in {ca[cr].lits[1], ca[cr].lits[2]}
        /\ ca[cr].mark = 0 \/ l \in dirty
    BY <1>19 DEF LongIn
  <2>2. CASE cr # d
    BY <1>1, <1>5, <2>1, <2>2 DEF LongIn
  <2>3. CASE cr = d /\ l # p
    <3>1. -l \in {x, -p}
      BY <1>6, <2>1, <2>3 DEF lits
    <3>2. -l # -p
      BY <1>13, <2>3, LitsFacts
    <3>. QED
      BY <1>5, <1>6, <2>1, <2>3, <3>1, <3>2 DEF LongIn, lits
  <2>. QED
    BY <1>19, <2>2, <2>3
<1>20. LongIn(ca', dirty', d, q)
  BY <1>5, <1>6, <1>13 DEF LongIn
<1>21. ASSUME NEW l \in Lits, NEW b, BinIn(ca, dirty, b, l)  PROVE BinIn(ca', dirty', b, l)
  <2>1. b.cref \in DOMAIN ca /\ Len(ca[b.cref].lits) = 2
    BY <1>21 DEF BinIn
  <2>2. b.cref # d
    BY <1>6, <2>1
  <2>. QED
    BY <1>1, <1>5, <1>21, <2>1, <2>2 DEF BinIn
<1>. HIDE DEF t, s
<1>22. ASSUME NEW l \in Lits
       PROVE  NoRepeat(LongLists'[l]) /\ \A cr \in Refs(LongLists'[l]) : LongIn(ca', dirty', cr, l)
  <2>1. NoRepeat(LongLists[l]) /\ \A cr \in Refs(LongLists[l]) : LongIn(ca, dirty, cr, l)
    BY <1>4 DEF ListsIn
  <2>2. CASE l = p
    BY <1>12, <1>16, <1>19, <2>1, <2>2
  <2>3. CASE l = q
    BY <1>17, <1>18, <1>19, <1>20, <2>1, <2>3
  <2>4. CASE l # p /\ l # q
    BY <1>16, <1>19, <2>1, <2>4
  <2>. QED
    BY <2>2, <2>3, <2>4
<1>23. WatchInv'
  <2>1. ListsIn(ca', dirty', LongLists', watchesBin')
    BY <1>1, <1>4, <1>21, <1>22 DEF ListsIn
  <2>. QED
    BY <1>15, <2>1, NextWatchParts
<1>24. ASSUME NEW cr \in clauses' \cup learnts', NEW j \in {1, 2}
       PROVE  CoveredIn(ca', LongLists', watchesBin', cr, j)
  <2>1. cr \in clauses \cup learnts /\ cr \in DOMAIN ca
    BY <1>1 DEF IInv, UseInv, InUse
  <2>2. CASE cr # d
    <3>. DEFINE l == -ca[cr].lits[j]
    <3>1. ca'[cr] = ca[cr] /\ l \in Lits
      BY <1>5, <2>1, <2>2, ClauseFacts, LitsFacts DEF lits, IInv
    <3>2. CoveredIn(ca, LongLists, watchesBin, cr, j)
      BY <1>4, <2>1 DEF CoversIn
    <3>. HIDE DEF l
    <3>3. cr \in Refs(LongLists[l]) => cr \in Refs(LongLists'[l])
      BY <1>12, <1>16, <1>18, <2>2, <3>1
    <3>4. cr \in Refs(IF Len(ca[cr].lits) = 2 THEN watchesBin[l] ELSE LongLists[l])
      BY <3>2 DEF CoveredIn, l
    <3>5. cr \in Refs(IF Len(ca[cr].lits) = 2 THEN watchesBin'[l] ELSE LongLists'[l])
      BY <1>1, <3>3, <3>4
    <3>. QED
      BY <3>1, <3>5 DEF CoveredIn, l
  <2>3. CASE cr = d /\ j = 1
    <3>1. PICK i \in {1, 2} : ca[d].lits[i] = x
      BY <1>6 DEF lits
    <3>2. CoveredIn(ca, LongLists, watchesBin, d, i)
      BY <1>4, <2>1, <2>3 DEF CoversIn
    <3>3. d \in Refs(LongLists[-x])
      BY <1>6, <3>1, <3>2 DEF CoveredIn, lits
    <3>4. d \in Refs(LongLists'[-x])
      BY <1>13, <1>16, <3>3
    <3>. QED
      BY <1>5, <1>6, <2>3, <3>4 DEF CoveredIn
  <2>4. CASE cr = d /\ j = 2
    <3>1. d \in Refs(LongLists'[-y])
      BY <1>18 DEF q
    <3>. QED
      BY <1>5, <1>6, <2>4, <3>1 DEF CoveredIn
  <2>. QED
    BY <2>2, <2>3, <2>4
<1>. QED
  BY <1>23, <1>24, NextCoverParts DEF CoversIn

\* What leaves lists and visit alone.
LEMMA StillSame ==
    ASSUME WatchInv, UNCHANGED <<watches, watchesBin, visiting, pc, dirty>>
    PROVE  SameLists
<1>1. TypesOK'
  BY DEF WatchInv, TypesOK
<1>2. \A l \in Lits : LongLists'[l] = LongLists[l] /\ NoRepeat(LongLists[l])
  BY DEF LongLists, ListOf, Pending, WatchInv
<1>. QED
  BY <1>1, <1>2 DEF SameLists

\* The rest of a visit is a list again.
LEMMA StartTodo ==
    ASSUME WatchInv, visiting.todo # <<>>, visiting' = [visiting EXCEPT !.todo = Tail(@)]
    PROVE  visiting' \in [p : Lits \cup {Undef}, todo : WatcherSeqs]
<1>1. /\ visiting = [p |-> visiting.p, todo |-> visiting.todo]
      /\ visiting.p \in Lits \cup {Undef} /\ visiting.todo \in Seq(WatcherRecords)
  BY VisitingType DEF WatcherRecords
<1>2. Tail(visiting.todo) \in WatcherSeqs
  BY <1>1 DEF WatcherRecords, WatcherSeqs
<1>3. visiting' = [p |-> visiting.p, todo |-> Tail(visiting.todo)]
  BY <1>1
<1>. QED
  BY <1>1, <1>2, <1>3

\* Where the lists are neither visited nor changed.
Plain == /\ pc # "long" /\ pc' # "long" /\ UNCHANGED <<watches, watchesBin>>
         /\ dirty' \subseteq Lits /\ visiting' \in [p : Lits \cup {Undef}, todo : WatcherSeqs]
         /\ clauses' \cup learnts' \subseteq clauses \cup learnts

\* Steps outside a visit that leave the lists and the places of the watched
\* literals alone.
LEMMA PlainKeeps ==
    ASSUME IInv, ClausesInv', UseInv', Plain, KeepsPlaces
    PROVE  WatchInv' /\ CoverInv'
<1>1. SameLists
  BY PlainSame DEF Plain, IInv
<1>. QED
  BY <1>1, SameListsKeep DEF Plain, IInv

\* The calls that attach nothing keep the invariants of the lists,
LEMMA UserWatches ==
    ASSUME IInv, ClausesInv', UseInv', newVar \/ callSimplify \/ solve \/ interrupt \/ Added \/ Return \/ UNCHANGED svars
    PROVE  WatchInv' /\ CoverInv'
<1>1. UNCHANGED <<ca, clauses, learnts, watches, watchesBin, dirty, visiting>>
  BY DEF newVar, callSimplify, solve, interrupt, Added, Return, Returned, svars, database
<1>2. KeepsPlaces
  BY <1>1, SameKeepsPlaces
<1>3. CASE newVar \/ callSimplify \/ solve \/ Added \/ Return
  <2>1. pc # "long" /\ pc' # "long"
    BY <1>3 DEF newVar, callSimplify, solve, solve_, Added, Return, Returned, IInv, ControlInv
  <2>2. Plain
    BY <1>1, <2>1 DEF Plain, IInv, WatchInv
  <2>. QED
    BY <1>2, <2>2, PlainKeeps
<1>4. CASE interrupt \/ UNCHANGED svars
  <2>1. UNCHANGED pc
    BY <1>4 DEF interrupt, svars
  <2>2. SameLists
    BY <1>1, <2>1, StillSame DEF IInv
  <2>. QED
    BY <1>1, <1>2, <2>2, SameListsKeep DEF IInv
<1>. QED
  BY <1>3, <1>4

\* addClause keeps them,
LEMMA AddWatches ==
    ASSUME IInv, ClausesInv', UseInv', addClause
    PROVE  WatchInv' /\ CoverInv'
<1>1. pc = "idle" /\ UNCHANGED visiting /\ pc' \in {"idle", "propagate"}
  BY DEF addClause, addClauseThen, addClause_, UnchangedByAdd
<1>2. CASE UNCHANGED database
  <2>1. KeepsPlaces
    BY <1>2, SameKeepsPlaces DEF database
  <2>2. Plain
    BY <1>1, <1>2 DEF Plain, IInv, WatchInv, database
  <2>. QED
    BY <2>1, <2>2, PlainKeeps
<1>3. CASE \E ps : \E cr \in CRefs :
              /\ Allocates(cr, ps, FALSE, 0) /\ clauses' = clauses \cup {cr}
              /\ UNCHANGED <<learnts, dirty, trail>> /\ pc' = pc
  <2>a. PICK ps : \E cr \in CRefs :
           /\ Allocates(cr, ps, FALSE, 0) /\ clauses' = clauses \cup {cr}
           /\ UNCHANGED <<learnts, dirty, trail>> /\ pc' = pc
    BY <1>3
  <2>1. PICK cr \in CRefs :
           /\ Allocates(cr, ps, FALSE, 0) /\ clauses' = clauses \cup {cr}
           /\ UNCHANGED <<learnts, dirty, trail>> /\ pc' = pc
    BY <2>a
  <2>2. clauses' \cup learnts' \subseteq clauses \cup learnts \cup {cr} /\ UNCHANGED <<visiting, dirty>>
        /\ pc # "long" /\ pc' # "long"
    BY <1>1, <2>1
  <2>. QED
    BY <2>1, <2>2, AttachKeeps
<1>. QED
  BY <1>2, <1>3, AddAllocates

\* propagate keeps them,
LEMMA PropagateWatches ==
    ASSUME IInv, ClausesInv', UseInv', Propagate
    PROVE  WatchInv' /\ CoverInv'
<1>0. UNCHANGED <<clauses, learnts>> /\ caller # "long"
  BY DEF Propagate, Dequeue, Propagated, VisitBinary, StartLong, SkipClause, MoveWatch, KeepWatch, EndLong,
         UnchangedByPropagate, IInv, ControlInv
<1>1. CASE Dequeue
  <2>. DEFINE p == trail[qhead + 1].lit
  <2>1. /\ cleanAll /\ ca' = ca /\ pc = "propagate" /\ pc' = "binary" /\ qhead < Len(trail)
        /\ visiting' = [p |-> p, todo |-> watchesBin'[p]]
    BY <1>1 DEF Dequeue
  <2>2. qhead + 1 \in DOMAIN trail
    BY <2>1, TrailFacts DEF IInv, QueueInv
  <2>3. p \in Lits
    BY <2>2 DEF IInv, LevelsInv, NLits
  <2>4. watchesBin' \in [Lits -> WatcherSeqs]
    BY <2>1, CleanAllFacts, CleanedType DEF IInv, WatchInv
  <2>5. visiting' \in [p : Lits \cup {Undef}, todo : WatcherSeqs]
    BY <2>1, <2>3, <2>4
  <2>. QED
    BY <1>0, <2>1, <2>5, CleaningKeeps
<1>2. CASE Propagated
  <2>1. cleanAll /\ ca' = ca /\ pc = "propagate" /\ pc' = caller /\ UNCHANGED visiting
    BY <1>2 DEF Propagated
  <2>2. visiting' \in [p : Lits \cup {Undef}, todo : WatcherSeqs]
    BY <2>1 DEF IInv, WatchInv
  <2>. QED
    BY <1>0, <2>1, <2>2, CleaningKeeps
<1>3. CASE VisitBinary
  <2>1. /\ UNCHANGED <<ca, watches, watchesBin, dirty>> /\ visiting.todo # <<>>
        /\ visiting' = visiting \/ visiting' = [visiting EXCEPT !.todo = Tail(@)]
        /\ pc = "binary" /\ pc' \in {pc, caller}
    BY <1>3 DEF VisitBinary
  <2>2. visiting' \in [p : Lits \cup {Undef}, todo : WatcherSeqs]
    BY <2>1, StartTodo DEF IInv, WatchInv
  <2>3. KeepsPlaces
    BY <2>1, SameKeepsPlaces
  <2>4. Plain
    BY <1>0, <2>1, <2>2 DEF Plain, IInv, WatchInv
  <2>. QED
    BY <2>3, <2>4, PlainKeeps
<1>4. CASE StartLong \/ EndLong \/ SkipClause
  <2>1. UNCHANGED <<ca, dirty>>
    BY <1>4 DEF StartLong, EndLong, SkipClause
  <2>2. KeepsPlaces
    BY <2>1, SameKeepsPlaces
  <2>3. SameLists
    BY <1>4, StartSame, EndSame, SkipSame
  <2>. QED
    BY <1>0, <2>2, <2>3, SameListsKeep DEF IInv
<1>5. CASE KeepWatch
  <2>1. UNCHANGED dirty
    BY <1>5 DEF KeepWatch
  <2>2. KeepsPlaces
    BY <1>5, <2>1, KeepRewrites, RewriteKeepsPlaces DEF IInv
  <2>3. SameLists
    BY <1>5, KeepSame
  <2>. QED
    BY <1>0, <2>2, <2>3, SameListsKeep DEF IInv
<1>6. CASE MoveWatch
  BY <1>6, MoveKeeps
<1>. QED
  BY <1>1, <1>2, <1>3, <1>4, <1>5, <1>6 DEF Propagate

\* search keeps them,
LEMMA SearchWatches ==
    ASSUME IInv, ClausesInv', UseInv', Search
    PROVE  WatchInv' /\ CoverInv'
<1>. DEFINE Plainly == /\ pc # "long" /\ pc' # "long" /\ UNCHANGED <<watches, watchesBin, dirty, visiting>>
                       /\ UNCHANGED <<clauses, learnts>>
<1>0. ASSUME Plainly, KeepsPlaces  PROVE WatchInv' /\ CoverInv'
  <2>1. Plain
    BY <1>0 DEF Plain, IInv, WatchInv
  <2>. QED
    BY <1>0, <2>1, PlainKeeps
<1>1. CASE SearchConflict \/ Minimise \/ Shorten \/ Restart \/ NoConflict \/ SimplifyReturns
           \/ KeepLearnts \/ NothingToReduce
  <2>1. Plainly /\ UNCHANGED <<ca, dirty>>
    BY <1>1 DEF SearchConflict, Leave, Minimise, Shorten, Restart, NoConflict, SimplifyReturns, KeepLearnts,
                NothingToReduce, UnchangedByAnalyze, database, IInv, ControlInv
  <2>. QED
    BY <1>0, <2>1, SameKeepsPlaces
<1>2. CASE DummyLevel \/ Assume \/ AssumptionFails \/ AnalyzeFinal \/ FinalAnalyzed
              \/ PickBranchLit \/ ModelFound
  <2>1. Plainly /\ UNCHANGED <<ca, dirty>>
    BY <1>2 DEF DummyLevel, Assume, Decided, AssumptionFails, AnalyzeFinal, FinalAnalyzed, Leave,
                       PickBranchLit, ModelFound, UnchangedByDecide, database
  <2>. QED
    BY <1>0, <2>1, SameKeepsPlaces
<1>3. CASE Analyze
  <2>1. Plainly
    BY <1>3 DEF Analyze, UnchangedByAnalyze
  <2>2. PICK c : Rewrites(confl, c) /\ SameTwo(confl, c)
    BY <1>3, AnalyzeRewrites
  <2>3. KeepsPlaces
    BY <2>1, <2>2, RewriteKeepsPlaces DEF SameTwo, SameLong, IInv
  <2>. QED
    BY <1>0, <2>1, <2>3
<1>4. CASE litRedundant
  <2>1. Plainly
    BY <1>4 DEF litRedundant, UnchangedByAnalyze
  <2>2. KeepsPlaces
    BY <1>4, <2>1, RedundantRewrites, RewriteKeepsPlaces, SameKeepsPlaces DEF SameTwo, SameLong, IInv
  <2>. QED
    BY <1>0, <2>1, <2>2
<1>5. CASE Learn
  <2>1. pc # "long" /\ pc' # "long" /\ UNCHANGED visiting
    BY <1>5 DEF Learn
  <2>2. CASE UNCHANGED database
    <3>1. Plainly /\ UNCHANGED <<ca, dirty>>
      BY <2>1, <2>2 DEF database
    <3>. QED
      BY <1>0, <3>1, SameKeepsPlaces
  <2>3. CASE \E cr \in CRefs : /\ Allocates(cr, an.out, TRUE, an.lbd) /\ learnts' = learnts \cup {cr}
                               /\ UNCHANGED <<clauses, dirty>>
    <3>1. PICK cr \in CRefs : /\ Allocates(cr, an.out, TRUE, an.lbd) /\ learnts' = learnts \cup {cr}
                              /\ UNCHANGED <<clauses, dirty>>
      BY <2>3
    <3>2. clauses' \cup learnts' \subseteq clauses \cup learnts \cup {cr} /\ UNCHANGED <<visiting, dirty>>
      BY <2>1, <3>1
    <3>. QED
      BY <2>1, <3>1, <3>2, AttachKeeps
  <2>. QED
    BY <1>5, <2>2, <2>3, LearnAllocates
<1>6. CASE Simplify \/ reduceDB
  <2>1. /\ pc # "long" /\ pc' # "long" /\ UNCHANGED visiting
    BY <1>6 DEF Simplify, reduceDB
  <2>2. PICK rs : Marks(rs) /\ clauses' \cup learnts' \subseteq clauses \cup learnts
    BY <1>6, SimplifyMarks, ReduceMarks
  <2>3. dirty' \subseteq Lits
    <3>1. \A cr \in rs : cr \in DOMAIN ca
      BY <2>2 DEF Marks, IInv, UseInv, InUse
    <3>2. \A cr \in rs : -lits(cr)[1] \in Lits /\ -lits(cr)[2] \in Lits
      <4>1. TAKE cr \in rs
      <4>2. lits(cr)[1] \in Lits /\ lits(cr)[2] \in Lits
        BY <3>1, ClauseFacts DEF IInv, GoodClause, NLits
      <4>. QED
        BY <4>2, LitsFacts
    <3>. QED
      BY <2>2, <3>2 DEF Marks, Smudged, IInv, WatchInv
  <2>4. Plain
    BY <2>1, <2>2, <2>3 DEF Plain, Marks, IInv, WatchInv
  <2>. QED
    BY <2>2, <2>4, MarkKeepsPlaces, PlainKeeps
<1>. QED
  BY <1>1, <1>2, <1>3, <1>4, <1>5, <1>6 DEF Search

\* and garbage collection keeps them.
LEMMA GarbageWatches ==
    ASSUME IInv, ClausesInv', UseInv', CheckGarbage
    PROVE  WatchInv' /\ CoverInv'
<1>1. pc # "long" /\ pc' # "long" /\ UNCHANGED <<visiting, clauses, learnts>>
  BY DEF CheckGarbage, IInv, ControlInv
<1>2. visiting' \in [p : Lits \cup {Undef}, todo : WatcherSeqs]
  BY <1>1 DEF IInv, WatchInv
<1>3. CASE UNCHANGED <<ca, watches, watchesBin, dirty>>
  <2>1. Plain
    BY <1>1, <1>2, <1>3 DEF Plain, IInv, WatchInv
  <2>. QED
    BY <1>3, <2>1, PlainKeeps, SameKeepsPlaces
<1>4. CASE Collects
  <2>1. cleanAll
    BY <1>4 DEF Collects
  <2>. QED
    BY <1>1, <1>2, <1>4, <2>1, CleaningKeeps
<1>. QED
  BY <1>3, <1>4, GarbageCollects

\* Every step keeps the invariants of the watch lists.
LEMMA WatchStep ==
    ASSUME IInv, [Next]_svars
    PROVE  WatchInv' /\ CoverInv'
<1>1. ClausesInv' /\ UseInv'
  BY ClausesStep, UseStep DEF IInv
<1>. QED
  BY <1>1, UserWatches, AddWatches, PropagateWatches, SearchWatches, GarbageWatches DEF Next, Step, User

-----------------------------------------------------------------------------
(***************************************************************************)
(* What is being visited.                                                  *)
(***************************************************************************)

\* The literal that is visited stays at the current level.
LEMMA TopStays ==
    ASSUME IInv, pc \in {"binary", "long"}, UNCHANGED trail_lim, visiting'.p = visiting.p,
           UNCHANGED trail \/ \E l, from : Enqueues(l, from)
    PROVE  \E i \in DOMAIN trail' : trail'[i].lit = visiting'.p /\ trail'[i].level \in Top'
<1>1. PICK i \in DOMAIN trail : trail[i].lit = visiting.p /\ trail[i].level = decisionLevel
  BY VisitedTrue DEF TrueAt, Top
<1>2. i \in DOMAIN trail' /\ trail'[i] = trail[i]
  BY EnqueueFacts DEF IInv
<1>3. decisionLevel' = decisionLevel
  BY DEF decisionLevel
<1>. QED
  BY <1>1, <1>2, <1>3 DEF Top

\* Every step keeps what a visit relies on.
LEMMA VisitStep ==
    ASSUME IInv, [Next]_svars
    PROVE  VisitInv'
<1>. DEFINE Now == \E i \in DOMAIN trail' : trail'[i].lit = visiting'.p /\ trail'[i].level \in Top'
<1>0. VisitInv' <=>
         /\ pc' \in {"binary", "long"} => Now
         /\ pc' = "binary" => \A n \in DOMAIN visiting'.todo :
               \E m \in DOMAIN watchesBin'[visiting'.p] : watchesBin'[visiting'.p][m] = visiting'.todo[n]
  BY DEF VisitInv, TrueAt
<1>. HIDE DEF Now
<1>1. CASE pc' \notin {"binary", "long"}
  BY <1>0, <1>1
<1>2. CASE interrupt \/ UNCHANGED svars
  <2>1. UNCHANGED <<trail, trail_lim, pc, visiting, watchesBin>>
    BY <1>2 DEF interrupt, svars, assignment, database
  <2>2. pc \in {"binary", "long"} => Now
    BY <2>1, TopStays DEF Now
  <2>. QED
    BY <1>0, <2>1, <2>2 DEF IInv, VisitInv
<1>3. CASE Dequeue
  <2>1. /\ pc' = "binary" /\ UNCHANGED <<trail, trail_lim>> /\ qhead < Len(trail)
        /\ visiting' = [p |-> trail[qhead + 1].lit, todo |-> watchesBin'[trail[qhead + 1].lit]]
    BY <1>3 DEF Dequeue, UnchangedByPropagate
  <2>2. /\ qhead + 1 \in DOMAIN trail /\ qhead + 1 \in qhead + 1 .. Len(trail)
    <3>. DEFINE N == Len(trail)
    <3>1. qhead \in 0 .. N /\ qhead < N /\ N \in Nat /\ DOMAIN trail = 1 .. N
      BY <2>1, TrailFacts DEF IInv, QueueInv
    <3>. HIDE DEF N
    <3>2. qhead + 1 \in 1 .. N /\ qhead + 1 \in qhead + 1 .. N
      BY <3>1
    <3>. QED
      BY <3>1, <3>2 DEF N
  <2>3. trail[qhead + 1].level = decisionLevel
    BY <2>2 DEF IInv, QueueInv
  <2>4. Now
    BY <2>1, <2>2, <2>3 DEF Now, Top, decisionLevel
  <2>. QED
    BY <1>0, <2>1, <2>4
<1>4. CASE VisitBinary
  <2>1. /\ pc = "binary" /\ visiting.todo # <<>> /\ UNCHANGED <<trail_lim, watchesBin>>
        /\ UNCHANGED trail \/ \E l, from : uncheckedEnqueue(l, from)
        /\ visiting' = visiting \/ visiting' = [visiting EXCEPT !.todo = Tail(@)]
    BY <1>4 DEF VisitBinary, UnchangedByPropagate
  <2>2. UNCHANGED trail \/ \E l, from : Enqueues(l, from)
    BY <2>1 DEF Enqueues, uncheckedEnqueue, decisionLevel
  <2>3. /\ visiting = [p |-> visiting.p, todo |-> visiting.todo]
        /\ visiting.todo \in Seq([cref : CRefs, blocker : Lits])
    BY VisitingType DEF IInv
  <2>4. visiting'.p = visiting.p /\ (visiting'.todo = visiting.todo \/ visiting'.todo = Tail(visiting.todo))
    BY <2>1, <2>3
  <2>5. Now
    BY <2>1, <2>2, <2>4, TopStays DEF Now
  <2>6. \A n \in DOMAIN visiting'.todo : \E m \in DOMAIN visiting.todo : visiting'.todo[n] = visiting.todo[m]
    <3>1. CASE visiting'.todo = Tail(visiting.todo)
      BY <2>1, <2>3, <3>1, HeadTail
    <3>. QED
      BY <2>4, <3>1
  <2>7. \A n \in DOMAIN visiting'.todo :
           \E m \in DOMAIN watchesBin[visiting.p] : watchesBin[visiting.p][m] = visiting'.todo[n]
    BY <2>1, <2>6 DEF IInv, VisitInv
  <2>. QED
    BY <1>0, <2>1, <2>4, <2>5, <2>7
<1>5. CASE StartLong \/ SkipClause \/ MoveWatch \/ KeepWatch
  <2>1. pc \in {"binary", "long"} /\ UNCHANGED trail_lim
        /\ (visiting' = visiting \/ \E t : visiting' = [visiting EXCEPT !.todo = t])
        /\ (UNCHANGED trail \/ \E l, from : uncheckedEnqueue(l, from))
    BY <1>5 DEF StartLong, SkipClause, MoveWatch, KeepWatch, UnchangedByPropagate
  <2>2. UNCHANGED trail \/ \E l, from : Enqueues(l, from)
    BY <2>1 DEF Enqueues, uncheckedEnqueue, decisionLevel
  <2>3. visiting'.p = visiting.p
    BY <2>1, VisitingType DEF IInv
  <2>4. Now
    BY <2>1, <2>2, <2>3, TopStays DEF Now
  <2>5. pc' # "binary"
    BY <1>5 DEF StartLong, SkipClause, MoveWatch, KeepWatch, IInv, ControlInv
  <2>. QED
    BY <1>0, <2>4, <2>5
<1>6. CASE newVar \/ addClause \/ callSimplify \/ solve \/ Added \/ Return \/ CheckGarbage
  <2>1. pc' \notin {"binary", "long"}
    BY <1>6 DEF newVar, addClause, addClauseThen, addClause_, callSimplify, solve, solve_, Added, Return,
                Returned, CheckGarbage, IInv, ControlInv
  <2>. QED
    BY <1>1, <2>1
<1>7. CASE Propagated \/ EndLong
  <2>1. pc' \notin {"binary", "long"}
    BY <1>7 DEF Propagated, EndLong, IInv, ControlInv
  <2>. QED
    BY <1>1, <2>1
<1>8. CASE Search
  <2>1. pc' \notin {"binary", "long"}
    <3>1. CASE SearchConflict \/ Minimise \/ Shorten \/ Restart \/ NoConflict \/ SimplifyReturns
               \/ KeepLearnts \/ NothingToReduce \/ Analyze \/ litRedundant
      BY <3>1 DEF SearchConflict, Leave, Minimise, Shorten, Restart, NoConflict, SimplifyReturns, KeepLearnts,
                  NothingToReduce, Analyze, litRedundant, IInv, ControlInv
    <3>2. CASE Learn \/ Simplify \/ reduceDB \/ DummyLevel \/ Assume \/ AssumptionFails \/ AnalyzeFinal
               \/ FinalAnalyzed \/ PickBranchLit \/ ModelFound
      BY <3>2 DEF Learn, Simplify, reduceDB, DummyLevel, Assume, Decided, AssumptionFails, AnalyzeFinal,
                  FinalAnalyzed, Leave, PickBranchLit, ModelFound
    <3>. QED
      BY <1>8, <3>1, <3>2 DEF Search
  <2>. QED
    BY <1>1, <2>1
<1>. QED
  BY <1>2, <1>3, <1>4, <1>5, <1>6, <1>7, <1>8 DEF Next, Step, User, Propagate

-----------------------------------------------------------------------------
(***************************************************************************)
(* Reasons.                                                                *)
(***************************************************************************)

\* A clause that implies a literal above level 0.
LEMMA ReasonFacts ==
    ASSUME IInv, NEW i \in DOMAIN trail, trail[i].level > 0, trail[i].reason # CRef_Undef
    PROVE  LET cr == trail[i].reason IN
           /\ cr \in DOMAIN ca /\ ca[cr].mark = 0 /\ locked(cr) /\ Given(cr, i) /\ trail_lim # <<>>
           /\ Len(lits(cr)) > 2 => lits(cr)[1] = trail[i].lit /\ isTrue(lits(cr)[1])
<1>. DEFINE cr == trail[i].reason
            N == Len(lits(cr))
<1>1. Given(cr, i)
  BY DEF IInv, ReasonInv
<1>2. /\ cr \in DOMAIN ca /\ ca[cr].mark = 0
      /\ N > 2 => lits(cr)[1] = trail[i].lit
  BY <1>1 DEF Given
<1>3. PICK k \in DOMAIN lits(cr) : lits(cr)[k] = trail[i].lit
  BY <1>1 DEF Given
<1>4. N \in Nat /\ N >= 2 /\ DOMAIN lits(cr) = 1 .. N
  BY <1>2, ClauseFacts DEF IInv
<1>5. IsReason(cr, trail[i].lit) /\ isTrue(trail[i].lit)
  BY DEF IsReason, isTrue
<1>6. locked(cr)
  <2>1. CASE N > 2
    BY <1>2, <1>5, <2>1 DEF locked
  <2>2. CASE ~ N > 2
    <3>. HIDE DEF N, cr
    <3>1. N = 2 /\ (k = 1 \/ k = 2)
      BY <1>3, <1>4, <2>2
    <3>2. lits(cr)[1] = trail[i].lit \/ lits(cr)[2] = trail[i].lit
      BY <1>3, <3>1
    <3>3. Len(lits(cr)) = 2
      BY <3>1 DEF N
    <3>. QED
      BY <1>5, <3>2, <3>3 DEF locked
  <2>. QED
    BY <2>1, <2>2
<1>7. trail_lim # <<>>
  <2>1. SUFFICES ASSUME trail_lim = <<>>  PROVE FALSE
    OBVIOUS
  <2>2. decisionLevel = 0
    BY <2>1 DEF decisionLevel
  <2>3. trail[i].level \in 0 .. 0
    BY <2>2 DEF IInv, LevelsInv
  <2>. QED
    BY <2>3
<1>. QED
  BY <1>1, <1>2, <1>5, <1>6, <1>7

\* No step marks, frees or reorders the reason of a literal on the trail:
\* simplify takes reasons away, reduceDB spares locked clauses, and a visited
\* clause keeps its true first literal first.
LEMMA ReasonKept ==
    ASSUME IInv, [Next]_svars, NEW i \in DOMAIN trail, trail[i].level > 0, trail[i].reason # CRef_Undef
    PROVE  LET cr == trail[i].reason IN
           /\ cr \in DOMAIN ca' /\ ca'[cr].mark = 0 /\ Rearranged(ca'[cr].lits, lits(cr))
           /\ Len(lits(cr)) > 2 => ca'[cr].lits[1] = lits(cr)[1]
<1>. DEFINE cr == trail[i].reason
<1>1. /\ cr \in DOMAIN ca /\ ca[cr].mark = 0 /\ locked(cr) /\ trail_lim # <<>>
      /\ Len(lits(cr)) > 2 => lits(cr)[1] = trail[i].lit /\ isTrue(lits(cr)[1])
  BY ReasonFacts
<1>2. trail[i].reason = cr
  OBVIOUS
<1>. HIDE DEF cr
<1>3. ASSUME cr \in DOMAIN ca', ca'[cr] = ca[cr]
      PROVE  ca'[cr].mark = 0 /\ Rearranged(ca'[cr].lits, lits(cr)) /\ ca'[cr].lits[1] = lits(cr)[1]
  BY <1>1, <1>3, ClauseFacts, SameRearranges DEF lits, IInv
<1>4. CASE UNCHANGED ca
  BY <1>1, <1>3, <1>4 DEF cr
<1>5. CASE \E c, ps, learnt, lbd : Allocates(c, ps, learnt, lbd)
  BY <1>1, <1>3, <1>5, AllocFacts DEF cr
<1>6. ASSUME NEW d, NEW c, Rewrites(d, c), d = cr /\ Len(lits(cr)) > 2 => c.lits[1] = lits(cr)[1]
      PROVE  /\ cr \in DOMAIN ca' /\ ca'[cr].mark = 0 /\ Rearranged(ca'[cr].lits, lits(cr))
             /\ Len(lits(cr)) > 2 => ca'[cr].lits[1] = lits(cr)[1]
  <2>1. cr \in DOMAIN ca' /\ ca'[cr].mark = 0 /\ Rearranged(ca'[cr].lits, lits(cr))
    BY <1>1, <1>6, RewriteFacts DEF IInv
  <2>2. CASE cr = d
    <3>1. ca'[cr] = c
      BY <1>6, <2>2, RewriteFacts DEF IInv
    <3>. QED
      BY <1>6, <2>1, <2>2, <3>1
  <2>3. CASE cr # d
    <3>1. ca'[cr] = ca[cr]
      BY <1>1, <1>6, <2>3, RewriteFacts DEF IInv
    <3>. QED
      BY <2>1, <3>1 DEF lits
  <2>. QED
    BY <2>2, <2>3
<1>7. CASE \E d, c : Rewrites(d, c) /\ SameTwo(d, c)
  BY <1>6, <1>7 DEF SameTwo, cr
<1>8. CASE KeepWatch \/ MoveWatch
  <2>. DEFINE d == Head(visiting.todo).cref
  <2>1. pc = "long" /\ visiting.todo # <<>>
    BY <1>8 DEF KeepWatch, MoveWatch
  <2>2. d = cr /\ Len(lits(cr)) > 2 => Turned(d) = lits(cr)
    <3>1. SUFFICES ASSUME d = cr, Len(lits(cr)) > 2, lits(cr)[1] = -visiting.p  PROVE FALSE
      BY DEF Turned
    <3>2. isTrue(-visiting.p) /\ isTrue(visiting.p)
      BY <1>1, <2>1, <3>1, VisitedTrue
    <3>. QED
      BY <3>2, OneSign DEF isTrue, IInv
  <2>3. PICK c : Rewrites(d, c) /\ c.lits[1] = Turned(d)[1]
    BY <1>8, KeepRewrites, MoveRewrites
  <2>. HIDE DEF d
  <2>. QED
    BY <1>6, <2>2, <2>3 DEF cr
<1>9. CASE Simplify
  BY <1>1, <1>9 DEF Simplify, IInv, ControlInv
<1>10. CASE reduceDB
  <2>1. PICK rs : Marks(rs) /\ \A c \in rs : ~ locked(c)
    BY <1>10, ReduceMarks
  <2>2. cr \in DOMAIN ca' /\ ca'[cr].mark = 0 /\ ca'[cr].lits = lits(cr)
    BY <1>1, <2>1 DEF Marks
  <2>3. Rearranged(lits(cr), lits(cr))
    BY <1>1, ClauseFacts, SameRearranges DEF IInv
  <2>. QED
    BY <2>2, <2>3 DEF cr
<1>11. CASE Collects
  <2>1. cr \in Reasons
    BY <1>1, <1>2 DEF Reasons
  <2>2. cr \in DOMAIN ca' /\ ca'[cr] = ca[cr]
    BY <1>11, <2>1 DEF Collects, Reloced
  <2>. QED
    BY <1>3, <2>2 DEF cr
<1>. QED
  BY <1>4, <1>5, <1>7, <1>8, <1>9, <1>10, <1>11, CaKinds

\* Given, in terms of the clauses and the trail.
GivenIn(mem, tr, cr, i) ==
    /\ cr \in DOMAIN mem /\ mem[cr].mark = 0
    /\ \E k \in DOMAIN mem[cr].lits : mem[cr].lits[k] = tr[i].lit
    /\ Len(mem[cr].lits) > 2 => mem[cr].lits[1] = tr[i].lit
    /\ \A k \in DOMAIN mem[cr].lits : \/ mem[cr].lits[k] = tr[i].lit
                                     \/ \E j \in 1 .. i - 1 : tr[j].lit = -mem[cr].lits[k]

\* The clause implies the literal still, if the trail is kept so far.
LEMMA GivenKept ==
    ASSUME IInv, [Next]_svars, NEW i \in DOMAIN trail, trail[i].level > 0, trail[i].reason # CRef_Undef,
           i \in Nat, \A j \in 1 .. i : j \in DOMAIN trail' /\ trail'[j].lit = trail[j].lit
    PROVE  GivenIn(ca', trail', trail[i].reason, i)
<1>. DEFINE cr == trail[i].reason
            t == ca'[cr].lits
            s == lits(cr)
<1>1. /\ cr \in DOMAIN ca' /\ ca'[cr].mark = 0 /\ Rearranged(t, s)
      /\ Len(s) > 2 => t[1] = s[1]
  BY ReasonKept
<1>2. Given(cr, i)
  BY DEF IInv, ReasonInv
<1>3. trail'[i].lit = trail[i].lit /\ \A j \in 1 .. i - 1 : trail'[j].lit = trail[j].lit
  <2>1. i >= 1
    BY TrailFacts DEF IInv
  <2>. QED
    BY <2>1
<1>4. /\ \E k \in DOMAIN s : s[k] = trail[i].lit
      /\ Len(s) > 2 => s[1] = trail[i].lit
      /\ \A k \in DOMAIN s : \/ s[k] = trail[i].lit
                             \/ \E j \in 1 .. i - 1 : trail[j].lit = -s[k]
  BY <1>2 DEF Given
<1>. HIDE DEF s, t
<1>5. /\ Len(t) = Len(s)
      /\ \A k \in DOMAIN t : \E m \in DOMAIN s : t[k] = s[m]
      /\ \A m \in DOMAIN s : \E k \in DOMAIN t : t[k] = s[m]
  BY <1>1, RearrangedFacts
<1>6. /\ \E k \in DOMAIN t : t[k] = trail'[i].lit
      /\ Len(t) > 2 => t[1] = trail'[i].lit
      /\ \A k \in DOMAIN t : \/ t[k] = trail'[i].lit
                             \/ \E j \in 1 .. i - 1 : trail'[j].lit = -t[k]
  BY <1>1, <1>3, <1>4, <1>5
<1>. QED
  BY <1>1, <1>6 DEF GivenIn, t

\* The invariant of the reasons after a step, in terms of memory and trail.
LEMMA NextReasons ==
    ReasonInv' <=> \A i \in DOMAIN trail' :
                      trail'[i].level > 0 /\ trail'[i].reason # CRef_Undef => GivenIn(ca', trail', trail'[i].reason, i)
BY DEF ReasonInv, Given, GivenIn, lits

\* A literal that a clause forces is given by it, whatever was true before.
LEMMA ForcedGiven ==
    ASSUME NEW n \in Nat, NEW cr, cr \in DOMAIN ca', ca'[cr].mark = 0,
           \E k \in DOMAIN ca'[cr].lits : ca'[cr].lits[k] = trail'[n + 1].lit,
           Len(ca'[cr].lits) > 2 => ca'[cr].lits[1] = trail'[n + 1].lit,
           \A k \in DOMAIN ca'[cr].lits : \/ ca'[cr].lits[k] = trail'[n + 1].lit
                                         \/ \E j \in 1 .. n : trail'[j].lit = -ca'[cr].lits[k]
    PROVE  GivenIn(ca', trail', cr, n + 1)
<1>1. (n + 1) - 1 = n
  OBVIOUS
<1>. QED
  BY <1>1 DEF GivenIn

\* Every step keeps the reasons: a literal is true because the others of its
\* reason were false before it.
LEMMA ReasonStep ==
    ASSUME IInv, [Next]_svars
    PROVE  ReasonInv'
<1>. DEFINE Good(i) == trail'[i].level > 0 /\ trail'[i].reason # CRef_Undef => GivenIn(ca', trail', trail'[i].reason, i)
            N == Len(trail)
<1>0. OrderInv /\ LevelsInv /\ N \in Nat /\ DOMAIN trail = 1 .. N
  BY TrailFacts DEF IInv
<1>a. ASSUME NEW i \in DOMAIN trail, \A j \in 1 .. i : j \in DOMAIN trail' /\ trail'[j].lit = trail[j].lit,
             trail'[i].level = trail[i].level, trail'[i].reason \in {trail[i].reason, CRef_Undef}
      PROVE  Good(i)
  <2>1. i \in Nat
    BY <1>0
  <2>. QED
    BY <1>a, <2>1, GivenKept
<1>1. CASE UNCHANGED trail
  <2>1. \A i \in DOMAIN trail : Good(i)
    <3>1. TAKE i \in DOMAIN trail
    <3>2. \A j \in 1 .. i : j \in DOMAIN trail
      BY <1>0
    <3>. QED
      BY <1>1, <1>a, <3>2
  <2>. QED
    BY <1>1, <2>1, NextReasons
<1>2. CASE EnqueueStep
  <2>1. PICK l \in NLits, from \in CRefs \cup {CRef_Undef} :
           Enqueues(l, from) /\ (from = CRef_Undef \/ Forces(from, l))
    BY <1>2 DEF EnqueueStep
  <2>2. /\ DOMAIN trail' = 1 .. N + 1
        /\ \A i \in DOMAIN trail : i \in DOMAIN trail' /\ trail'[i] = trail[i]
        /\ trail'[N + 1].lit = l /\ trail'[N + 1].reason = from
    BY <1>0, <2>1, EnqueueFacts
  <2>. HIDE DEF N
  <2>3. ASSUME NEW i \in 1 .. N  PROVE Good(i)
    <3>1. \A j \in 1 .. i : j \in DOMAIN trail
      BY <1>0
    <3>. QED
      BY <1>0, <1>a, <2>2, <3>1
  <2>4. Good(N + 1)
    <3>1. CASE Forces(from, l)
      <4>. DEFINE ls == ca'[from].lits
      <4>1. /\ from \in DOMAIN ca' /\ ca'[from].mark = 0
            /\ \E k \in DOMAIN ls : ls[k] = l
            /\ Len(ls) > 2 => ls[1] = l
            /\ \A k \in DOMAIN ls : ls[k] = l \/ isTrue(-ls[k])
        BY <3>1 DEF Forces
      <4>2. \A k \in DOMAIN ls : ls[k] = l \/ \E j \in 1 .. N : trail'[j].lit = -ls[k]
        BY <1>0, <2>2, <4>1 DEF isTrue
      <4>. QED
        BY <1>0, <2>2, <4>1, <4>2, ForcedGiven
    <3>. QED
      BY <2>1, <2>2, <3>1
  <2>5. \A i \in DOMAIN trail' : Good(i)
    <3>1. \A i \in DOMAIN trail' : i \in 1 .. N \/ i = N + 1
      BY <1>0, <2>2
    <3>. HIDE DEF Good
    <3>. QED
      BY <2>3, <2>4, <3>1
  <2>. QED
    BY <2>5, NextReasons
<1>3. CASE LearnStep
  <2>. DEFINE ls == an.out
              S == Len(ls)
  <2>1. PICK lev \in Nat, from \in CRefs \cup {CRef_Undef} :
           /\ pc = "learn" /\ lev < decisionLevel /\ Learns(lev, ls[1], from)
           /\ \/ from = CRef_Undef
              \/ /\ from # CRef_Undef /\ Fresh(from) /\ ca' = alloc(from, ls, TRUE, an.lbd)
                 /\ S > 1 /\ lev = level(ls[2])
    BY <1>3 DEF LearnStep
  <2>. DEFINE n == LimitOf(lev)
  <2>2. /\ n \in 0 .. N /\ DOMAIN trail' = 1 .. n + 1
        /\ \A i \in 1 .. n : i \in DOMAIN trail /\ trail'[i] = trail[i]
        /\ trail'[n + 1].lit = ls[1] /\ trail'[n + 1].reason = from
    BY <1>0, <2>1, LearnsFacts
  <2>. HIDE DEF N, n
  <2>3. ASSUME NEW i \in 1 .. n  PROVE Good(i)
    <3>1. \A j \in 1 .. i : j \in 1 .. n /\ j \in DOMAIN trail'
      BY <1>0, <2>2
    <3>. QED
      BY <1>0, <1>a, <2>2, <3>1
  <2>4. ASSUME from # CRef_Undef  PROVE GivenIn(ca', trail', from, n + 1)
    <3>1. /\ from \in DOMAIN ca' /\ ca'[from].mark = 0 /\ ca'[from].lits = ls
      BY <2>1, <2>4 DEF alloc
    <3>2. /\ ls \in Seq(Lits) /\ OutGood(ls) /\ \A k \in 2 .. S : level(ls[k]) <= level(ls[2])
          /\ lev = level(ls[2]) /\ S > 1
      BY <2>1, <2>4 DEF IInv, MinimiseInv, ValuesInv, AnType
    <3>3. S \in Nat /\ DOMAIN ls = 1 .. S
      BY <3>2
    <3>. HIDE DEF S
    <3>4. 1 \in DOMAIN ls /\ \A k \in DOMAIN ls : k = 1 \/ k \in 2 .. S
      BY <3>2, <3>3
    <3>5. ASSUME NEW k \in 2 .. S  PROVE \E j \in 1 .. n : trail'[j].lit = -ls[k]
      <4>1. PICK j \in DOMAIN trail : trail[j].lit = -ls[k] /\ trail[j].level \in BelowTop
        BY <3>2 DEF OutGood, TrueAt, S
      <4>2. var(ls[k]) = var(trail[j].lit)
        BY <3>2, <3>3, <4>1, LitsFacts
      <4>3. level(ls[k]) = trail[j].level
        BY <1>0, <4>1, <4>2, PlaceOf
      <4>4. trail[j].level <= lev
        BY <3>2, <4>3
      <4>5. j <= n
        BY <1>0, <4>4, KeptLevels DEF n
      <4>6. j \in 1 .. n
        BY <1>0, <2>2, <4>5
      <4>. QED
        BY <2>2, <4>1, <4>6
    <3>6. n \in Nat
      BY <1>0, <2>2
    <3>. HIDE DEF ls
    <3>. QED
      BY <2>2, <3>1, <3>4, <3>5, <3>6, ForcedGiven
  <2>5. \A i \in DOMAIN trail' : Good(i)
    <3>1. \A i \in DOMAIN trail' : i \in 1 .. n \/ i = n + 1
      BY <1>0, <2>2
    <3>2. Good(n + 1)
      BY <2>2, <2>4
    <3>. HIDE DEF Good
    <3>. QED
      BY <2>3, <3>1, <3>2
  <2>. QED
    BY <2>5, NextReasons
<1>4. CASE TakeOffStep
  <2>1. TakesOff(0)
    BY <1>4 DEF TakeOffStep
  <2>2. DOMAIN trail' = 1 .. LimitOf(0) /\ \A i \in DOMAIN trail' : i \in DOMAIN trail /\ trail'[i] = trail[i]
    BY <1>0, <2>1, TakesOffFacts
  <2>3. \A i \in DOMAIN trail' : ~ trail'[i].level > 0
    <3>1. TAKE i \in DOMAIN trail'
    <3>2. i <= LimitOf(0)
      BY <2>2
    <3>3. trail[i].level <= 0 /\ trail[i].level \in 0 .. decisionLevel
      BY <1>0, <2>2, <3>2, KeptLevels DEF LevelsInv
    <3>. QED
      BY <2>2, <3>3
  <2>. QED
    BY <2>3, NextReasons
<1>5. CASE UnreasonStep
  <2>1. DOMAIN trail' = DOMAIN trail /\ \A i \in DOMAIN trail : trail'[i].level = trail[i].level
    BY <1>0, <1>5, UnreasonedFacts DEF UnreasonStep
  <2>2. \A i \in DOMAIN trail : ~ trail[i].level > 0
    BY <1>0, <1>5 DEF UnreasonStep, LevelsInv, decisionLevel
  <2>. QED
    BY <2>1, <2>2, NextReasons
<1>. QED
  BY <1>1, <1>2, <1>3, <1>4, <1>5, TrailSteps DEF Quiet, DummyStep
=============================================================================
