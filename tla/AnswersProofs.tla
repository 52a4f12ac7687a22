--------------------------- MODULE AnswersProofs ----------------------------
(***************************************************************************)
(* Solver answers what a SAT solver promises: propagation misses nothing,  *)
(* a model that is found satisfies every clause and every assumption, and  *)
(* a refusal names assumptions that the clauses exclude. Solver implements *)
(* SatOracle.                                                              *)
(***************************************************************************)
EXTENDS SoundnessProofs

-----------------------------------------------------------------------------
(***************************************************************************)
(* Control: a call goes on while no contradiction is known, and is pending *)
(* until it is answered.                                                   *)
(***************************************************************************)

\* A step keeps OkInv: a call that goes on has met no contradiction.
LEMMA OkStep ==
    ASSUME IInv, OkInv, [Next]_svars
    PROVE  OkInv'
<1>0. ControlInv /\ ok \in BOOLEAN
  BY DEF IInv, ValuesInv
<1>1. CASE UNCHANGED <<pc, ok, status>>
  BY <1>1 DEF OkInv
<1>2. CASE User
  <2>. USE DEF result, user, OkInv
  <2>1. CASE newVar \/ interrupt
    BY <2>1 DEF newVar, interrupt
  <2>2. CASE addClause
    <3>1. pc' = "idle" \/ (pc' = "propagate" /\ ok /\ ok' = ok)
      BY <2>2 DEF addClause, addClauseThen, addClause_
    <3>. QED
      BY <3>1
  <2>3. CASE callSimplify \/ solve
    <3>1. UNCHANGED ok /\ pc' \in {"idle", "propagate", "return"}
          /\ (pc' = "propagate" => ok) /\ (pc' = "return" => status' = "false")
      BY <2>3 DEF callSimplify, solve, solve_
    <3>. QED
      BY <3>1
  <2>. HIDE DEF result, user, OkInv
  <2>. QED
    BY <1>2, <2>1, <2>2, <2>3 DEF User
<1>3. CASE Propagate
  <2>1. UNCHANGED ok /\ Propagating
    BY <1>3 DEF Propagate, Dequeue, Propagated, VisitBinary, StartLong, SkipClause, MoveWatch, KeepWatch, EndLong,
                UnchangedByPropagate, user, Propagating
  <2>2. ok
    BY <2>1 DEF OkInv, Propagating
  <2>. QED
    BY <2>1, <2>2 DEF OkInv
<1>4. CASE Analyze \/ Minimise \/ litRedundant \/ Shorten \/ Learn \/ SearchConflict \/ NoConflict \/ Restart
  BY <1>4 DEF Analyze, Minimise, litRedundant, Shorten, UnchangedByAnalyze, Learn, SearchConflict, NoConflict,
              Restart, Leave, user, OkInv
<1>5. CASE SimplifyReturns \/ Simplify \/ KeepLearnts \/ NothingToReduce \/ reduceDB \/ CheckGarbage
  BY <1>0, <1>5 DEF SimplifyReturns, Simplify, KeepLearnts, NothingToReduce, reduceDB, CheckGarbage, Leave, user,
                    OkInv, ControlInv
<1>6. CASE DummyLevel \/ Assume \/ AssumptionFails \/ AnalyzeFinal \/ FinalAnalyzed \/ PickBranchLit \/ ModelFound
  BY <1>6 DEF DummyLevel, Assume, AssumptionFails, AnalyzeFinal, FinalAnalyzed, PickBranchLit, ModelFound, Decided,
              Leave, UnchangedByDecide, user, OkInv
<1>7. CASE Return
  BY <1>7 DEF Return, Returned, OkInv
<1>8. CASE Added
  BY <1>0, <1>8 DEF Added, OkInv, ControlInv
<1>9. CASE UNCHANGED svars
  BY <1>1, <1>9 DEF svars, user, result
<1>. QED
  BY <1>2, <1>3, <1>4, <1>5, <1>6, <1>7, <1>8, <1>9 DEF Next, Step, Search

\* A step keeps PendingInv: solve makes an answer pending, and only the return
\* of solve_ ends that.
LEMMA PendingStep ==
    ASSUME IInv, PendingInv, [Next]_svars
    PROVE  PendingInv'
<1>0. ControlInv
  BY DEF IInv
<1>1. CASE UNCHANGED <<pc, caller, after, answer, conflict>>
  BY <1>1 DEF PendingInv, Busy, Propagating
<1>2. CASE User
  <2>. USE DEF result, user, PendingInv, Busy, Propagating
  <2>1. CASE newVar \/ interrupt
    BY <1>1, <2>1 DEF newVar, interrupt
  <2>2. CASE addClause
    BY <2>2 DEF addClause, addClauseThen, addClause_, UnchangedByAdd
  <2>3. CASE callSimplify \/ solve
    BY <2>3 DEF callSimplify, solve, solve_
  <2>. HIDE DEF result, user, PendingInv, Busy, Propagating
  <2>. QED
    BY <1>2, <2>1, <2>2, <2>3 DEF User
<1>3. CASE Propagate
  <2>1. /\ UNCHANGED <<caller, after, answer, conflict>> /\ Propagating
        /\ pc' \in {"propagate", "binary", "long", caller}
    BY <1>3 DEF Propagate, Dequeue, Propagated, VisitBinary, StartLong, SkipClause, MoveWatch, KeepWatch, EndLong,
                UnchangedByPropagate, result, Propagating
  <2>. QED
    BY <1>0, <2>1 DEF PendingInv, Busy, Propagating, ControlInv
<1>4. CASE Analyze \/ Minimise \/ litRedundant \/ Shorten \/ Learn \/ SearchConflict \/ NoConflict \/ Restart
  <2>1. UNCHANGED <<answer, conflict>> /\ pc \in {"search", "analyze", "minimise", "redundant", "shorten", "learn"}
    BY <1>4 DEF Analyze, Minimise, litRedundant, Shorten, UnchangedByAnalyze, Learn, SearchConflict, NoConflict,
                Restart, result
  <2>2. \/ pc' \in {"analyze", "minimise", "redundant", "shorten", "learn", "reduce", "return"}
        \/ pc' = "propagate" /\ caller' = "search"
        \/ pc' = "propagate" /\ caller' = "simplify" /\ after' = "reduce"
    BY <1>0, <1>4 DEF Analyze, Minimise, litRedundant, Shorten, Learn, SearchConflict, NoConflict, Restart, Leave,
                ControlInv
  <2>. QED
    BY <2>1, <2>2 DEF PendingInv, Busy, Propagating
<1>5. CASE SimplifyReturns \/ Simplify \/ KeepLearnts \/ NothingToReduce \/ reduceDB \/ CheckGarbage
  BY <1>0, <1>5 DEF SimplifyReturns, Simplify, KeepLearnts, NothingToReduce, reduceDB, CheckGarbage, Leave, result,
                    PendingInv, Busy, Propagating, ControlInv
<1>6. CASE DummyLevel \/ Assume \/ AssumptionFails \/ AnalyzeFinal \/ FinalAnalyzed \/ PickBranchLit \/ ModelFound
  BY <1>6 DEF DummyLevel, Assume, AssumptionFails, AnalyzeFinal, FinalAnalyzed, PickBranchLit, ModelFound, Decided,
              Leave, UnchangedByDecide, result, PendingInv, Busy, Propagating
<1>7. CASE Return
  BY <1>7 DEF Return, Returned, Answered, PendingInv, Busy, Propagating
<1>8. CASE Added
  BY <1>0, <1>8 DEF Added, result, PendingInv, Busy, Propagating, ControlInv
<1>9. CASE UNCHANGED svars
  BY <1>1, <1>9 DEF svars, result
<1>. QED
  BY <1>2, <1>3, <1>4, <1>5, <1>6, <1>7, <1>8, <1>9 DEF Next, Step, Search

-----------------------------------------------------------------------------
(***************************************************************************)
(* Progress: the literal visited, and the blockers of watchers.            *)
(***************************************************************************)

\* What a clause keeps that stays in memory: its literals, in some order.
LEMMA SameLits ==
    ASSUME IInv, [Next]_svars, NEW cr \in DOMAIN ca, cr \in DOMAIN ca'
    PROVE  Rearranged(ca'[cr].lits, lits(cr)) /\ ToSet(ca'[cr].lits) = ToSet(lits(cr))
<1>0. ClausesInv
  BY DEF IInv
<1>1. lits(cr) \in Seq(Lits)
  BY <1>0, ClauseFacts
<1>2. Rearranged(lits(cr), lits(cr))
  BY <1>1, SameRearranges
<1>3. Rearranged(ca'[cr].lits, lits(cr))
  <2>1. CASE UNCHANGED ca
    BY <1>2, <2>1 DEF lits
  <2>2. CASE \E c, ps, learnt, lbd : Allocates(c, ps, learnt, lbd)
    <3>1. ca'[cr] = ca[cr]
      BY <2>2, AllocFacts
    <3>. QED
      BY <1>2, <3>1 DEF lits
  <2>3. CASE \E d, c : Rewrites(d, c)
    BY <1>0, <2>3, RewriteFacts
  <2>4. CASE \E rs : Marks(rs)
    BY <1>2, <2>4 DEF Marks
  <2>5. CASE Collects
    <3>1. ca'[cr] = ca[cr]
      BY <2>5 DEF Collects
    <3>. QED
      BY <1>2, <3>1 DEF lits
  <2>. QED
    BY <2>1, <2>2, <2>3, <2>4, <2>5, CaSteps
<1>. QED
  BY <1>3, RearrangedFacts

\* Only propagate visits lists of watchers.
LEMMA VisitsEnd ==
    ASSUME IInv, Propagated \/ Search \/ CheckGarbage \/ Return \/ Added
    PROVE  pc' \notin {"binary", "long"}
<1>1. CASE Propagated \/ CheckGarbage \/ Return \/ Added
  BY <1>1 DEF Propagated, CheckGarbage, Return, Returned, Added, IInv, ControlInv
<1>2. CASE SearchConflict \/ Analyze \/ Minimise \/ litRedundant \/ Shorten \/ Learn
  BY <1>2 DEF SearchConflict, Analyze, Minimise, litRedundant, Shorten, Learn, Leave
<1>3. CASE Restart \/ NoConflict \/ SimplifyReturns \/ Simplify \/ KeepLearnts \/ NothingToReduce \/ reduceDB
  BY <1>3 DEF Restart, NoConflict, SimplifyReturns, Simplify, KeepLearnts, NothingToReduce, reduceDB, Leave,
              IInv, ControlInv
<1>4. CASE DummyLevel \/ Assume \/ AssumptionFails \/ AnalyzeFinal \/ FinalAnalyzed \/ PickBranchLit \/ ModelFound
  BY <1>4 DEF DummyLevel, Assume, AssumptionFails, AnalyzeFinal, FinalAnalyzed, PickBranchLit, ModelFound,
              Decided, Leave
<1>. QED
  BY <1>1, <1>2, <1>3, <1>4 DEF Search

\* The visit goes on: what is left to visit, and at which literal.
LEMMA HeadStep ==
    ASSUME IInv, HeadInv, [Next]_svars
    PROVE  HeadInv'
<1>0. OrderInv /\ QueueInv /\ WatchInv
  BY DEF IInv
<1>1. Len(trail) \in Nat /\ DOMAIN trail = 1 .. Len(trail) /\ qhead \in 0 .. Len(trail)
  BY <1>0, TrailFacts DEF QueueInv
<1>2. CASE UNCHANGED <<pc, trail, qhead>> /\ visiting'.p = visiting.p
  BY <1>2 DEF HeadInv
<1>3. CASE pc' \notin {"binary", "long"}
  BY <1>3 DEF HeadInv
<1>4. visiting = [p |-> visiting.p, todo |-> visiting.todo]
  BY <1>0, VisitingType
<1>5. CASE Dequeue
  <2>1. qhead < Len(trail) /\ qhead' = qhead + 1 /\ UNCHANGED trail /\ visiting'.p = trail[qhead + 1].lit
    BY <1>5 DEF Dequeue
  <2>. QED
    BY <1>1, <2>1 DEF HeadInv
<1>6. CASE VisitBinary \/ StartLong \/ SkipClause \/ MoveWatch \/ EndLong \/ KeepWatch
  <2>1. \/ pc' \notin {"binary", "long"}
        \/ qhead' = qhead /\ visiting'.p = visiting.p
    <3>1. CASE KeepWatch
      <4>1. \/ pc' = caller
            \/ qhead' = qhead /\ visiting' = [visiting EXCEPT !.todo = Tail(@)]
        BY <3>1 DEF KeepWatch
      <4>. QED
        BY <1>4, <4>1 DEF IInv, ControlInv
    <3>2. CASE VisitBinary \/ StartLong \/ SkipClause \/ MoveWatch \/ EndLong
      BY <1>4, <3>2 DEF VisitBinary, StartLong, SkipClause, MoveWatch, EndLong
    <3>. QED
      BY <1>6, <3>1, <3>2
  <2>2. pc \in {"binary", "long"}
    BY <1>6 DEF VisitBinary, StartLong, SkipClause, MoveWatch, EndLong, KeepWatch
  <2>3. UNCHANGED trail \/ \E l, from : Enqueues(l, from)
    <3>1. Quiet \/ EnqueueStep
      <4>1. CASE VisitBinary
        BY <4>1, BinarySteps
      <4>2. CASE KeepWatch
        BY <4>2, KeepSteps
      <4>3. CASE StartLong \/ SkipClause \/ MoveWatch \/ EndLong
        BY <4>3 DEF StartLong, SkipClause, MoveWatch, EndLong, UnchangedByPropagate, Quiet, user
      <4>. QED
        BY <1>6, <4>1, <4>2, <4>3
    <3>. QED
      BY <3>1 DEF Quiet, EnqueueStep
  <2>4. qhead \in DOMAIN trail => qhead \in DOMAIN trail' /\ trail'[qhead] = trail[qhead]
    BY <1>0, <2>3, EnqueueFacts
  <2>. QED
    BY <2>1, <2>2, <2>4 DEF HeadInv
<1>7. CASE Propagated \/ Search \/ CheckGarbage \/ Return \/ Added
  <2>1. pc' \notin {"binary", "long"}
    BY <1>7, VisitsEnd
  <2>. QED
    BY <1>3, <2>1
<1>8. CASE User
  <2>1. \/ pc' \notin {"binary", "long"}
        \/ UNCHANGED <<pc, trail, qhead, visiting>>
    <3>1. CASE newVar \/ callSimplify \/ solve \/ interrupt
      BY <3>1 DEF newVar, callSimplify, solve, solve_, interrupt, assignment
    <3>2. CASE addClause
      BY <3>2 DEF addClause, addClauseThen, addClause_
    <3>. QED
      BY <1>8, <3>1, <3>2 DEF User
  <2>. QED
    BY <1>2, <1>3, <2>1
<1>9. CASE UNCHANGED svars
  BY <1>2, <1>9 DEF svars, assignment
<1>. QED
  BY <1>5, <1>6, <1>7, <1>8, <1>9 DEF Next, Step, Propagate

\* A watcher that some list has, or that has still to be visited.
Stored(w) == \/ \E l \in Lits : \E n \in DOMAIN watches[l] : w = watches[l][n]
             \/ pc = "long" /\ \E n \in DOMAIN visiting.todo : w = visiting.todo[n]
Fits(w) == w.blocker \in ToSet(ca'[w.cref].lits)

AllLive == \A w : Stored(w) => w.cref \in DOMAIN ca
AllWithin == \A w : Stored(w) => Within(w)

\* Every watcher that is stored or still to be visited refers to a clause in
\* memory.
LEMMA StoredLive ==
    IInv => AllLive
<1>1. SUFFICES ASSUME IInv, NEW w, Stored(w)
               PROVE  w.cref \in DOMAIN ca
  BY DEF AllLive
<1>2. WatchInv
  BY <1>1 DEF IInv
<1>3. \A l \in Lits : \A cr \in Refs(ListOf(l)) : cr \in DOMAIN ca
  BY <1>2 DEF WatchInv
<1>4. CASE pc # "long"
  <2>1. PICK l \in Lits : \E n \in DOMAIN watches[l] : w = watches[l][n]
    BY <1>1, <1>4 DEF Stored
  <2>2. ListOf(l) = watches[l]
    BY <1>2, <1>4, PlainLists
  <2>. QED
    BY <1>3, <2>1, <2>2 DEF Refs
<1>5. CASE pc = "long"
  <2>1. visiting.p \in Lits
    BY <1>1, <1>5, VisitedTrue
  <2>2. CASE \E l \in Lits : l # visiting.p /\ \E n \in DOMAIN watches[l] : w = watches[l][n]
    <3>1. PICK l \in Lits : l # visiting.p /\ \E n \in DOMAIN watches[l] : w = watches[l][n]
      BY <2>2
    <3>2. ListOf(l) = watches[l]
      BY <3>1 DEF ListOf
    <3>. QED
      BY <1>3, <3>1, <3>2 DEF Refs
  <2>3. CASE \/ \E n \in DOMAIN watches[visiting.p] : w = watches[visiting.p][n]
             \/ \E n \in DOMAIN visiting.todo : w = visiting.todo[n]
    <3>. DEFINE p == visiting.p
                m == Len(watches[p])
    <3>1. /\ m \in Nat /\ DOMAIN watches[p] = 1 .. m
          /\ DOMAIN visiting.todo = 1 .. Len(visiting.todo) /\ Len(visiting.todo) \in Nat
          /\ DOMAIN ListOf(p) = 1 .. m + Len(visiting.todo)
          /\ \A i \in 1 .. m : ListOf(p)[i] = watches[p][i]
          /\ \A i \in DOMAIN visiting.todo : m + i \in DOMAIN ListOf(p) /\ ListOf(p)[m + i] = visiting.todo[i]
      BY <1>2, <1>5, <2>1, ListOfVisited
    <3>2. \E n \in DOMAIN ListOf(p) : w = ListOf(p)[n]
      <4>. HIDE DEF m, p
      <4>. DEFINE k == Len(visiting.todo)
      <4>1. \A i \in 1 .. m : i \in DOMAIN ListOf(p)
        <5>1. m \in Nat /\ k \in Nat /\ DOMAIN ListOf(p) = 1 .. m + k
          BY <3>1
        <5>. HIDE DEF k
        <5>. QED
          BY <5>1
      <4>2. CASE \E n \in DOMAIN watches[p] : w = watches[p][n]
        BY <3>1, <4>1, <4>2
      <4>3. CASE \E n \in DOMAIN visiting.todo : w = visiting.todo[n]
        BY <3>1, <4>3
      <4>. QED
        BY <2>3, <4>2, <4>3 DEF p
    <3>3. w.cref \in Refs(ListOf(p))
      BY <3>2 DEF Refs
    <3>. QED
      BY <1>3, <2>1, <3>3
  <2>. QED
    BY <1>1, <2>2, <2>3 DEF Stored
<1>. QED
  BY <1>4, <1>5

\* BlockerInv in terms of the watchers that are stored.
LEMMA StoredParts ==
    BlockerInv <=> AllWithin
BY DEF BlockerInv, Stored, AllWithin

\* The blocker of a watcher stays in its clause, in whatever order that is.
LEMMA StoredFits ==
    ASSUME IInv, [Next]_svars, BlockerInv, NEW w, Stored(w), w.cref \in DOMAIN ca'
    PROVE  Fits(w)
<1>1. w.cref \in DOMAIN ca /\ Within(w)
  BY StoredLive, StoredParts DEF AllLive, AllWithin
<1>2. ToSet(ca'[w.cref].lits) = ToSet(lits(w.cref))
  BY <1>1, SameLits
<1>. QED
  BY <1>1, <1>2 DEF Within, Fits

\* If every watcher of the new lists comes from a list or has a blocker that
\* fits, BlockerInv is kept.
LEMMA AllFit ==
    ASSUME IInv, IInv', [Next]_svars, BlockerInv, \A w : Stored(w)' => Stored(w) \/ Fits(w)
    PROVE  BlockerInv'
<1>1. AllLive'
  BY StoredLive, PTL
<1>2. BlockerInv' <=> AllWithin'
  BY StoredParts, PTL
<1>3. SUFFICES ASSUME NEW w, Stored(w)'
               PROVE  Within(w)'
  BY <1>2 DEF AllWithin
<1>4. w.cref \in DOMAIN ca'
  BY <1>1, <1>3 DEF AllLive
<1>5. Fits(w)
  BY <1>3, <1>4, StoredFits
<1>. QED
  BY <1>5 DEF Fits, Within, lits

\* The watchers of the new lists: each comes from a list, or has a blocker that fits.
Comes(w) == Stored(w) \/ Fits(w)

\* BlockerInv is kept when each new list, and what is left to visit, is made of
\* watchers that come from a list or fit.
LEMMA ListsCome ==
    ASSUME IInv, IInv', [Next]_svars, BlockerInv,
           \A l \in Lits : \A n \in DOMAIN watches'[l] : Comes(watches'[l][n]),
           pc' = "long" => \A n \in DOMAIN visiting'.todo : Comes(visiting'.todo[n])
    PROVE  BlockerInv'
<1>1. \A w : Stored(w)' => Stored(w) \/ Fits(w)
  <2>1. SUFFICES ASSUME NEW w, Stored(w)'  PROVE Comes(w)
    BY DEF Comes
  <2>. QED
    BY <2>1 DEF Stored
<1>. QED
  BY <1>1, AllFit

\* BlockerInv is kept when the lists stay.
LEMMA SameCome ==
    ASSUME IInv, IInv', [Next]_svars, BlockerInv, UNCHANGED watches,
           pc' # "long" \/ UNCHANGED <<pc, visiting>>
    PROVE  BlockerInv'
<1>1. \A l \in Lits : \A n \in DOMAIN watches'[l] : Comes(watches'[l][n])
  BY DEF Comes, Stored
<1>2. pc' = "long" => \A n \in DOMAIN visiting'.todo : Comes(visiting'.todo[n])
  BY DEF Comes, Stored
<1>. QED
  BY <1>1, <1>2, ListsCome

\* BlockerInv is kept when the lists are cleaned.
LEMMA CleanedCome ==
    ASSUME IInv, IInv', [Next]_svars, BlockerInv, watches' = Cleaned(watches), pc' # "long"
    PROVE  BlockerInv'
<1>1. ASSUME NEW l \in Lits, NEW n \in DOMAIN watches'[l]  PROVE Comes(watches'[l][n])
  <2>1. watches \in [Lits -> WatcherSeqs]
    BY DEF IInv, WatchInv
  <2>2. \E m \in DOMAIN watches[l] : watches'[l][n] = watches[l][m]
    BY <2>1, CleanedFacts
  <2>. QED
    BY <2>2 DEF Comes, Stored
<1>. QED
  BY <1>1, ListsCome

\* BlockerInv is kept when a clause is allocated and attached: its first two
\* literals block each other.
LEMMA AttachedCome ==
    ASSUME IInv, IInv', [Next]_svars, BlockerInv, pc' # "long",
           NEW cr, NEW ps, NEW learnt, NEW lbd, Allocates(cr, ps, learnt, lbd)
    PROVE  BlockerInv'
<1>1. CASE UNCHANGED watches
  BY <1>1, SameCome
<1>2. CASE watches' = Attached(watches, cr, ps)
  <2>1. /\ ps \in Seq(Lits) /\ Len(ps) >= 2 /\ cr \in CRefs /\ ca'[cr].lits = ps
        /\ \A k, m \in DOMAIN ps : ps[k] = ps[m] => k = m
    BY AllocFacts DEF Allocates, GoodClause
  <2>. DEFINE N == Len(ps)
  <2>2. N \in Nat /\ DOMAIN ps = 1 .. N /\ N >= 2
    BY <2>1
  <2>. HIDE DEF N
  <2>3. 1 \in DOMAIN ps /\ 2 \in DOMAIN ps
    BY <2>2
  <2>4. ps[1] \in Lits /\ ps[2] \in Lits /\ ps[1] # ps[2] /\ ps[1] \in ToSet(ps) /\ ps[2] \in ToSet(ps)
    BY <2>1, <2>3 DEF ToSet
  <2>5. Fits(Watcher(cr, ps[1])) /\ Fits(Watcher(cr, ps[2]))
    BY <2>1, <2>4 DEF Fits, Watcher
  <2>6. watches \in [Lits -> WatcherSeqs]
    BY DEF IInv, WatchInv
  <2>7. \A l \in Lits : \A n \in DOMAIN Attached(watches, cr, ps)[l] :
           \/ n \in DOMAIN watches[l] /\ Attached(watches, cr, ps)[l][n] = watches[l][n]
           \/ l = -ps[1] /\ Attached(watches, cr, ps)[l][n] = Watcher(cr, ps[2])
           \/ l = -ps[2] /\ Attached(watches, cr, ps)[l][n] = Watcher(cr, ps[1])
    BY <2>1, <2>4, <2>6, AttachedFacts
  <2>8. \A l \in Lits : \A n \in DOMAIN watches'[l] : Comes(watches'[l][n])
    BY <1>2, <2>5, <2>7 DEF Comes, Stored
  <2>. QED
    BY <2>8, ListsCome
<1>. QED
  BY <1>1, <1>2 DEF Allocates, attachClause

\* The watcher visited goes on to some list, and those after it are left.
LEMMA MovedCome ==
    ASSUME IInv, IInv', [Next]_svars, BlockerInv, pc = "long", visiting.todo # <<>>,
           NEW q \in Lits, NEW w \in WatcherRecords, Comes(w),
           watches' = WithWatcher(watches, q, w),
           visiting' = [visiting EXCEPT !.todo = Tail(@)]
    PROVE  BlockerInv'
<1>1. watches \in [Lits -> WatcherSeqs] /\ WatchInv
  BY DEF IInv, WatchInv
<1>2. /\ watches'[q] = Append(watches[q], w)
      /\ \A l \in Lits : l # q => watches'[l] = watches[l]
  BY <1>1, WithWatcherFacts
<1>3. ASSUME NEW l \in Lits, NEW n \in DOMAIN watches'[l]  PROVE Comes(watches'[l][n])
  <2>1. CASE l # q
    BY <1>2, <1>3, <2>1 DEF Comes, Stored
  <2>2. CASE l = q
    <3>1. watches[q] \in Seq(WatcherRecords)
      BY <1>1 DEF WatcherSeqs, WatcherRecords
    <3>2. (n \in DOMAIN watches[q] /\ watches'[q][n] = watches[q][n]) \/ watches'[q][n] = w
      BY <1>2, <1>3, <2>2, <3>1, AppendedFacts
    <3>. QED
      BY <2>2, <3>2 DEF Comes, Stored
  <2>. QED
    BY <2>1, <2>2
<1>4. ASSUME NEW n \in DOMAIN visiting'.todo  PROVE Comes(visiting'.todo[n])
  <2>1. visiting = [p |-> visiting.p, todo |-> visiting.todo] /\ visiting.todo \in Seq(WatcherRecords)
    BY <1>1, VisitingType DEF WatcherRecords
  <2>2. visiting'.todo = Tail(visiting.todo)
    BY <2>1
  <2>3. \E m \in DOMAIN visiting.todo : visiting'.todo[n] = visiting.todo[m]
    BY <1>4, <2>1, <2>2, HeadTail
  <2>. QED
    BY <2>3 DEF Comes, Stored
<1>. QED
  BY <1>3, <1>4, ListsCome

-----------------------------------------------------------------------------
(***************************************************************************)
(* Progress: the watchers that a visit puts back.                          *)
(***************************************************************************)

\* The watcher visited, and where it goes, fit.
LEMMA HeadComes ==
    ASSUME IInv, pc = "long", visiting.todo # <<>>
    PROVE  /\ Stored(Head(visiting.todo)) /\ Head(visiting.todo) \in WatcherRecords
           /\ visiting.p \in Lits
           /\ visiting.todo \in Seq(WatcherRecords)
<1>1. /\ visiting.todo \in Seq(WatcherRecords)
      /\ visiting.p \in Lits
  BY VisitingType, VisitedTrue DEF WatcherRecords, IInv
<1>2. Head(visiting.todo) = visiting.todo[1] /\ 1 \in DOMAIN visiting.todo /\ Head(visiting.todo) \in WatcherRecords
  BY <1>1, HeadTail
<1>. QED
  BY <1>1, <1>2 DEF Stored

\* BlockerInv is kept when a watcher is put back, with the first literal of its
\* clause as blocker.
LEMMA KeepBlockers ==
    ASSUME IInv, IInv', [Next]_svars, BlockerInv, KeepWatch
    PROVE  BlockerInv'
<1>. DEFINE v == Head(visiting.todo)
            d == v.cref
            w == Watcher(d, Turned(d)[1])
            kept == WithWatcher(watches, visiting.p, w)
<1>1. /\ pc = "long" /\ visiting.todo # <<>>
      /\ \/ pc' = caller /\ watches' = [kept EXCEPT ![visiting.p] = @ \o Tail(visiting.todo)]
         \/ watches' = kept /\ visiting' = [visiting EXCEPT !.todo = Tail(@)]
  BY DEF KeepWatch
<1>2. v \in WatcherRecords /\ Stored(v) /\ visiting.p \in Lits /\ visiting.todo \in Seq(WatcherRecords)
  BY <1>1, HeadComes
<1>3. PICK c : Rewrites(d, c) /\ c.lits = Turned(d)
  BY KeepRewrites
<1>4. /\ Turned(d)[1] \in Lits /\ Turned(d) \in Seq(Lits) /\ 1 \in DOMAIN Turned(d)
  <2>1. Turned(d) \in Seq(Lits) /\ Turned(d)[1] \in NLits /\ Len(Turned(d)) = Len(lits(d)) /\ Len(lits(d)) > 2
        /\ lits(d) \in Seq(Lits) /\ DOMAIN Turned(d) = 1 .. Len(Turned(d))
    BY <1>1, VisitedLong
  <2>. DEFINE N == Len(lits(d))
  <2>2. N \in Nat /\ N > 2 /\ DOMAIN Turned(d) = 1 .. N
    BY <2>1
  <2>. HIDE DEF N
  <2>3. 1 \in DOMAIN Turned(d)
    BY <2>2
  <2>. QED
    BY <2>1, <2>3 DEF NLits
<1>5. ca'[d].lits = Turned(d)
  BY <1>3, RewriteFacts DEF IInv
<1>6. Fits(w)
  BY <1>4, <1>5 DEF Fits, Watcher, ToSet
<1>7. w \in WatcherRecords
  BY <1>2, <1>4 DEF WatcherRecords, Watcher
<1>8. CASE watches' = kept /\ visiting' = [visiting EXCEPT !.todo = Tail(@)]
  <2>1. Comes(w)
    BY <1>6 DEF Comes
  <2>. HIDE DEF w, v, d
  <2>. QED
    BY <1>1, <1>2, <1>7, <1>8, <2>1, MovedCome
<1>9. CASE pc' = caller /\ watches' = [kept EXCEPT ![visiting.p] = @ \o Tail(visiting.todo)]
  <2>. DEFINE p == visiting.p
              u == Append(watches[p], w)
              tail == Tail(visiting.todo)
              todo == visiting.todo
  <2>1. watches \in [Lits -> WatcherSeqs] /\ watches[p] \in Seq(WatcherRecords) /\ p \in Lits
    BY <1>2 DEF IInv, WatchInv, WatcherSeqs, WatcherRecords
  <2>2. /\ kept \in [Lits -> WatcherSeqs] /\ kept[p] = u
        /\ \A l \in Lits : l # p => kept[l] = watches[l]
    <3>. HIDE DEF w
    <3>. QED
      BY <1>7, <2>1, WithWatcherFacts
  <2>3. /\ watches'[p] = u \o tail
        /\ \A l \in Lits : l # p => watches'[l] = watches[l]
    <3>. HIDE DEF kept, u, tail
    <3>. QED
      BY <1>9, <2>1, <2>2 DEF tail
  <2>4. u \in Seq(WatcherRecords) /\ \A n \in DOMAIN u : (n \in DOMAIN watches[p] /\ u[n] = watches[p][n]) \/ u[n] = w
    <3>. HIDE DEF w
    <3>. QED
      BY <1>7, <2>1, AppendedFacts
  <2>5. \A n \in DOMAIN u : Comes(u[n])
    <3>. HIDE DEF w, u
    <3>. QED
      BY <1>6, <2>1, <2>4 DEF Comes, Stored
  <2>6. tail \in Seq(WatcherRecords) /\ \A n \in DOMAIN tail : \E m \in DOMAIN todo : tail[n] = todo[m]
    <3>1. todo \in Seq(WatcherRecords) /\ todo # <<>> /\ tail = Tail(todo)
      BY <1>1, <1>2
    <3>. HIDE DEF todo, tail
    <3>2. /\ Tail(todo) \in Seq(WatcherRecords) /\ DOMAIN Tail(todo) = 1 .. Len(todo) - 1
          /\ \A n \in 1 .. Len(todo) - 1 : Tail(todo)[n] = todo[n + 1] /\ n + 1 \in DOMAIN todo
      BY <3>1, HeadTail
    <3>. QED
      BY <3>1, <3>2
  <2>7. \A n \in DOMAIN tail : Comes(tail[n])
    <3>. HIDE DEF tail
    <3>. QED
      BY <1>1, <2>6 DEF Comes, Stored
  <2>8. \A n \in DOMAIN (u \o tail) : Comes((u \o tail)[n])
    <3>. HIDE DEF u, tail
    <3>1. SUFFICES ASSUME NEW n \in DOMAIN (u \o tail)  PROVE Comes((u \o tail)[n])
      OBVIOUS
    <3>2. PICK j, k : j = Len(u) /\ k = Len(tail)
      OBVIOUS
    <3>3. /\ DOMAIN (u \o tail) = 1 .. j + k /\ j \in Nat /\ k \in Nat
          /\ DOMAIN u = 1 .. j /\ DOMAIN tail = 1 .. k
          /\ \A i \in 1 .. j : (u \o tail)[i] = u[i]
          /\ \A i \in j + 1 .. j + k : (u \o tail)[i] = tail[i - j]
      BY <2>4, <2>6, <3>2, ConcatFacts
    <3>4. CASE n \in 1 .. j
      BY <2>5, <3>3, <3>4
    <3>5. CASE n \in j + 1 .. j + k
      <4>1. n - j \in 1 .. k
        BY <3>3, <3>5
      <4>. QED
        BY <2>7, <3>3, <3>5, <4>1
    <3>6. n \in 1 .. j + k /\ j \in Nat /\ k \in Nat
      BY <3>1, <3>3
    <3>7. n \in 1 .. j \/ n \in j + 1 .. j + k
      BY <3>6
    <3>. QED
      BY <3>4, <3>5, <3>7
  <2>9. ASSUME NEW l \in Lits, NEW n \in DOMAIN watches'[l]  PROVE Comes(watches'[l][n])
    <3>. HIDE DEF u, tail
    <3>1. CASE l = p
      <4>1. watches'[l] = u \o tail
        BY <2>3, <3>1
      <4>. QED
        BY <2>8, <2>9, <4>1
    <3>2. CASE l # p
      <4>1. n \in DOMAIN watches[l] /\ watches'[l][n] = watches[l][n]
        BY <2>3, <2>9, <3>2
      <4>. QED
        BY <4>1 DEF Comes, Stored
    <3>. QED
      BY <3>1, <3>2
  <2>10. pc' # "long"
    BY <1>9 DEF IInv, ControlInv
  <2>. QED
    BY <2>9, <2>10, ListsCome
<1>. QED
  BY <1>1, <1>8, <1>9

\* BlockerInv is kept by the other steps that visit a list.
LEMMA VisitBlockers ==
    ASSUME IInv, IInv', [Next]_svars, BlockerInv, StartLong \/ EndLong \/ SkipClause \/ MoveWatch \/ VisitBinary
    PROVE  BlockerInv'
<1>1. CASE StartLong
  <2>1. /\ pc = "binary" /\ pc' = "long"
        /\ visiting' = [visiting EXCEPT !.todo = watches[visiting.p]]
        /\ watches' = [watches EXCEPT ![visiting.p] = <<>>]
    BY <1>1 DEF StartLong
  <2>2. visiting = [p |-> visiting.p, todo |-> visiting.todo] /\ visiting.p \in Lits
        /\ watches \in [Lits -> WatcherSeqs]
    BY <2>1, VisitingType, VisitedTrue DEF IInv, WatchInv
  <2>3. visiting'.todo = watches[visiting.p]
    BY <2>1, <2>2
  <2>4. \A l \in Lits : watches'[l] = IF l = visiting.p THEN <<>> ELSE watches[l]
    BY <2>1, <2>2
  <2>5. \A l \in Lits : \A n \in DOMAIN watches'[l] : n \in DOMAIN watches[l] /\ watches'[l][n] = watches[l][n]
    <3>1. DOMAIN <<>> = {}
      OBVIOUS
    <3>. QED
      BY <2>4, <3>1
  <2>6. \A l \in Lits : \A n \in DOMAIN watches'[l] : Comes(watches'[l][n])
    BY <2>5 DEF Comes, Stored
  <2>7. \A n \in DOMAIN visiting'.todo : Comes(visiting'.todo[n])
    BY <2>2, <2>3 DEF Comes, Stored
  <2>. QED
    BY <2>6, <2>7, ListsCome
<1>2. CASE EndLong
  <2>1. UNCHANGED watches /\ pc' # "long"
    BY <1>2 DEF EndLong
  <2>. QED
    BY <2>1, SameCome
<1>3. CASE VisitBinary
  <2>1. UNCHANGED watches /\ pc' # "long"
    BY <1>3 DEF VisitBinary, IInv, ControlInv
  <2>. QED
    BY <2>1, SameCome
<1>4. CASE SkipClause
  <2>1. /\ pc = "long" /\ visiting.todo # <<>>
        /\ watches' = WithWatcher(watches, visiting.p, Head(visiting.todo))
        /\ visiting' = [visiting EXCEPT !.todo = Tail(@)]
    BY <1>4 DEF SkipClause
  <2>2. Comes(Head(visiting.todo)) /\ Head(visiting.todo) \in WatcherRecords /\ visiting.p \in Lits
    BY <2>1, HeadComes DEF Comes
  <2>. QED
    BY <2>1, <2>2, MovedCome
<1>5. CASE MoveWatch
  <2>. DEFINE d == Head(visiting.todo).cref
              ps == Turned(d)
  <2>1. /\ pc = "long" /\ visiting.todo # <<>>
        /\ visiting' = [visiting EXCEPT !.todo = Tail(@)]
    BY <1>5 DEF MoveWatch
  <2>2. Head(visiting.todo) \in WatcherRecords
    BY <2>1, HeadComes
  <2>3. PICK c : \E k \in 3 .. Len(ps) :
              /\ Rewrites(d, c) /\ c.lits = Swapped(ps, 2, k)
              /\ c.lits[1] = ps[1] /\ ps[k] \in Lits /\ ps[1] \in Lits
              /\ watches' = WithWatcher(watches, -ps[k], Watcher(d, ps[1]))
    BY <1>5, MoveRewrites
  <2>4. PICK k \in 3 .. Len(ps) :
              /\ Rewrites(d, c) /\ c.lits = Swapped(ps, 2, k)
              /\ c.lits[1] = ps[1] /\ ps[k] \in Lits /\ ps[1] \in Lits
              /\ watches' = WithWatcher(watches, -ps[k], Watcher(d, ps[1]))
    BY <2>3
  <2>5. ca'[d] = c /\ Len(c.lits) = Len(lits(d)) /\ Len(lits(d)) > 2 /\ c.lits \in Seq(Lits) /\ lits(d) \in Seq(Lits)
    <3>1. ca'[d] = c /\ Len(c.lits) = Len(lits(d)) /\ c.lits \in Seq(Lits)
      BY <2>4, RewriteFacts DEF IInv, Rewrites, Rearranged, ClauseRecords
    <3>2. Len(lits(d)) > 2 /\ lits(d) \in Seq(Lits)
      BY <2>1, VisitedLong
    <3>. QED
      BY <3>1, <3>2
  <2>6. ps[1] \in ToSet(ca'[d].lits)
    <3>. DEFINE N == Len(lits(d))
    <3>1. N \in Nat /\ N > 2 /\ DOMAIN c.lits = 1 .. N
      BY <2>5
    <3>. HIDE DEF N
    <3>2. 1 \in DOMAIN c.lits
      BY <3>1
    <3>. QED
      BY <2>4, <2>5, <3>2 DEF ToSet
  <2>. DEFINE w == Watcher(d, ps[1])
              q == -ps[k]
  <2>7. w \in WatcherRecords /\ Fits(w)
    BY <2>2, <2>4, <2>6 DEF WatcherRecords, Watcher, Fits
  <2>8. q \in Lits
    BY <2>4, LitsFacts
  <2>9. watches' = WithWatcher(watches, q, w) /\ Comes(w)
    BY <2>4, <2>7 DEF Comes
  <2>. HIDE DEF w, q, d, ps
  <2>. QED
    BY <2>1, <2>7, <2>8, <2>9, MovedCome
<1>. QED
  BY <1>1, <1>2, <1>3, <1>4, <1>5

\* A step keeps BlockerInv.
LEMMA BlockerStep ==
    ASSUME IInv, BlockerInv, [Next]_svars
    PROVE  BlockerInv'
<1>0. IInv'
  BY IInvStep
<1>1. CASE newVar \/ callSimplify \/ solve \/ interrupt \/ UNCHANGED svars
  <2>1. UNCHANGED watches /\ (pc' # "long" \/ UNCHANGED <<pc, visiting>>)
    BY <1>1 DEF newVar, callSimplify, solve, solve_, interrupt, svars, database
  <2>. QED
    BY <1>0, <2>1, SameCome
<1>2. CASE addClause
  <2>1. pc' # "long"
    BY <1>2 DEF addClause, addClauseThen, addClause_
  <2>2. CASE UNCHANGED database
    BY <1>0, <2>1, <2>2, SameCome DEF database
  <2>3. CASE \E ps : \E cr \in CRefs : Allocates(cr, ps, FALSE, 0)
    BY <1>0, <2>1, <2>3, AttachedCome
  <2>. QED
    BY <1>2, <2>2, <2>3, AddAllocates
<1>3. CASE Learn
  <2>1. pc' # "long"
    BY <1>3, VisitsEnd DEF Search
  <2>2. CASE UNCHANGED database
    BY <1>0, <2>1, <2>2, SameCome DEF database
  <2>3. CASE \E cr \in CRefs : Allocates(cr, an.out, TRUE, an.lbd)
    BY <1>0, <2>1, <2>3, AttachedCome
  <2>. QED
    BY <1>3, <2>2, <2>3, LearnAllocates
<1>4. CASE Dequeue \/ Propagated
  <2>1. cleanAll /\ (pc' = "binary" \/ Propagated)
    BY <1>4 DEF Dequeue, Propagated
  <2>2. pc' # "long"
    BY <2>1, VisitsEnd
  <2>3. watches' = Cleaned(watches)
    BY <2>1, CleanAllFacts DEF IInv
  <2>. QED
    BY <1>0, <2>2, <2>3, CleanedCome
<1>5. CASE CheckGarbage
  <2>1. pc' # "long"
    BY <1>5, VisitsEnd
  <2>2. CASE UNCHANGED watches
    BY <1>0, <2>1, <2>2, SameCome
  <2>3. CASE Collects
    <3>1. watches' = Cleaned(watches)
      BY <2>3, CleanAllFacts DEF IInv, Collects
    <3>. QED
      BY <1>0, <2>1, <3>1, CleanedCome
  <2>. QED
    BY <1>5, <2>2, <2>3, GarbageCollects
<1>6. CASE StartLong \/ EndLong \/ SkipClause \/ MoveWatch \/ VisitBinary
  BY <1>0, <1>6, VisitBlockers
<1>7. CASE KeepWatch
  BY <1>0, <1>7, KeepBlockers
<1>8. CASE Search /\ ~ Learn
  <2>1. pc' # "long"
    BY <1>8, VisitsEnd
  <2>2. UNCHANGED watches
    <3>1. CASE SearchConflict \/ Analyze \/ Minimise \/ litRedundant \/ Shorten
      BY <3>1 DEF SearchConflict, Analyze, Minimise, litRedundant, Shorten, UnchangedByAnalyze, database
    <3>2. CASE Restart \/ NoConflict \/ SimplifyReturns \/ Simplify \/ KeepLearnts \/ NothingToReduce \/ reduceDB
      BY <3>2 DEF Restart, NoConflict, SimplifyReturns, Simplify, KeepLearnts, NothingToReduce, reduceDB, database
    <3>3. CASE DummyLevel \/ Assume \/ AssumptionFails \/ AnalyzeFinal \/ FinalAnalyzed \/ PickBranchLit \/ ModelFound
      BY <3>3 DEF DummyLevel, Assume, AssumptionFails, AnalyzeFinal, FinalAnalyzed, PickBranchLit, ModelFound,
                  UnchangedByDecide, database
    <3>. QED
      BY <1>8, <3>1, <3>2, <3>3 DEF Search
  <2>. QED
    BY <1>0, <2>1, <2>2, SameCome
<1>9. CASE Return \/ Added
  <2>1. pc' # "long"
    BY <1>9, VisitsEnd
  <2>2. UNCHANGED watches
    BY <1>9 DEF Return, Returned, Added, database
  <2>. QED
    BY <1>0, <2>1, <2>2, SameCome
<1>. QED
  BY <1>1, <1>2, <1>3, <1>4, <1>5, <1>6, <1>7, <1>8, <1>9 DEF Next, Step, User, Propagate

-----------------------------------------------------------------------------
(***************************************************************************)
(* Progress: which clauses and literals were there before a step, and what *)
(* a clause that is helped keeps.                                          *)
(***************************************************************************)

\* The clause added has no literal that is assigned.
LEMMA AddedClause ==
    ASSUME IInv, addClause
    PROVE  \/ UNCHANGED <<ca, clauses, learnts>>
           \/ \E c \in CRefs : /\ c \notin DOMAIN ca /\ clauses' = clauses \cup {c} /\ UNCHANGED <<learnts, trail>>
                               /\ \A d \in DOMAIN ca : ca'[d] = ca[d]
                               /\ \A k \in DOMAIN ca'[c].lits : isUndef(ca'[c].lits[k])
<1>. DEFINE qs == Sorted(Unassigned(call.lits))
<1>1. script # <<>> /\ call.op = "clause"
  BY DEF addClause, addClauseThen, Called, call
<1>2. CASE UNCHANGED database
  BY <1>2 DEF database
<1>3. CASE /\ ~ Superfluous(call.lits)
           /\ \E c \in CRefs : Fresh(c) /\ ca' = alloc(c, qs, FALSE, 0) /\ clauses' = clauses \cup {c}
           /\ UNCHANGED <<learnts, trail>>
  <2>1. \A k \in DOMAIN qs : isUndef(qs[k])
    BY <1>1, <1>3, AddedLits
  <2>2. PICK c \in CRefs : Fresh(c) /\ ca' = alloc(c, qs, FALSE, 0) /\ clauses' = clauses \cup {c}
    BY <1>3
  <2>. HIDE DEF qs
  <2>3. c \notin DOMAIN ca /\ ca'[c].lits = qs /\ \A d \in DOMAIN ca : ca'[d] = ca[d]
    BY <2>2 DEF Fresh, alloc
  <2>. QED
    BY <1>3, <2>1, <2>2, <2>3
<1>. QED
  BY <1>2, <1>3 DEF addClause, addClauseThen, addClause_

\* Which clauses are in use after a step.
LEMMA UsedBefore ==
    ASSUME IInv, [Next]_svars, NEW cr \in clauses' \cup learnts'
    PROVE  cr \in clauses \cup learnts \/ (addClause /\ cr \notin DOMAIN ca) \/ (Learn /\ cr \notin DOMAIN ca)
<1>1. CASE newVar \/ callSimplify \/ solve \/ interrupt \/ Added \/ Return \/ UNCHANGED svars
  BY <1>1 DEF newVar, callSimplify, solve, interrupt, Added, Return, Returned, svars, database
<1>2. CASE addClause
  BY <1>2, AddedClause
<1>3. CASE Learn
  BY <1>3, LearnAllocates, AllocFacts DEF database
<1>4. CASE Propagate \/ CheckGarbage
  BY <1>4 DEF Propagate, Dequeue, Propagated, VisitBinary, StartLong, SkipClause, MoveWatch, KeepWatch, EndLong,
              UnchangedByPropagate, CheckGarbage
<1>5. CASE SearchConflict \/ Analyze \/ Minimise \/ litRedundant \/ Shorten
  BY <1>5 DEF SearchConflict, Analyze, Minimise, litRedundant, Shorten, UnchangedByAnalyze, database
<1>6. CASE Restart \/ NoConflict \/ SimplifyReturns \/ Simplify \/ KeepLearnts \/ NothingToReduce \/ reduceDB
  BY <1>6 DEF Restart, NoConflict, SimplifyReturns, Simplify, KeepLearnts, NothingToReduce, reduceDB, database
<1>7. CASE DummyLevel \/ Assume \/ AssumptionFails \/ AnalyzeFinal \/ FinalAnalyzed \/ PickBranchLit \/ ModelFound
  BY <1>7 DEF DummyLevel, Assume, AssumptionFails, AnalyzeFinal, FinalAnalyzed, PickBranchLit, ModelFound,
              UnchangedByDecide, database
<1>. QED
  BY <1>1, <1>2, <1>3, <1>4, <1>5, <1>6, <1>7 DEF Next, Step, User, Search

\* A clause in use keeps its literals, and the first two but in MoveWatch.
LEMMA TwoKept ==
    ASSUME IInv, [Next]_svars, NEW cr \in clauses \cup learnts, cr \in clauses' \cup learnts'
    PROVE  /\ cr \in DOMAIN ca /\ ToSet(ca'[cr].lits) = ToSet(lits(cr)) /\ Len(ca'[cr].lits) = Len(lits(cr))
           /\ \/ {ca'[cr].lits[1], ca'[cr].lits[2]} = FirstTwo(cr)
              \/ MoveWatch /\ cr = Head(visiting.todo).cref
<1>0. ClausesInv /\ UseInv'
  BY UseStep DEF IInv
<1>1. cr \in DOMAIN ca /\ cr \in DOMAIN ca'
  BY <1>0 DEF IInv, UseInv, InUse
<1>2. Rearranged(ca'[cr].lits, lits(cr)) /\ ToSet(ca'[cr].lits) = ToSet(lits(cr))
  BY <1>1, SameLits
<1>3. Len(ca'[cr].lits) = Len(lits(cr))
  BY <1>2, RearrangedFacts
<1>4. \/ {ca'[cr].lits[1], ca'[cr].lits[2]} = FirstTwo(cr)
      \/ MoveWatch /\ cr = Head(visiting.todo).cref
  <2>1. CASE UNCHANGED ca \/ Simplify \/ reduceDB
    <3>1. ca'[cr].lits = lits(cr)
      BY <1>1, <2>1, SimplifyMarks, ReduceMarks DEF Marks, lits
    <3>. QED
      BY <3>1 DEF FirstTwo
  <2>2. CASE \E c, ps, learnt, lbd : Allocates(c, ps, learnt, lbd)
    <3>1. ca'[cr] = ca[cr]
      BY <1>1, <2>2, AllocFacts
    <3>. QED
      BY <3>1 DEF FirstTwo, lits
  <2>3. CASE \E d, c : Rewrites(d, c) /\ SameTwo(d, c)
    <3>a. PICK d : \E c : Rewrites(d, c) /\ SameTwo(d, c)
      BY <2>3
    <3>b. PICK c : Rewrites(d, c) /\ SameTwo(d, c)
      BY <3>a
    <3>1. ca'[d] = c /\ (cr # d => ca'[cr] = ca[cr])
      BY <1>0, <1>1, <3>b, RewriteFacts
    <3>. QED
      BY <3>b, <3>1 DEF FirstTwo, lits, SameTwo
  <2>4. CASE KeepWatch
    <3>. DEFINE d == Head(visiting.todo).cref
    <3>1. PICK c : Rewrites(d, c) /\ SameLong(d, c)
      BY <2>4, KeepRewrites
    <3>. HIDE DEF d
    <3>2. ca'[d] = c /\ (cr # d => ca'[cr] = ca[cr])
      BY <1>0, <1>1, <3>1, RewriteFacts
    <3>. QED
      BY <3>1, <3>2 DEF FirstTwo, lits, SameLong
  <2>5. CASE MoveWatch
    <3>. DEFINE d == Head(visiting.todo).cref
    <3>1. \E c : Rewrites(d, c)
      BY <2>5, MoveRewrites
    <3>. HIDE DEF d
    <3>2. cr # d => ca'[cr] = ca[cr]
      BY <1>0, <1>1, <3>1, RewriteFacts
    <3>. QED
      BY <2>5, <3>2 DEF FirstTwo, lits, d
  <2>6. CASE Collects
    <3>1. ca'[cr] = ca[cr]
      BY <1>1, <2>6 DEF Collects
    <3>. QED
      BY <3>1 DEF FirstTwo, lits
  <2>. QED
    BY <2>1, <2>2, <2>3, <2>4, <2>5, <2>6, CaKinds
<1>. QED
  BY <1>1, <1>2, <1>3, <1>4

\* The queue is never ahead of the trail, nor of what the trail was before the
\* step.
LEMMA HeadBound ==
    ASSUME IInv, [Next]_svars
    PROVE  qhead' \in Nat /\ qhead' <= Len(trail)
<1>. DEFINE n == Len(trail)
<1>0. n \in Nat /\ qhead \in 0 .. n /\ OrderInv
  BY TrailFacts DEF IInv, QueueInv
<1>1. CASE UNCHANGED qhead \/ qhead' = n \/ (qhead' = qhead + 1 /\ qhead < n)
  <2>. HIDE DEF n
  <2>1. qhead' \in Nat /\ qhead' <= n
    BY <1>0, <1>1
  <2>. QED
    BY <2>1 DEF n
<1>2. ASSUME NEW lev \in Nat, Backtrack(lev)  PROVE qhead' \in Nat /\ qhead' <= n
  <2>1. LimitOf(lev) \in 0 .. n
    BY <1>0, <1>2, BacktrackFacts
  <2>2. qhead' = LimitOf(lev) \/ qhead' = qhead
    BY <1>2 DEF Backtrack
  <2>. HIDE DEF n
  <2>. QED
    BY <1>0, <2>1, <2>2
<1>3. CASE \/ newVar \/ callSimplify \/ solve \/ interrupt \/ Added \/ StartLong \/ SkipClause \/ MoveWatch
           \/ EndLong \/ SearchConflict \/ NoConflict \/ SimplifyReturns \/ CheckGarbage \/ KeepLearnts
           \/ NothingToReduce \/ reduceDB \/ Analyze \/ Minimise \/ litRedundant \/ Shorten
           \/ AssumptionFails \/ AnalyzeFinal \/ FinalAnalyzed \/ ModelFound \/ UNCHANGED svars
  <2>1. UNCHANGED qhead
    BY <1>3, StillSteps DEF Still
  <2>. QED
    BY <1>1, <2>1
<1>4. CASE addClause \/ Dequeue \/ Propagated \/ VisitBinary \/ KeepWatch \/ Simplify
  <2>1. UNCHANGED qhead \/ qhead' = n \/ (qhead' = qhead + 1 /\ qhead < n)
    BY <1>4 DEF addClause, addClauseThen, UnchangedByAdd, Dequeue, Propagated, VisitBinary, KeepWatch, Simplify
  <2>. QED
    BY <1>1, <2>1
<1>5. CASE DummyLevel \/ Assume \/ PickBranchLit
  <2>1. UNCHANGED qhead
    BY <1>5 DEF DummyLevel, Assume, PickBranchLit, UnchangedByDecide
  <2>. QED
    BY <1>1, <2>1
<1>6. CASE Learn
  <2>1. PICK lev \in Nat : \E l, from : Learns(lev, l, from)
    BY <1>6, LearnSteps DEF LearnStep
  <2>. QED
    BY <1>2, <2>1 DEF Learns
<1>7. CASE Restart \/ Return
  <2>1. Backtrack(0)
    BY <1>7 DEF Restart, Return, Returned, cancelUntil
  <2>. QED
    BY <1>2, <2>1
<1>. QED
  BY <1>3, <1>4, <1>5, <1>6, <1>7 DEF Next, Step, User, Search, Propagate

\* A literal of the trail stays where it is, with all that is at its level or below.
StaysAt(i) == i \in DOMAIN trail' /\ trail'[i].lit = trail[i].lit /\ trail'[i].level = trail[i].level
OldPlace(i) == /\ i \in DOMAIN trail /\ StaysAt(i)
               /\ \A j \in DOMAIN trail : trail[j].level <= trail[i].level => StaysAt(j)

\* A literal of the trail after a step was there before, or it is at the current
\* level and still to be propagated.
LEMMA OldPlaces ==
    ASSUME IInv, [Next]_svars, NEW i \in DOMAIN trail'
    PROVE  OldPlace(i) \/ (trail'[i].level = decisionLevel' /\ i > qhead')
<1>0. OrderInv /\ LevelsInv /\ Len(trail) \in Nat /\ DOMAIN trail = 1 .. Len(trail) /\ i \in Nat
  <2>1. OrderInv' /\ OrderInv
    BY OrderStep DEF IInv
  <2>2. OrderInv' => DOMAIN trail' = 1 .. Len(trail')
    BY <2>1 DEF OrderInv, IsSeq
  <2>. QED
    BY <2>1, <2>2, TrailFacts DEF IInv
<1>a. \A j \in DOMAIN trail : trail[j].level \in Nat /\ trail[j].level <= decisionLevel
  BY <1>0, TrailFacts DEF LevelsInv
<1>1. CASE Quiet \/ DummyStep
  BY <1>1 DEF Quiet, DummyStep, OldPlace, StaysAt
<1>2. CASE EnqueueStep
  <2>1. PICK l, from : Enqueues(l, from)
    BY <1>2 DEF EnqueueStep
  <2>2. /\ DOMAIN trail' = 1 .. Len(trail) + 1
        /\ \A j \in DOMAIN trail : j \in DOMAIN trail' /\ trail'[j] = trail[j]
        /\ trail'[Len(trail) + 1].level = decisionLevel'
    BY <1>0, <2>1, EnqueueFacts
  <2>3. CASE i \in DOMAIN trail
    BY <2>2, <2>3 DEF OldPlace, StaysAt
  <2>4. CASE i \notin DOMAIN trail
    <3>1. i = Len(trail) + 1
      BY <1>0, <2>2, <2>4
    <3>2. qhead' <= Len(trail) /\ qhead' \in Nat
      BY HeadBound
    <3>. QED
      BY <1>0, <2>2, <3>1, <3>2
  <2>. QED
    BY <2>3, <2>4
<1>3. ASSUME NEW lev \in Nat, \A j \in 1 .. LimitOf(lev) : j \in DOMAIN trail' /\ trail'[j] = trail[j],
             i \in DOMAIN trail, i <= LimitOf(lev)
      PROVE  OldPlace(i)
  <2>1. trail[i].level <= lev
    BY <1>0, <1>3, KeptLevels
  <2>2. ASSUME NEW j \in DOMAIN trail, trail[j].level <= trail[i].level
        PROVE  j \in DOMAIN trail' /\ trail'[j] = trail[j]
    <3>1. trail[j].level <= lev
      BY <1>a, <1>3, <2>1, <2>2
    <3>2. j <= LimitOf(lev)
      BY <1>0, <3>1, KeptLevels
    <3>3. LimitOf(lev) \in Nat
      BY <1>0, TrailFacts DEF LimitOf
    <3>. QED
      BY <1>0, <1>3, <3>2, <3>3
  <2>3. trail[i].level <= trail[i].level
    BY <1>3, <1>a
  <2>4. i \in DOMAIN trail' /\ trail'[i] = trail[i]
    BY <1>3, <2>2, <2>3
  <2>. QED
    BY <1>3, <2>2, <2>4 DEF OldPlace, StaysAt
<1>4. CASE LearnStep
  <2>1. PICK lev \in Nat : lev < decisionLevel /\ \E from : Learns(lev, an.out[1], from)
    BY <1>4 DEF LearnStep
  <2>2. PICK from : Learns(lev, an.out[1], from)
    BY <2>1
  <2>3. /\ LimitOf(lev) \in 0 .. Len(trail)
        /\ DOMAIN trail' = 1 .. LimitOf(lev) + 1
        /\ \A j \in 1 .. LimitOf(lev) : j \in DOMAIN trail /\ trail'[j] = trail[j]
        /\ trail'[LimitOf(lev) + 1].level = lev
    BY <1>0, <2>2, LearnsFacts
  <2>4. decisionLevel' = lev /\ qhead' = LimitOf(lev)
    BY <1>0, <2>1, <2>2, BacktrackFacts DEF Learns, Backtrack
  <2>5. CASE i <= LimitOf(lev)
    <3>1. i \in 1 .. LimitOf(lev)
      BY <1>0, <2>3, <2>5
    <3>2. \A j \in 1 .. LimitOf(lev) : j \in DOMAIN trail'
      BY <2>3
    <3>. QED
      BY <1>3, <2>3, <2>5, <3>1, <3>2
  <2>6. CASE ~ i <= LimitOf(lev)
    <3>1. i = LimitOf(lev) + 1
      BY <1>0, <2>3, <2>6
    <3>. QED
      BY <2>3, <2>4, <3>1
  <2>. QED
    BY <2>5, <2>6
<1>5. CASE TakeOffStep
  <2>1. TakesOff(0)
    BY <1>5 DEF TakeOffStep
  <2>2. DOMAIN trail' = 1 .. LimitOf(0) /\ \A j \in DOMAIN trail' : j \in DOMAIN trail /\ trail'[j] = trail[j]
    BY <1>0, <2>1, TakesOffFacts
  <2>3. i \in DOMAIN trail /\ i <= LimitOf(0)
    BY <2>2
  <2>4. \A j \in 1 .. LimitOf(0) : j \in DOMAIN trail' /\ trail'[j] = trail[j]
    BY <2>2
  <2>. QED
    BY <1>3, <2>3, <2>4
<1>6. CASE UnreasonStep
  <2>1. PICK rs : trail' = Unreasoned(rs)
    BY <1>6 DEF UnreasonStep
  <2>. QED
    BY <1>0, <2>1, UnreasonedFacts DEF OldPlace, StaysAt
<1>. QED
  BY <1>1, <1>2, <1>4, <1>5, <1>6, TrailSteps

\* DoneInv after a step, in terms of what the step makes of the state.
TwoNext(cr) == {ca'[cr].lits[1], ca'[cr].lits[2]}
WaitingNext(cr) == /\ pc' \in {"binary", "long"}
                   /\ cr \in Refs(visiting'.todo) \/ (pc' = "binary" /\ Len(ca'[cr].lits) > 2)
SettledNext(i, cr) == \/ trail'[i].level < decisionLevel'
                      \/ Calm' /\ i <= qhead' /\ ~ (i = qhead' /\ WaitingNext(cr))
HelpedNext(cr, lev) == \E j \in DOMAIN trail' : trail'[j].lit \in ToSet(ca'[cr].lits) /\ trail'[j].level <= lev
DoneNext(cr, i) == -trail'[i].lit \in TwoNext(cr) /\ SettledNext(i, cr) => HelpedNext(cr, trail'[i].level)

\* DoneInv after a step, clause by clause and literal by literal.
LEMMA NextDone ==
    (\A cr \in clauses' \cup learnts' : \A i \in DOMAIN trail' : DoneNext(cr, i)) => DoneInv'
BY DEF DoneInv, DoneNext, FirstTwo, TwoNext, Settled, SettledNext, Waiting, WaitingNext, Helped, HelpedNext, lits, Refs

\* A clause that is helped stays so.
LEMMA DoneKept ==
    ASSUME IInv, [Next]_svars, DoneInv, NEW cr \in clauses \cup learnts, cr \in clauses' \cup learnts',
           NEW i, OldPlace(i), -trail[i].lit \in FirstTwo(cr), Settled(i, cr)
    PROVE  HelpedNext(cr, trail'[i].level)
<1>1. PICK j \in DOMAIN trail : trail[j].lit \in ToSet(lits(cr)) /\ trail[j].level <= trail[i].level
  BY DEF DoneInv, Helped, OldPlace
<1>2. StaysAt(j) /\ StaysAt(i)
  BY <1>1 DEF OldPlace
<1>3. ToSet(ca'[cr].lits) = ToSet(lits(cr))
  BY TwoKept
<1>. QED
  BY <1>1, <1>2, <1>3 DEF HelpedNext, StaysAt

\* A clause whose watched literals do not change stays settled where it was.
LEMMA DoneStays ==
    ASSUME IInv, [Next]_svars, DoneInv, NEW cr \in clauses \cup learnts, cr \in clauses' \cup learnts',
           NEW i, OldPlace(i), ~ (MoveWatch /\ cr = Head(visiting.todo).cref), SettledNext(i, cr) => Settled(i, cr)
    PROVE  DoneNext(cr, i)
<1>1. SUFFICES ASSUME -trail'[i].lit \in TwoNext(cr), SettledNext(i, cr)
               PROVE  HelpedNext(cr, trail'[i].level)
  BY DEF DoneNext
<1>2. TwoNext(cr) = FirstTwo(cr)
  BY TwoKept DEF TwoNext
<1>3. -trail[i].lit \in FirstTwo(cr)
  BY <1>1, <1>2 DEF OldPlace, StaysAt
<1>. QED
  BY <1>1, <1>3, DoneKept

\* The literal visited is at the current level.
LEMMA TopHead ==
    ASSUME IInv, HeadInv, pc \in {"binary", "long"}
    PROVE  /\ qhead \in DOMAIN trail /\ trail[qhead].lit = visiting.p /\ trail[qhead].level = decisionLevel
           /\ qhead \in Nat /\ visiting.p \in Lits
<1>1. PICK i \in DOMAIN trail : trail[i].lit = visiting.p /\ trail[i].level = decisionLevel
  BY DEF IInv, VisitInv, TrueAt, Top
<1>2. qhead \in DOMAIN trail /\ trail[qhead].lit = visiting.p
  BY DEF HeadInv
<1>3. i = qhead
  BY <1>1, <1>2 DEF IInv, LevelsInv
<1>4. DOMAIN trail = 1 .. Len(trail)
  BY TrailFacts DEF IInv
<1>. QED
  BY <1>1, <1>2, <1>3, <1>4, VisitedTrue

\* A clause with a true literal is helped at the current level.
LEMMA TopHelps ==
    ASSUME IInv, [Next]_svars, HeadInv, pc \in {"binary", "long"}, UNCHANGED trail_lim, OldPlace(qhead),
           NEW cr, \E j \in DOMAIN trail' : trail'[j].lit \in ToSet(ca'[cr].lits)
    PROVE  HelpedNext(cr, trail'[qhead].level)
<1>1. PICK j \in DOMAIN trail' : trail'[j].lit \in ToSet(ca'[cr].lits)
  OBVIOUS
<1>2. decisionLevel' = decisionLevel /\ decisionLevel \in Nat
  BY TrailFacts DEF decisionLevel, IInv
<1>3. trail'[j].level \in 0 .. decisionLevel'
  BY <1>1, LevelsStep DEF LevelsInv
<1>4. trail'[qhead].level = decisionLevel
  BY TopHead DEF OldPlace, StaysAt
<1>. QED
  BY <1>1, <1>2, <1>3, <1>4 DEF HelpedNext

-----------------------------------------------------------------------------
(***************************************************************************)
(* Progress: one clause is visited.                                        *)
(***************************************************************************)

\* Enqueued or true already.
LEMMA TrueNext ==
    ASSUME OrderInv, NEW l, NEW from, UNCHANGED trail_lim, ~ isFalse(l),
           IF isUndef(l) THEN uncheckedEnqueue(l, from) ELSE UNCHANGED trail
    PROVE  \E j \in DOMAIN trail' : trail'[j].lit = l
<1>1. CASE isUndef(l)
  <2>1. Enqueues(l, from)
    BY <1>1 DEF uncheckedEnqueue, Enqueues, decisionLevel
  <2>2. DOMAIN trail' = 1 .. Len(trail) + 1 /\ trail'[Len(trail) + 1].lit = l /\ Len(trail) \in Nat
    BY <2>1, EnqueueFacts, TrailFacts
  <2>3. Len(trail) + 1 \in DOMAIN trail'
    BY <2>2
  <2>. QED
    BY <2>2, <2>3
<1>2. CASE ~ isUndef(l)
  BY <1>2 DEF isUndef, isTrue
<1>. QED
  BY <1>1, <1>2

\* One clause is visited: it is settled afterwards.
LEMMA OneVisited ==
    ASSUME IInv, HeadInv, DoneInv, [Next]_svars, NEW cr \in clauses \cup learnts, cr \in clauses' \cup learnts',
           NEW i, OldPlace(i), pc \in {"binary", "long"}, UNCHANGED <<pc, trail_lim, qhead>>,
           visiting.todo # <<>>, visiting' = [visiting EXCEPT !.todo = Tail(@)],
           ~ (MoveWatch /\ cr = Head(visiting.todo).cref),
           cr = Head(visiting.todo).cref => \E j \in DOMAIN trail' : trail'[j].lit \in ToSet(ca'[cr].lits)
    PROVE  DoneNext(cr, i)
<1>1. /\ visiting = [p |-> visiting.p, todo |-> visiting.todo] /\ visiting.todo \in Seq(WatcherRecords)
  BY VisitingType DEF IInv, WatcherRecords
<1>2. visiting'.todo = Tail(visiting.todo)
  BY <1>1
<1>3. cr \in Refs(visiting.todo) => cr \in Refs(visiting'.todo) \/ cr = Head(visiting.todo).cref
  <2>. DEFINE s == visiting.todo
  <2>1. s \in Seq(WatcherRecords) /\ s # <<>>
    BY <1>1
  <2>. HIDE DEF s
  <2>2. /\ Head(s) = s[1] /\ Len(s) \in Nat /\ DOMAIN Tail(s) = 1 .. Len(s) - 1
        /\ \A n \in 1 .. Len(s) - 1 : Tail(s)[n] = s[n + 1]
    BY <2>1, HeadTail
  <2>3. DOMAIN s = 1 .. Len(s)
    BY <2>1
  <2>4. SUFFICES ASSUME NEW n \in DOMAIN s  PROVE s[n].cref \in Refs(Tail(s)) \/ s[n].cref = Head(s).cref
    BY <1>2 DEF s, Refs
  <2>5. CASE n = 1
    BY <2>2, <2>5
  <2>6. CASE n # 1
    <3>1. n - 1 \in DOMAIN Tail(s) /\ Tail(s)[n - 1] = s[n]
      <4>. DEFINE N == Len(s)
      <4>1. N \in Nat /\ DOMAIN s = 1 .. N /\ DOMAIN Tail(s) = 1 .. N - 1 /\ \A m \in 1 .. N - 1 : Tail(s)[m] = s[m + 1]
        BY <2>2, <2>3
      <4>. HIDE DEF N
      <4>2. n \in Int /\ n - 1 \in 1 .. N - 1 /\ (n - 1) + 1 = n
        BY <2>4, <2>6, <4>1
      <4>. QED
        BY <4>1, <4>2
    <3>. QED
      BY <3>1 DEF Refs
  <2>. QED
    BY <2>5, <2>6
<1>4. Len(ca'[cr].lits) = Len(lits(cr))
  BY TwoKept
<1>5. SUFFICES ASSUME SettledNext(i, cr), ~ Settled(i, cr)
               PROVE  DoneNext(cr, i)
  BY DoneStays
<1>6. decisionLevel' = decisionLevel /\ trail'[i].level = trail[i].level
  BY DEF decisionLevel, OldPlace, StaysAt
<1>7. Calm
  BY DEF Calm, Propagating
<1>8. i = qhead /\ Waiting(cr) /\ ~ WaitingNext(cr)
  BY <1>5, <1>6, <1>7 DEF Settled, SettledNext
<1>9. cr = Head(visiting.todo).cref
  BY <1>3, <1>4, <1>8 DEF Waiting, WaitingNext
<1>10. \E j \in DOMAIN trail' : trail'[j].lit \in ToSet(ca'[cr].lits)
  BY <1>9
<1>11. HelpedNext(cr, trail'[qhead].level)
  BY <1>8, <1>10, TopHelps
<1>. QED
  BY <1>8, <1>11 DEF DoneNext

\* A call of propagate that meets a conflict settles nothing more.
LEMMA NotCalmNext ==
    ASSUME IInv, [Next]_svars, DoneInv, NEW cr \in clauses \cup learnts, cr \in clauses' \cup learnts',
           NEW i, OldPlace(i), ~ Calm', UNCHANGED trail_lim, ~ MoveWatch
    PROVE  DoneNext(cr, i)
<1>1. SettledNext(i, cr) => Settled(i, cr)
  BY DEF SettledNext, Settled, OldPlace, StaysAt, decisionLevel
<1>. QED
  BY <1>1, DoneStays

\* Visiting a binary clause: its other literal is true afterwards, unless the
\* clause is in conflict.
LEMMA BinaryDone ==
    ASSUME IInv, HeadInv, DoneInv, [Next]_svars, VisitBinary, NEW cr \in clauses \cup learnts,
           cr \in clauses' \cup learnts', NEW i, OldPlace(i)
    PROVE  DoneNext(cr, i)
<1>. DEFINE w == Head(visiting.todo)
<1>1. /\ pc = "binary" /\ visiting.todo # <<>> /\ UNCHANGED <<trail_lim, qhead, ca>> /\ OrderInv
      /\ \/ confl' = w.cref /\ pc' = caller
         \/ /\ ~ isFalse(w.blocker)
            /\ IF isUndef(w.blocker) THEN uncheckedEnqueue(w.blocker, w.cref) ELSE UNCHANGED trail
            /\ visiting' = [visiting EXCEPT !.todo = Tail(@)] /\ UNCHANGED pc
  BY DEF VisitBinary, UnchangedByPropagate, IInv
<1>2. /\ w.cref \in CRefs
      /\ lits(w.cref) = <<-visiting.p, w.blocker>> \/ lits(w.cref) = <<w.blocker, -visiting.p>>
  BY <1>1, VisitedBinary
<1>3. ~ MoveWatch
  BY <1>1 DEF MoveWatch
<1>4. CASE confl' = w.cref /\ pc' = caller
  <2>1. confl' # CRef_Undef
    BY <1>2, <1>4 DEF CRefs, CRef_Undef
  <2>2. pc' \in {"added", "search", "simplify"}
    BY <1>4 DEF IInv, ControlInv
  <2>3. ~ Calm'
    BY <2>1, <2>2 DEF Calm, Propagating
  <2>. QED
    BY <1>1, <1>3, <2>3, NotCalmNext
<1>5. CASE /\ ~ isFalse(w.blocker)
           /\ IF isUndef(w.blocker) THEN uncheckedEnqueue(w.blocker, w.cref) ELSE UNCHANGED trail
           /\ visiting' = [visiting EXCEPT !.todo = Tail(@)] /\ UNCHANGED pc
  <2>1. \E j \in DOMAIN trail' : trail'[j].lit = w.blocker
    BY <1>1, <1>5, TrueNext
  <2>2. w.blocker \in ToSet(lits(w.cref))
    <3>. DEFINE a == -visiting.p
                b == w.blocker
    <3>. HIDE DEF a, b
    <3>1. b \in ToSet(<<a, b>>) /\ b \in ToSet(<<b, a>>)
      BY DEF ToSet
    <3>. QED
      BY <1>2, <3>1 DEF a, b
  <2>3. ca'[w.cref].lits = lits(w.cref)
    BY <1>1 DEF lits
  <2>4. cr = w.cref => \E j \in DOMAIN trail' : trail'[j].lit \in ToSet(ca'[cr].lits)
    BY <2>1, <2>2, <2>3
  <2>. QED
    BY <1>1, <1>3, <1>5, <2>4, OneVisited
<1>. QED
  BY <1>1, <1>4, <1>5

\* A clause that is skipped has a true literal: its blocker.
LEMMA SkipDone ==
    ASSUME IInv, HeadInv, BlockerInv, DoneInv, [Next]_svars, SkipClause, NEW cr \in clauses \cup learnts,
           cr \in clauses' \cup learnts', NEW i, OldPlace(i)
    PROVE  DoneNext(cr, i)
<1>. DEFINE w == Head(visiting.todo)
<1>1. /\ pc = "long" /\ visiting.todo # <<>> /\ UNCHANGED <<trail_lim, qhead, ca, trail, pc>>
      /\ isTrue(w.blocker) /\ visiting' = [visiting EXCEPT !.todo = Tail(@)]
  BY DEF SkipClause, UnchangedByPropagate
<1>2. w.blocker \in ToSet(lits(w.cref))
  BY <1>1, HeadComes, StoredParts DEF AllWithin, Within
<1>3. cr = w.cref => \E j \in DOMAIN trail' : trail'[j].lit \in ToSet(ca'[cr].lits)
  BY <1>1, <1>2 DEF isTrue, lits
<1>4. MoveWatch => ~ (cr = w.cref)
  BY <1>1 DEF MoveWatch
<1>. QED
  BY <1>1, <1>3, <1>4, OneVisited

\* A clause whose watcher is kept has a true first literal afterwards, unless it
\* is in conflict.
LEMMA KeepDone ==
    ASSUME IInv, HeadInv, DoneInv, [Next]_svars, KeepWatch, NEW cr \in clauses \cup learnts,
           cr \in clauses' \cup learnts', NEW i, OldPlace(i)
    PROVE  DoneNext(cr, i)
<1>. DEFINE w == Head(visiting.todo)
            d == w.cref
            l == Turned(d)[1]
<1>1. /\ pc = "long" /\ visiting.todo # <<>> /\ UNCHANGED trail_lim /\ OrderInv
      /\ \/ confl' = d /\ pc' = caller
         \/ /\ ~ isFalse(l)
            /\ IF isUndef(l) THEN uncheckedEnqueue(l, d) ELSE UNCHANGED trail
            /\ visiting' = [visiting EXCEPT !.todo = Tail(@)] /\ UNCHANGED <<pc, qhead>>
  BY DEF KeepWatch, UnchangedByPropagate, IInv
<1>2. PICK c : Rewrites(d, c) /\ c.lits = Turned(d)
  BY KeepRewrites
<1>3. d \in CRefs
  BY <1>1, HeadComes DEF WatcherRecords
<1>4. ~ MoveWatch
  <2>1. isTrue(l) \/ Replacements(Turned(d)) = {}
    BY DEF KeepWatch
  <2>2. MoveWatch => ~ isTrue(l) /\ \E k \in Replacements(Turned(d)) : TRUE
    BY DEF MoveWatch
  <2>. QED
    BY <2>1, <2>2
<1>5. CASE confl' = d /\ pc' = caller
  <2>1. confl' # CRef_Undef
    BY <1>3, <1>5 DEF CRefs, CRef_Undef
  <2>2. pc' \in {"added", "search", "simplify"}
    BY <1>5 DEF IInv, ControlInv
  <2>3. ~ Calm'
    BY <2>1, <2>2 DEF Calm, Propagating
  <2>. QED
    BY <1>1, <1>4, <2>3, NotCalmNext
<1>6. CASE /\ ~ isFalse(l)
           /\ IF isUndef(l) THEN uncheckedEnqueue(l, d) ELSE UNCHANGED trail
           /\ visiting' = [visiting EXCEPT !.todo = Tail(@)] /\ UNCHANGED <<pc, qhead>>
  <2>1. \E j \in DOMAIN trail' : trail'[j].lit = l
    <3>. HIDE DEF l, d
    <3>. QED
      BY <1>1, <1>6, TrueNext
  <2>2. ca'[d].lits = Turned(d)
    BY <1>2, RewriteFacts DEF IInv
  <2>3. l \in ToSet(Turned(d))
    <3>1. Turned(d) \in Seq(Lits) /\ Len(Turned(d)) = Len(lits(d)) /\ Len(lits(d)) > 2
          /\ lits(d) \in Seq(Lits) /\ DOMAIN Turned(d) = 1 .. Len(Turned(d))
      BY <1>1, VisitedLong
    <3>. DEFINE N == Len(lits(d))
    <3>2. N \in Nat /\ N > 2 /\ DOMAIN Turned(d) = 1 .. N
      BY <3>1
    <3>. HIDE DEF N
    <3>3. 1 \in DOMAIN Turned(d)
      BY <3>2
    <3>. QED
      BY <3>3 DEF ToSet
  <2>4. cr = d => \E j \in DOMAIN trail' : trail'[j].lit \in ToSet(ca'[cr].lits)
    <3>. HIDE DEF l, d
    <3>. QED
      BY <2>1, <2>2, <2>3
  <2>. QED
    BY <1>1, <1>4, <1>6, <2>4, OneVisited
<1>. QED
  BY <1>1, <1>5, <1>6

\* The literal moved away was not false, so the clause is settled where it was.
LEMMA MoveDone ==
    ASSUME IInv, HeadInv, DoneInv, [Next]_svars, MoveWatch, NEW cr \in clauses \cup learnts,
           cr \in clauses' \cup learnts', NEW i, OldPlace(i)
    PROVE  DoneNext(cr, i)
<1>. DEFINE w == Head(visiting.todo)
            d == w.cref
            ps == Turned(d)
<1>1. /\ pc = "long" /\ visiting.todo # <<>> /\ UNCHANGED <<trail, trail_lim, qhead, pc>>
      /\ visiting' = [visiting EXCEPT !.todo = Tail(@)]
  BY DEF MoveWatch, UnchangedByPropagate
<1>2. CASE cr # d
  BY <1>1, <1>2, OneVisited
<1>3. CASE cr = d
  <2>1. PICK c : \E k \in 3 .. Len(ps) :
              /\ Rewrites(d, c) /\ c.lits[1] = ps[1] /\ c.lits[2] = ps[k] /\ ps[2] = -visiting.p
              /\ {ps[1], ps[2]} = {lits(d)[1], lits(d)[2]} /\ ~ isFalse(ps[k]) /\ ps[k] \in Lits /\ ps[1] \in Lits
    BY MoveRewrites
  <2>2. PICK k \in 3 .. Len(ps) :
              /\ Rewrites(d, c) /\ c.lits[1] = ps[1] /\ c.lits[2] = ps[k] /\ ps[2] = -visiting.p
              /\ {ps[1], ps[2]} = {lits(d)[1], lits(d)[2]} /\ ~ isFalse(ps[k]) /\ ps[k] \in Lits /\ ps[1] \in Lits
    BY <2>1
  <2>3. ps[1] # ps[2]
    BY <1>1, VisitedLong
  <2>4. ca'[d] = c
    BY <2>2, RewriteFacts DEF IInv
  <2>. HIDE DEF ps, d, w
  <2>5. SUFFICES ASSUME -trail'[i].lit \in TwoNext(cr), SettledNext(i, cr)
                 PROVE  HelpedNext(cr, trail'[i].level)
    BY DEF DoneNext
  <2>6. i \in DOMAIN trail /\ trail'[i] = trail[i] /\ trail[i].lit \in Lits
    BY <1>1 DEF OldPlace, IInv, LevelsInv, NLits
  <2>7. -trail[i].lit = ps[1]
    <3>1. -trail[i].lit \in {ps[1], ps[k]}
      BY <1>3, <2>2, <2>4, <2>5, <2>6 DEF TwoNext
    <3>2. -trail[i].lit # ps[k]
      <4>1. -(-trail[i].lit) = trail[i].lit
        BY <2>6, LitsFacts
      <4>. QED
        BY <2>2, <2>6, <4>1 DEF isFalse, isTrue
    <3>. QED
      BY <3>1, <3>2
  <2>8. -trail[i].lit \in FirstTwo(cr)
    BY <1>3, <2>2, <2>7 DEF FirstTwo
  <2>9. i # qhead
    <3>1. trail[qhead].lit = visiting.p
      BY <1>1, TopHead
    <3>. QED
      BY <2>2, <2>3, <2>7, <3>1
  <2>10. Settled(i, cr)
    <3>1. Calm
      BY <1>1 DEF Calm, Propagating
    <3>. QED
      BY <1>1, <2>5, <2>6, <2>9, <3>1 DEF SettledNext, Settled, decisionLevel
  <2>. QED
    BY <2>8, <2>10, DoneKept
<1>. QED
  BY <1>2, <1>3

\* The binary clauses have been visited, or all of the long ones.
LEMMA PartDone ==
    ASSUME IInv, HeadInv, DoneInv, [Next]_svars, StartLong \/ EndLong, NEW cr \in clauses \cup learnts,
           cr \in clauses' \cup learnts', NEW i, OldPlace(i)
    PROVE  DoneNext(cr, i)
<1>1. /\ visiting.todo = <<>> /\ UNCHANGED <<trail, trail_lim, qhead, ca>> /\ ~ MoveWatch
      /\ pc \in {"binary", "long"}
  BY DEF StartLong, EndLong, UnchangedByPropagate, MoveWatch
<1>2. Calm
  BY <1>1 DEF Calm, Propagating
<1>3. SUFFICES ASSUME -trail'[i].lit \in TwoNext(cr), SettledNext(i, cr), ~ Settled(i, cr)
               PROVE  FALSE
  <2>1. CASE SettledNext(i, cr) => Settled(i, cr)
    BY <1>1, <2>1, DoneStays
  <2>2. CASE ~ (-trail'[i].lit \in TwoNext(cr))
    BY <2>2 DEF DoneNext
  <2>. QED
    BY <1>3, <2>1, <2>2
<1>4. i = qhead /\ Waiting(cr) /\ ~ WaitingNext(cr)
  BY <1>1, <1>2, <1>3 DEF Settled, SettledNext, OldPlace, StaysAt, decisionLevel
<1>5. Refs(visiting.todo) = {}
  BY <1>1 DEF Refs
<1>6. CASE EndLong
  BY <1>4, <1>5, <1>6 DEF EndLong, Waiting
<1>7. CASE StartLong
  <2>1. /\ pc = "binary" /\ pc' = "long" /\ visiting' = [visiting EXCEPT !.todo = watches[visiting.p]]
    BY <1>7 DEF StartLong
  <2>2. visiting = [p |-> visiting.p, todo |-> visiting.todo] /\ WatchInv /\ CoverInv
    BY VisitingType DEF IInv
  <2>3. Len(lits(cr)) > 2
    BY <1>4, <1>5, <2>1 DEF Waiting
  <2>4. trail[i].lit = visiting.p /\ visiting.p \in Lits
    BY <1>1, <1>4, TopHead
  <2>5. PICK k \in {1, 2} : lits(cr)[k] = -visiting.p
    <3>1. trail'[i].lit = visiting.p /\ TwoNext(cr) = {lits(cr)[1], lits(cr)[2]}
      BY <1>1, <2>4 DEF TwoNext, lits
    <3>. QED
      BY <1>3, <3>1
  <2>6. cr \in Refs(IF Len(lits(cr)) = 2 THEN watchesBin[-lits(cr)[k]] ELSE ListOf(-lits(cr)[k]))
    BY <2>2 DEF CoverInv
  <2>7. -lits(cr)[k] = visiting.p
    BY <2>4, <2>5, LitsFacts
  <2>8. Len(lits(cr)) # 2
    <3>. DEFINE N == Len(lits(cr))
    <3>1. N > 2
      BY <2>3
    <3>. HIDE DEF N
    <3>2. N # 2
      BY <3>1
    <3>. QED
      BY <3>2 DEF N
  <2>9. cr \in Refs(watches[visiting.p])
    BY <2>1, <2>2, <2>4, <2>6, <2>7, <2>8, PlainLists
  <2>10. visiting'.todo = watches[visiting.p]
    BY <2>1, <2>2
  <2>. QED
    BY <1>4, <2>1, <2>9, <2>10 DEF WaitingNext
<1>. QED
  BY <1>6, <1>7

-----------------------------------------------------------------------------
(***************************************************************************)
(* Progress: the other steps.                                              *)
(***************************************************************************)

\* The clauses of the next literal are those that wait.
LEMMA DequeueDone ==
    ASSUME IInv, DoneInv, [Next]_svars, Dequeue, NEW cr \in clauses \cup learnts,
           cr \in clauses' \cup learnts', NEW i, OldPlace(i)
    PROVE  DoneNext(cr, i)
<1>1. /\ pc = "propagate" /\ pc' = "binary" /\ qhead' = qhead + 1 /\ qhead < Len(trail)
      /\ UNCHANGED <<trail, trail_lim, ca>> /\ ~ MoveWatch
      /\ visiting' = [p |-> trail[qhead + 1].lit, todo |-> watchesBin'[trail[qhead + 1].lit]]
  BY DEF Dequeue, UnchangedByPropagate, MoveWatch
<1>2. Calm
  BY <1>1 DEF Calm, Propagating
<1>3. SUFFICES ASSUME -trail'[i].lit \in TwoNext(cr), SettledNext(i, cr), ~ Settled(i, cr)
               PROVE  FALSE
  <2>1. CASE SettledNext(i, cr) => Settled(i, cr)
    BY <1>1, <2>1, DoneStays
  <2>2. CASE ~ (-trail'[i].lit \in TwoNext(cr))
    BY <2>2 DEF DoneNext
  <2>. QED
    BY <1>3, <2>1, <2>2
<1>4. i \in Int /\ qhead \in Int /\ i \in DOMAIN trail
  <2>1. DOMAIN trail = 1 .. Len(trail) /\ qhead \in 0 .. Len(trail)
    BY TrailFacts DEF IInv, QueueInv
  <2>. QED
    BY <2>1 DEF OldPlace
<1>5. ~ Waiting(cr)
  BY <1>1 DEF Waiting
<1>6. i = qhead + 1 /\ ~ WaitingNext(cr)
  <2>1. i <= qhead' /\ ~ (i = qhead' /\ WaitingNext(cr)) /\ ~ i <= qhead
    BY <1>1, <1>2, <1>3, <1>5 DEF Settled, SettledNext, OldPlace, StaysAt, decisionLevel
  <2>. QED
    BY <1>1, <1>4, <2>1
<1>. DEFINE p == trail[qhead + 1].lit
<1>7. p \in Lits /\ -(-p) = p
  BY <1>4, <1>6, LitsFacts DEF IInv, LevelsInv, NLits
<1>8. PICK k \in {1, 2} : ca'[cr].lits[k] = -p
  BY <1>1, <1>3, <1>6 DEF TwoNext
<1>9. CoversIn(ca', LongLists', watchesBin', clauses' \cup learnts') /\ ClausesInv'
  BY WatchStep, ClausesStep, UseStep, NextCoverParts DEF IInv
<1>10. CoveredIn(ca', LongLists', watchesBin', cr, k)
  BY <1>9 DEF CoversIn
<1>11. Len(ca'[cr].lits) = 2
  <2>1. ~ Len(ca'[cr].lits) > 2
    BY <1>1, <1>6 DEF WaitingNext
  <2>2. cr \in DOMAIN ca'
    BY UseStep DEF IInv, UseInv, InUse
  <2>3. Len(ca'[cr].lits) \in Nat /\ Len(ca'[cr].lits) >= 2
    <3>1. cr \in DOMAIN ca /\ ca'[cr].lits = lits(cr)
      BY <1>1, <2>2 DEF lits
    <3>. QED
      BY <3>1, ClauseFacts DEF IInv
  <2>. DEFINE N == Len(ca'[cr].lits)
  <2>4. N \in Nat /\ N >= 2 /\ ~ N > 2
    BY <2>1, <2>3
  <2>. HIDE DEF N
  <2>5. N = 2
    BY <2>4
  <2>. QED
    BY <2>5 DEF N
<1>12. cr \in Refs(watchesBin'[p])
  BY <1>7, <1>8, <1>10, <1>11 DEF CoveredIn
<1>13. visiting'.todo = watchesBin'[p]
  BY <1>1
<1>. QED
  BY <1>1, <1>6, <1>12, <1>13 DEF WaitingNext

\* Steps that neither visit nor decide.
LEMMA StillDone ==
    ASSUME IInv, DoneInv, [Next]_svars, NEW cr \in clauses \cup learnts, cr \in clauses' \cup learnts',
           NEW i, OldPlace(i), UNCHANGED <<trail_lim, qhead>>, pc \notin {"binary", "long"}, Calm' => Calm
    PROVE  DoneNext(cr, i)
<1>1. ~ MoveWatch /\ ~ Waiting(cr)
  BY DEF MoveWatch, Waiting
<1>2. SettledNext(i, cr) => Settled(i, cr)
  BY <1>1 DEF SettledNext, Settled, OldPlace, StaysAt, decisionLevel
<1>. QED
  BY <1>1, <1>2, DoneStays

\* Steps outside the visits do not begin a calm phase.
LEMMA CalmBefore ==
    ASSUME IInv, OkInv, PendingInv, [Next]_svars,
           \/ newVar \/ callSimplify \/ solve \/ addClause \/ Added \/ Propagated \/ CheckGarbage \/ Return
           \/ SearchConflict \/ Analyze \/ Minimise \/ litRedundant \/ Shorten
           \/ Restart \/ NoConflict \/ SimplifyReturns \/ Simplify \/ KeepLearnts \/ NothingToReduce \/ reduceDB
           \/ AssumptionFails \/ AnalyzeFinal \/ FinalAnalyzed \/ ModelFound
    PROVE  pc \notin {"binary", "long"} /\ (Calm' => Calm)
<1>0. ControlInv
  BY DEF IInv
<1>1. CASE newVar \/ callSimplify \/ solve \/ addClause
  <2>1. pc = "idle"
    BY <1>1 DEF newVar, callSimplify, solve, addClause, addClauseThen
  <2>2. Calm' => ok
    <3>1. CASE newVar
      BY <3>1 DEF newVar, Calm, Propagating
    <3>2. CASE callSimplify
      BY <3>2 DEF callSimplify, Calm, Propagating
    <3>3. CASE solve
      <4>1. UNCHANGED ok /\ (pc' = "return" \/ ok)
        BY <3>3 DEF solve, solve_
      <4>. QED
        BY <4>1 DEF Calm, Propagating
    <3>4. CASE addClause
      <4>1. ok \/ (UNCHANGED ok /\ pc' = "idle")
        BY <3>4 DEF addClause, addClauseThen, addClause_
      <4>. QED
        BY <4>1 DEF Calm, Propagating
    <3>. QED
      BY <1>1, <3>1, <3>2, <3>3, <3>4
  <2>. QED
    BY <2>1, <2>2 DEF Calm
<1>2. CASE Added
  BY <1>0, <1>2 DEF Added, Calm, Propagating, ControlInv
<1>3. CASE Propagated \/ CheckGarbage
  BY <1>3 DEF Propagated, CheckGarbage, Calm, Propagating
<1>4. CASE Return
  BY <1>4 DEF Return, Returned, Calm, Propagating
<1>5. CASE SearchConflict
  <2>1. pc = "search" /\ UNCHANGED conflict /\ (pc' = "analyze" \/ (pc' = "return" /\ status' = "false"))
    BY <1>5 DEF SearchConflict, Leave
  <2>2. conflict = {}
    BY <2>1 DEF PendingInv, Busy
  <2>. QED
    BY <2>1, <2>2 DEF Calm, Propagating
<1>6. CASE Analyze \/ Minimise \/ litRedundant \/ Shorten
  BY <1>6 DEF Analyze, Minimise, litRedundant, Shorten, Calm, Propagating
<1>7. CASE Restart \/ NoConflict \/ KeepLearnts \/ NothingToReduce \/ reduceDB \/ Simplify
  BY <1>7 DEF Restart, NoConflict, KeepLearnts, NothingToReduce, reduceDB, Simplify, Calm, Propagating
<1>8. CASE SimplifyReturns
  BY <1>0, <1>8 DEF SimplifyReturns, Leave, Calm, Propagating, ControlInv
<1>9. CASE AssumptionFails \/ AnalyzeFinal \/ FinalAnalyzed \/ ModelFound
  BY <1>9 DEF AssumptionFails, AnalyzeFinal, FinalAnalyzed, ModelFound, Calm, Propagating
<1>. QED
  BY <1>1, <1>2, <1>3, <1>4, <1>5, <1>6, <1>7, <1>8, <1>9

\* After the jump back what is left was below the current level.
LEMMA LearnDone ==
    ASSUME IInv, DoneInv, [Next]_svars, Learn, NEW cr \in clauses' \cup learnts', NEW i, OldPlace(i)
    PROVE  DoneNext(cr, i)
<1>0. OrderInv /\ LevelsInv /\ ~ MoveWatch /\ pc = "learn"
  BY DEF IInv, MoveWatch, Learn
<1>1. PICK lev \in Nat : \E from \in CRefs \cup {CRef_Undef} :
         /\ lev < decisionLevel /\ Learns(lev, an.out[1], from)
         /\ \/ Len(an.out) = 1
            \/ Len(an.out) > 1 /\ lev = level(an.out[2])
  BY LearnSteps DEF LearnStep
<1>2. PICK from \in CRefs \cup {CRef_Undef} : Learns(lev, an.out[1], from)
  BY <1>1
<1>3. /\ LimitOf(lev) \in 0 .. Len(trail)
      /\ DOMAIN trail' = 1 .. LimitOf(lev) + 1
      /\ \A j \in 1 .. LimitOf(lev) : j \in DOMAIN trail /\ trail'[j] = trail[j]
      /\ trail'[LimitOf(lev) + 1].lit = an.out[1]
      /\ trail'[LimitOf(lev) + 1].level = lev
  BY <1>0, <1>2, LearnsFacts
<1>4. decisionLevel' = lev /\ decisionLevel \in Nat
  BY <1>0, <1>1, <1>2, BacktrackFacts, TrailFacts DEF Learns
<1>5. trail[i].level \in Nat /\ trail'[i].level = trail[i].level /\ trail[i].level <= lev
  <2>1. trail[i].level \in Nat /\ trail'[i].level = trail[i].level /\ i \in DOMAIN trail
    BY <1>0, <1>4 DEF OldPlace, StaysAt, LevelsInv
  <2>2. trail'[i].level \in 0 .. lev
    BY <1>4, LevelsStep DEF LevelsInv, OldPlace, StaysAt
  <2>. QED
    BY <2>1, <2>2
<1>6. CASE cr \in clauses \cup learnts
  <2>1. trail[i].level < decisionLevel
    BY <1>1, <1>4, <1>5
  <2>2. Settled(i, cr)
    BY <2>1 DEF Settled
  <2>. QED
    BY <1>0, <1>6, <2>2, DoneStays
<1>7. CASE cr \notin clauses \cup learnts
  <2>1. PICK c \in CRefs : Allocates(c, an.out, TRUE, an.lbd) /\ learnts' = learnts \cup {c} /\ UNCHANGED clauses
    BY <1>7, LearnAllocates DEF database
  <2>2. cr = c
    BY <1>7, <2>1
  <2>3. ca'[cr].lits = an.out /\ an.out \in Seq(Lits) /\ Len(an.out) >= 2
    BY <2>1, <2>2, AllocFacts DEF Allocates, GoodClause
  <2>. DEFINE N == Len(an.out)
  <2>4. N \in Nat /\ DOMAIN an.out = 1 .. N /\ N >= 2 /\ N # 1
    <3>1. N \in Nat /\ DOMAIN an.out = 1 .. N /\ N >= 2
      BY <2>3
    <3>. HIDE DEF N
    <3>. QED
      BY <3>1
  <2>5. lev = level(an.out[2])
    BY <1>1, <2>4
  <2>6. OutGood(an.out)
    BY <1>0 DEF IInv, MinimiseInv
  <2>. HIDE DEF N
  <2>7. 1 \in DOMAIN an.out /\ 2 \in DOMAIN an.out /\ 2 \in 2 .. N
    BY <2>4
  <2>8. PICK j \in DOMAIN trail : trail[j].lit = -an.out[2]
    BY <2>6, <2>7 DEF OutGood, TrueAt, N
  <2>9. trail[j].level = lev
    <3>1. level(an.out[2]) = trail[j].level
      BY <1>0, <2>3, <2>7, <2>8, FalseFacts
    <3>. QED
      BY <2>5, <3>1
  <2>10. PICK h \in DOMAIN trail : trail[h].lit = -an.out[1] /\ trail[h].level = decisionLevel
    BY <2>6 DEF OutGood, TrueAt, Top
  <2>11. SUFFICES ASSUME -trail'[i].lit \in TwoNext(cr)
                  PROVE  HelpedNext(cr, trail'[i].level)
    BY DEF DoneNext
  <2>12. i \in DOMAIN trail /\ trail'[i].lit = trail[i].lit /\ trail[i].lit \in Lits
    BY <1>0 DEF OldPlace, StaysAt, LevelsInv, NLits
  <2>13. trail[i].lit = -an.out[1] \/ trail[i].lit = -an.out[2]
    <3>1. -trail[i].lit = an.out[1] \/ -trail[i].lit = an.out[2]
      BY <2>3, <2>11, <2>12 DEF TwoNext
    <3>2. -(-trail[i].lit) = trail[i].lit
      BY <2>12, LitsFacts
    <3>. QED
      BY <3>1, <3>2
  <2>14. trail[i].lit # -an.out[1]
    <3>1. SUFFICES ASSUME trail[i].lit = trail[h].lit  PROVE FALSE
      BY <2>10
    <3>2. i = h
      BY <1>0, <2>12, <3>1 DEF LevelsInv
    <3>. QED
      BY <1>1, <1>4, <1>5, <2>10, <3>2
  <2>15. i = j
    BY <1>0, <2>8, <2>12, <2>13, <2>14 DEF LevelsInv
  <2>16. trail'[i].level = lev
    BY <1>5, <2>9, <2>15
  <2>17. LimitOf(lev) + 1 \in DOMAIN trail' /\ an.out[1] \in ToSet(ca'[cr].lits)
    BY <1>3, <2>3, <2>7 DEF ToSet
  <2>18. trail'[LimitOf(lev) + 1].level <= trail'[i].level
    BY <1>3, <2>16
  <2>. QED
    BY <1>3, <2>17, <2>18 DEF HelpedNext
<1>. QED
  BY <1>6, <1>7

\* A restart, or the end of a call.
LEMMA TakenOffDone ==
    ASSUME IInv, OkInv, PendingInv, DoneInv, [Next]_svars, Restart \/ Return, NEW cr \in clauses \cup learnts,
           cr \in clauses' \cup learnts', NEW i, OldPlace(i)
    PROVE  DoneNext(cr, i)
<1>0. OrderInv /\ LevelsInv /\ decisionLevel \in Nat
  BY TrailFacts DEF IInv
<1>1. Backtrack(0) /\ ~ MoveWatch /\ pc \notin {"binary", "long"} /\ (Calm' => Calm)
  BY CalmBefore DEF Restart, Return, Returned, cancelUntil, MoveWatch
<1>2. decisionLevel' = 0
  BY <1>0, <1>1, BacktrackFacts
<1>3. trail'[i].level = trail[i].level /\ trail[i].level = 0
  <2>1. trail'[i].level \in 0 .. 0
    BY <1>2, LevelsStep DEF LevelsInv, OldPlace, StaysAt
  <2>. QED
    BY <2>1 DEF OldPlace, StaysAt
<1>4. CASE decisionLevel > 0
  <2>1. Settled(i, cr)
    BY <1>3, <1>4 DEF Settled
  <2>. QED
    BY <1>1, <2>1, DoneStays
<1>5. CASE decisionLevel = 0
  <2>1. qhead' = qhead
    BY <1>1, <1>5 DEF Backtrack
  <2>2. SettledNext(i, cr) => Settled(i, cr)
    BY <1>1, <1>2, <1>3, <2>1 DEF SettledNext, Settled, Waiting
  <2>. QED
    BY <1>1, <2>2, DoneStays
<1>. QED
  BY <1>0, <1>4, <1>5

\* A decision is made when all is settled.
LEMMA DecideDone ==
    ASSUME IInv, DoneInv, [Next]_svars, DummyLevel \/ Assume \/ PickBranchLit, NEW cr \in clauses \cup learnts,
           cr \in clauses' \cup learnts', NEW i, OldPlace(i)
    PROVE  DoneNext(cr, i)
<1>1. pc = "decide"
  BY DEF DummyLevel, Assume, PickBranchLit
<1>2. qhead = Len(trail) /\ DOMAIN trail = 1 .. Len(trail) /\ Calm /\ ~ MoveWatch /\ ~ Waiting(cr)
  BY <1>1, TrailFacts DEF IInv, QueueInv, Calm, MoveWatch, Waiting
<1>3. i <= qhead
  BY <1>2 DEF OldPlace
<1>4. Settled(i, cr)
  BY <1>2, <1>3 DEF Settled
<1>. QED
  BY <1>2, <1>4, DoneStays

\* A clause added has no assigned literal, so nothing that it watches is false.
LEMMA AddDone ==
    ASSUME IInv, DoneInv, OkInv, PendingInv, [Next]_svars, addClause, NEW cr \in clauses' \cup learnts',
           NEW i, OldPlace(i)
    PROVE  DoneNext(cr, i)
<1>0. UNCHANGED <<trail_lim, qhead>> /\ UseInv'
  BY UseStep DEF addClause, addClauseThen, UnchangedByAdd, IInv
<1>1. CASE cr \in clauses \cup learnts
  <2>1. pc \notin {"binary", "long"} /\ (Calm' => Calm)
    BY CalmBefore
  <2>. QED
    BY <1>0, <1>1, <2>1, StillDone
<1>2. CASE cr \notin clauses \cup learnts
  <2>1. PICK c \in CRefs : /\ c \notin DOMAIN ca /\ clauses' = clauses \cup {c} /\ UNCHANGED <<learnts, trail>>
                           /\ \A k \in DOMAIN ca'[c].lits : isUndef(ca'[c].lits[k])
    BY <1>2, AddedClause
  <2>2. cr = c
    BY <1>2, <2>1
  <2>3. ClausesInv' /\ cr \in DOMAIN ca'
    BY <1>0, ClausesStep DEF IInv, UseInv, InUse
  <2>4. 1 \in DOMAIN ca'[cr].lits /\ 2 \in DOMAIN ca'[cr].lits
        /\ ca'[cr].lits[1] \in Lits /\ ca'[cr].lits[2] \in Lits
    <3>1. ca'[cr].lits \in Seq(Lits) /\ Len(ca'[cr].lits) >= 2
      BY <2>3 DEF ClausesInv, ClauseRecords, lits
    <3>. QED
      BY <3>1
  <2>5. SUFFICES ASSUME -trail'[i].lit \in TwoNext(cr)  PROVE FALSE
    BY DEF DoneNext
  <2>6. PICK k \in {1, 2} : ca'[cr].lits[k] = -trail'[i].lit
    BY <2>5 DEF TwoNext
  <2>7. i \in DOMAIN trail /\ trail'[i].lit = trail[i].lit /\ trail[i].lit \in Lits
    BY DEF OldPlace, StaysAt, IInv, LevelsInv, NLits
  <2>8. isFalse(ca'[cr].lits[k])
    <3>1. -(-trail[i].lit) = trail[i].lit
      BY <2>7, LitsFacts
    <3>. QED
      BY <2>6, <2>7, <3>1 DEF isFalse, isTrue
  <2>9. isUndef(ca'[cr].lits[k])
    BY <2>1, <2>2, <2>4
  <2>. QED
    BY <2>8, <2>9 DEF isUndef
<1>. QED
  BY <1>1, <1>2

-----------------------------------------------------------------------------
(***************************************************************************)
(* Propagation misses nothing.                                             *)
(***************************************************************************)

\* Steps that leave alone all that DoneInv speaks of.
LEMMA SameDone ==
    ASSUME IInv, DoneInv, [Next]_svars, interrupt \/ UNCHANGED svars, NEW cr \in clauses \cup learnts,
           cr \in clauses' \cup learnts', NEW i, OldPlace(i)
    PROVE  DoneNext(cr, i)
<1>1. UNCHANGED <<pc, visiting, confl, ok, status, conflict, ca, trail, trail_lim, qhead>>
  BY DEF interrupt, svars, database, assignment, result, user
<1>2. TwoNext(cr) = FirstTwo(cr)
  BY <1>1 DEF TwoNext, FirstTwo, lits
<1>3. WaitingNext(cr) <=> Waiting(cr)
  BY <1>1 DEF WaitingNext, Waiting, lits
<1>4. Calm' <=> Calm
  BY <1>1 DEF Calm, Propagating
<1>5. SettledNext(i, cr) => Settled(i, cr)
  BY <1>1, <1>3, <1>4 DEF SettledNext, Settled, decisionLevel
<1>6. trail'[i].lit = trail[i].lit
  BY <1>1
<1>. QED
  BY <1>2, <1>5, <1>6, DoneKept DEF DoneNext

\* DoneInv is kept, for clauses that were in use and literals that were on the
\* trail.
LEMMA OldDone ==
    ASSUME PInv, [Next]_svars, NEW cr \in clauses \cup learnts, cr \in clauses' \cup learnts',
           NEW i, OldPlace(i)
    PROVE  DoneNext(cr, i)
<1>0. IInv /\ OkInv /\ PendingInv /\ HeadInv /\ BlockerInv /\ DoneInv
  BY DEF PInv
<1>1. CASE \/ newVar \/ callSimplify \/ solve \/ Added \/ SearchConflict \/ NoConflict \/ SimplifyReturns
           \/ CheckGarbage \/ KeepLearnts \/ NothingToReduce \/ reduceDB \/ Analyze \/ Minimise \/ litRedundant
           \/ Shorten \/ AssumptionFails \/ AnalyzeFinal \/ FinalAnalyzed \/ ModelFound
  <2>1. UNCHANGED <<trail_lim, qhead>>
    BY <1>0, <1>1, StillSteps DEF Still
  <2>2. pc \notin {"binary", "long"} /\ (Calm' => Calm)
    BY <1>0, <1>1, CalmBefore
  <2>. QED
    BY <1>0, <2>1, <2>2, StillDone
<1>2. CASE Propagated \/ Simplify
  <2>1. UNCHANGED <<trail_lim, qhead>>
    BY <1>2 DEF Propagated, UnchangedByPropagate, Simplify
  <2>2. pc \notin {"binary", "long"} /\ (Calm' => Calm)
    BY <1>0, <1>2, CalmBefore
  <2>. QED
    BY <1>0, <2>1, <2>2, StillDone
<1>3. CASE addClause
  BY <1>0, <1>3, AddDone
<1>4. CASE Dequeue
  BY <1>0, <1>4, DequeueDone
<1>5. CASE VisitBinary
  BY <1>0, <1>5, BinaryDone
<1>6. CASE SkipClause
  BY <1>0, <1>6, SkipDone
<1>7. CASE KeepWatch
  BY <1>0, <1>7, KeepDone
<1>8. CASE MoveWatch
  BY <1>0, <1>8, MoveDone
<1>9. CASE StartLong \/ EndLong
  BY <1>0, <1>9, PartDone
<1>10. CASE Learn
  BY <1>0, <1>10, LearnDone
<1>11. CASE Restart \/ Return
  BY <1>0, <1>11, TakenOffDone
<1>12. CASE DummyLevel \/ Assume \/ PickBranchLit
  BY <1>0, <1>12, DecideDone
<1>13. CASE interrupt \/ UNCHANGED svars
  BY <1>0, <1>13, SameDone
<1>. QED
  BY <1>1, <1>2, <1>3, <1>4, <1>5, <1>6, <1>7, <1>8, <1>9, <1>10, <1>11, <1>12, <1>13
  DEF Next, Step, User, Search, Propagate

\* A step keeps DoneInv.
LEMMA DoneStep ==
    ASSUME PInv, [Next]_svars
    PROVE  DoneInv'
<1>0. IInv /\ OkInv /\ PendingInv /\ DoneInv
  BY DEF PInv
<1>1. SUFFICES ASSUME NEW cr \in clauses' \cup learnts', NEW i \in DOMAIN trail'  PROVE DoneNext(cr, i)
  BY NextDone
<1>2. CASE ~ OldPlace(i)
  <2>1. trail'[i].level = decisionLevel' /\ i > qhead'
    BY <1>0, <1>2, OldPlaces
  <2>2. qhead' \in Int /\ decisionLevel' \in Int /\ i \in Int
    <3>1. OrderInv'
      BY <1>0, OrderStep DEF IInv
    <3>2. DOMAIN trail' \subseteq Int
      BY <3>1 DEF OrderInv, TrailInv, IsSeq
    <3>3. decisionLevel' \in Int
      <4>1. trail_lim' \in Seq(Nat)
        BY <3>1 DEF OrderInv, LimitsInv
      <4>. QED
        BY <4>1 DEF decisionLevel
    <3>4. qhead' \in Nat
      BY <1>0, HeadBound
    <3>. QED
      BY <1>1, <3>2, <3>3, <3>4
  <2>3. ~ SettledNext(i, cr)
    BY <2>1, <2>2 DEF SettledNext
  <2>. QED
    BY <2>3 DEF DoneNext
<1>3. CASE OldPlace(i) /\ cr \in clauses \cup learnts
  BY <1>3, OldDone
<1>4. CASE OldPlace(i) /\ cr \notin clauses \cup learnts
  <2>1. addClause \/ Learn
    BY <1>0, <1>4, UsedBefore
  <2>. QED
    BY <1>0, <1>4, <2>1, AddDone, LearnDone
<1>. QED
  BY <1>2, <1>3, <1>4

\* PInv is inductive.
LEMMA PInvStep ==
    ASSUME PInv, [Next]_svars
    PROVE  PInv'
<1>0. IInv /\ OkInv /\ PendingInv /\ HeadInv /\ BlockerInv /\ DoneInv
  BY DEF PInv
<1>1. IInv' /\ OkInv' /\ PendingInv'
  BY <1>0, IInvStep, OkStep, PendingStep
<1>2. HeadInv'
  BY <1>0, HeadStep
<1>3. BlockerInv'
  BY <1>0, BlockerStep
<1>4. DoneInv'
  BY DoneStep
<1>. QED
  BY <1>1, <1>2, <1>3, <1>4 DEF PInv

\* PInv holds in the initial states.
LEMMA PInvInit == Init => PInv
<1>. SUFFICES ASSUME Init  PROVE PInv
  OBVIOUS
<1>1. IInv
  BY IInvInit
<1>2. pc = "idle" /\ ok = TRUE /\ answer = "none" /\ clauses = {} /\ learnts = {}
  BY DEF Init, InitWith
<1>3. \A l \in Lits : DOMAIN watches[l] = {}
  BY DEF Init, InitWith
<1>4. OkInv /\ PendingInv /\ HeadInv
  BY <1>2 DEF OkInv, PendingInv, Busy, Propagating, HeadInv
<1>5. BlockerInv /\ DoneInv
  BY <1>2, <1>3 DEF BlockerInv, DoneInv
<1>. QED
  BY <1>1, <1>4, <1>5 DEF PInv

\* PInv holds of every behaviour.
LEMMA ProgressInvariant == Spec => []PInv
<1>1. PInv /\ [Next]_svars => PInv'
  BY PInvStep
<1>. QED
  BY PInvInit, <1>1, PTL DEF Spec

\* When the queue is empty what is watched is not false, unless the clause is true.
LEMMA CompleteHolds == PInv => PropagationComplete
<1>. SUFFICES ASSUME PInv, pc \in {"added", "search", "simplify"}, confl = CRef_Undef,
                     NEW cr \in clauses \cup learnts, ~ satisfied(cr)
              PROVE  Cardinality({l \in ToSet(lits(cr)) : isUndef(l)}) > 1
  BY DEF PropagationComplete
<1>. DEFINE us == {l \in ToSet(lits(cr)) : isUndef(l)}
            a == lits(cr)[1]
            b == lits(cr)[2]
<1>0. ClausesInv /\ LevelsInv /\ QueueInv /\ UseInv /\ OrderInv /\ DoneInv
  BY DEF PInv, IInv
<1>1. /\ lits(cr) \in Seq(Lits) /\ Len(lits(cr)) \in Nat /\ DOMAIN lits(cr) = 1 .. Len(lits(cr))
      /\ 1 \in DOMAIN lits(cr) /\ 2 \in DOMAIN lits(cr)
      /\ \A k, m \in DOMAIN lits(cr) : lits(cr)[k] = lits(cr)[m] => k = m
  <2>1. cr \in DOMAIN ca
    BY <1>0 DEF UseInv, InUse
  <2>. QED
    BY <1>0, <2>1, ClauseFacts DEF GoodClause
<1>2. \A i \in DOMAIN trail : Settled(i, cr)
  <2>1. qhead = Len(trail) /\ DOMAIN trail = 1 .. Len(trail) /\ Len(trail) \in Nat
    BY <1>0, TrailFacts DEF QueueInv
  <2>. QED
    BY <2>1 DEF Settled, Calm, Waiting
<1>3. a \in Lits /\ b \in Lits /\ a # b /\ a \in ToSet(lits(cr)) /\ b \in ToSet(lits(cr))
  BY <1>1 DEF ToSet
<1>4. ASSUME NEW l \in {a, b}  PROVE isUndef(l)
  <2>1. ~ isTrue(l)
    BY <1>3, <1>4 DEF satisfied
  <2>2. ASSUME isFalse(l)  PROVE FALSE
    <3>1. PICK i \in DOMAIN trail : trail[i].lit = -l
      BY <2>2 DEF isFalse, isTrue
    <3>2. -trail[i].lit = l
      BY <1>3, <3>1, LitsFacts
    <3>3. Helped(cr, trail[i].level)
      BY <1>0, <1>2, <1>4, <3>2 DEF DoneInv, FirstTwo
    <3>. QED
      BY <3>3 DEF Helped, satisfied, isTrue
  <2>. QED
    BY <2>1, <2>2 DEF isUndef
<1>5. {a, b} \subseteq us
  BY <1>3, <1>4
<1>6. IsFiniteSet(us)
  <2>1. ToSet(lits(cr)) \subseteq Lits
    BY <1>1 DEF ToSet
  <2>2. us \subseteq Lits
    BY <2>1
  <2>. QED
    BY <2>2, LitsFacts, FS_Subset
<1>7. IsFiniteSet({a, b}) /\ Cardinality({a, b}) = 2
  <2>1. IsFiniteSet({a}) /\ Cardinality({a}) = 1
    BY FS_Singleton
  <2>2. IsFiniteSet({a} \cup {b}) /\ Cardinality({a} \cup {b}) = 2
    <3>1. b \notin {a}
      BY <1>3
    <3>. HIDE DEF a, b
    <3>2. IsFiniteSet({a} \cup {b}) /\ Cardinality({a} \cup {b}) = Cardinality({a}) + 1
      BY <2>1, <3>1, FS_AddElement
    <3>. QED
      BY <2>1, <3>2
  <2>3. {a} \cup {b} = {a, b}
    OBVIOUS
  <2>. QED
    BY <2>2, <2>3
<1>8. Cardinality(us) \in Nat /\ Cardinality({a, b}) <= Cardinality(us)
  BY <1>5, <1>6, FS_Subset, FS_CardinalityType
<1>. HIDE DEF us, a, b
<1>9. Cardinality(us) > 1
  BY <1>7, <1>8
<1>. QED
  BY <1>9 DEF us

\* Propagation misses nothing: for every script, when propagate returns without a
\* conflict every clause in use is satisfied or has two literals that are not assigned,
\* though watches are not restored by cancelUntil and clauses come and go.
THEOREM PropagationIsComplete == Spec => []PropagationComplete
  BY ProgressInvariant, CompleteHolds, PTL

-----------------------------------------------------------------------------
(***************************************************************************)
(* What is kept below the level that is left, and the decisions.           *)
(***************************************************************************)

\* What is at a level that is left stays where it is.
LEMMA LevelKept ==
    ASSUME IInv, [Next]_svars, NEW i \in DOMAIN trail, trail[i].level <= decisionLevel'
    PROVE  /\ StaysAt(i)
           /\ trail[i].level > 0 /\ trail[i].reason # CRef_Undef => trail'[i].reason = trail[i].reason
<1>0. /\ OrderInv /\ LevelsInv /\ Len(trail) \in Nat /\ DOMAIN trail = 1 .. Len(trail)
      /\ trail[i].level \in Nat /\ trail[i].level <= decisionLevel /\ decisionLevel \in Nat
  BY TrailFacts DEF IInv, LevelsInv
<1>1. CASE Quiet \/ DummyStep
  BY <1>1 DEF Quiet, DummyStep, StaysAt
<1>2. CASE EnqueueStep
  <2>1. PICK l, from : Enqueues(l, from)
    BY <1>2 DEF EnqueueStep
  <2>2. i \in DOMAIN trail' /\ trail'[i] = trail[i]
    BY <1>0, <2>1, EnqueueFacts
  <2>. QED
    BY <2>2 DEF StaysAt
<1>3. ASSUME NEW lev \in Nat, \A j \in 1 .. LimitOf(lev) : j \in DOMAIN trail' /\ trail'[j] = trail[j],
             trail[i].level <= lev
      PROVE  i \in DOMAIN trail' /\ trail'[i] = trail[i]
  <2>1. i <= LimitOf(lev)
    BY <1>0, <1>3, KeptLevels
  <2>2. LimitOf(lev) \in Nat
    BY <1>0, TrailFacts DEF LimitOf
  <2>3. i \in 1 .. LimitOf(lev)
    BY <1>0, <2>1, <2>2
  <2>. QED
    BY <1>3, <2>3
<1>4. CASE LearnStep
  <2>1. PICK lev \in Nat : lev < decisionLevel /\ \E from : Learns(lev, an.out[1], from)
    BY <1>4 DEF LearnStep
  <2>2. PICK from : Learns(lev, an.out[1], from)
    BY <2>1
  <2>3. /\ LimitOf(lev) \in 0 .. Len(trail)
        /\ DOMAIN trail' = 1 .. LimitOf(lev) + 1
        /\ \A j \in 1 .. LimitOf(lev) : j \in DOMAIN trail /\ trail'[j] = trail[j]
    BY <1>0, <2>2, LearnsFacts
  <2>4. decisionLevel' = lev
    BY <1>0, <2>1, <2>2, BacktrackFacts DEF Learns
  <2>5. \A j \in 1 .. LimitOf(lev) : j \in DOMAIN trail' /\ trail'[j] = trail[j]
    BY <2>3
  <2>. QED
    BY <1>3, <2>4, <2>5 DEF StaysAt
<1>5. CASE TakeOffStep
  <2>1. TakesOff(0)
    BY <1>5 DEF TakeOffStep
  <2>2. DOMAIN trail' = 1 .. LimitOf(0) /\ \A j \in DOMAIN trail' : j \in DOMAIN trail /\ trail'[j] = trail[j]
    BY <1>0, <2>1, TakesOffFacts
  <2>3. decisionLevel' = 0
    BY <1>0, <2>1, BacktrackFacts DEF TakesOff
  <2>4. \A j \in 1 .. LimitOf(0) : j \in DOMAIN trail' /\ trail'[j] = trail[j]
    BY <2>2
  <2>. QED
    BY <1>3, <2>3, <2>4 DEF StaysAt
<1>6. CASE UnreasonStep
  <2>1. PICK rs : trail' = Unreasoned(rs)
    BY <1>6 DEF UnreasonStep
  <2>2. decisionLevel = 0
    BY <1>6 DEF UnreasonStep, decisionLevel
  <2>3. trail[i].level = 0
    BY <1>0, <2>2
  <2>. QED
    BY <1>0, <2>1, <2>3, UnreasonedFacts DEF StaysAt
<1>. QED
  BY <1>1, <1>2, <1>4, <1>5, <1>6, TrailSteps

\* The literals of level 0 stay.
LEMMA ZeroKept ==
    ASSUME IInv, [Next]_svars, NEW l, TrueAt(l, {0})
    PROVE  \E i \in DOMAIN trail' : trail'[i].lit = l /\ trail'[i].level = 0
<1>1. PICK i \in DOMAIN trail : trail[i].lit = l /\ trail[i].level = 0
  BY DEF TrueAt
<1>2. 0 <= decisionLevel'
  <2>1. trail_lim' \in Seq(Nat)
    BY OrderStep DEF IInv, OrderInv, LimitsInv
  <2>. QED
    BY <2>1 DEF decisionLevel
<1>3. StaysAt(i)
  BY <1>1, <1>2, LevelKept
<1>. QED
  BY <1>1, <1>3 DEF StaysAt

\* A step keeps DecisionInv, if newVar is only called with its default.
LEMMA DecisionStep ==
    ASSUME IInv, AllDecided, DecisionInv, [Next]_svars
    PROVE  DecisionInv'
<1>1. CASE newVar
  <2>1. /\ script # <<>> /\ call.op = "newVar" /\ nVars' = nVars + 1
        /\ decision' = [decision EXCEPT ![nVars + 1] = call.dvar]
    BY <1>1 DEF newVar, Called, call
  <2>2. PICK s \in Scripts : \E i \in 0 .. Len(s) : script = SubSeq(s, i + 1, Len(s)) /\ nVars = NewVars(s, i)
    BY DEF IInv, ScriptInv
  <2>3. PICK i \in 0 .. Len(s) : script = SubSeq(s, i + 1, Len(s))
    BY <2>2
  <2>4. s \in Seq(Calls)
    BY ScriptsAssumption
  <2>5. i + 1 \in DOMAIN s /\ call = s[i + 1]
    BY <2>1, <2>3, <2>4 DEF call
  <2>6. call.dvar
    BY <2>1, <2>5 DEF AllDecided
  <2>7. decision \in [Vars -> BOOLEAN] /\ nVars \in Nat
    BY MaxVarsAssumption DEF IInv, ValuesInv
  <2>8. \A v \in Vars : decision'[v] = IF v = nVars + 1 THEN call.dvar ELSE decision[v]
    BY <2>1, <2>7
  <2>9. nVars' \in 0 .. MaxVars
    BY ValuesStep DEF ValuesInv
  <2>10. ASSUME NEW v \in 1 .. nVars'  PROVE decision'[v]
    <3>1. v \in Vars
      BY <2>9, <2>10, MaxVarsAssumption DEF Vars
    <3>2. CASE v = nVars + 1
      BY <2>6, <2>8, <3>1, <3>2
    <3>3. CASE v # nVars + 1
      <4>1. v \in 1 .. nVars
        BY <2>1, <2>7, <2>10, <3>3
      <4>. QED
        BY <2>8, <3>1, <3>3, <4>1 DEF DecisionInv
    <3>. QED
      BY <3>2, <3>3
  <2>. QED
    BY <2>10 DEF DecisionInv
<1>2. CASE UNCHANGED <<decision, nVars>>
  BY <1>2 DEF DecisionInv
<1>3. CASE callSimplify \/ solve \/ addClause \/ interrupt \/ Added \/ Return \/ UNCHANGED svars
  BY <1>2, <1>3 DEF callSimplify, solve, solve_, addClause, addClauseThen, UnchangedByAdd, interrupt, Added,
                    Return, Returned, svars, user
<1>4. CASE Propagate \/ CheckGarbage
  BY <1>2, <1>4 DEF Propagate, Dequeue, Propagated, VisitBinary, StartLong, SkipClause, MoveWatch, KeepWatch, EndLong,
                    UnchangedByPropagate, CheckGarbage, user
<1>5. CASE SearchConflict \/ Analyze \/ Minimise \/ litRedundant \/ Shorten \/ Learn \/ Restart \/ NoConflict
  BY <1>2, <1>5 DEF SearchConflict, Analyze, Minimise, litRedundant, Shorten, UnchangedByAnalyze, Learn, Restart,
                    NoConflict, user
<1>6. CASE SimplifyReturns \/ Simplify \/ KeepLearnts \/ NothingToReduce \/ reduceDB
  BY <1>2, <1>6 DEF SimplifyReturns, Simplify, KeepLearnts, NothingToReduce, reduceDB, user
<1>7. CASE DummyLevel \/ Assume \/ AssumptionFails \/ AnalyzeFinal \/ FinalAnalyzed \/ PickBranchLit \/ ModelFound
  BY <1>2, <1>7 DEF DummyLevel, Assume, AssumptionFails, AnalyzeFinal, FinalAnalyzed, PickBranchLit, ModelFound,
                    UnchangedByDecide, user
<1>. QED
  BY <1>1, <1>3, <1>4, <1>5, <1>6, <1>7 DEF Next, Step, User, Search

-----------------------------------------------------------------------------
(***************************************************************************)
(* The levels of the assumptions.                                          *)
(***************************************************************************)

\* Only a call of solve changes the assumptions.
LEMMA AssumptionsStay ==
    ASSUME [Next]_svars
    PROVE  solve \/ UNCHANGED assumptions
<1>1. CASE newVar \/ callSimplify \/ addClause \/ interrupt \/ Added \/ Return \/ UNCHANGED svars
  BY <1>1 DEF newVar, callSimplify, addClause, addClauseThen, UnchangedByAdd, interrupt, Added,
              Return, Returned, svars, result
<1>2. CASE Propagate \/ CheckGarbage
  BY <1>2 DEF Propagate, Dequeue, Propagated, VisitBinary, StartLong, SkipClause, MoveWatch, KeepWatch, EndLong,
              UnchangedByPropagate, CheckGarbage, result
<1>3. CASE SearchConflict \/ Analyze \/ Minimise \/ litRedundant \/ Shorten \/ Learn \/ Restart \/ NoConflict
  BY <1>3 DEF SearchConflict, Analyze, Minimise, litRedundant, Shorten, UnchangedByAnalyze, Learn, Restart,
              NoConflict, result
<1>4. CASE SimplifyReturns \/ Simplify \/ KeepLearnts \/ NothingToReduce \/ reduceDB
  BY <1>4 DEF SimplifyReturns, Simplify, KeepLearnts, NothingToReduce, reduceDB, result
<1>5. CASE DummyLevel \/ Assume \/ AssumptionFails \/ AnalyzeFinal \/ FinalAnalyzed \/ PickBranchLit \/ ModelFound
  BY <1>5 DEF DummyLevel, Assume, AssumptionFails, AnalyzeFinal, FinalAnalyzed, PickBranchLit, ModelFound, result
<1>. QED
  BY <1>1, <1>2, <1>3, <1>4, <1>5 DEF Next, Step, User, Search

\* A call begins at level 0.
LEMMA SolveLevel ==
    ASSUME IInv, solve
    PROVE  decisionLevel = 0 /\ decisionLevel' = 0 /\ UNCHANGED <<trail, trail_lim>>
<1>1. UNCHANGED <<trail, trail_lim>> /\ pc = "idle"
  BY DEF solve, assignment
<1>2. trail_lim = <<>>
  BY <1>1 DEF IInv, ControlInv
<1>. QED
  BY <1>1, <1>2 DEF decisionLevel

\* Where the trail is lengthened for a new level.
LEMMA NewLevel ==
    ASSUME IInv, [Next]_svars, pc = "decide", trail_lim' # trail_lim
    PROVE  /\ DummyLevel \/ Assume \/ PickBranchLit
           /\ decisionLevel' = decisionLevel + 1 /\ decisionLevel \in Nat /\ Len(assumptions) \in Nat
<1>1. DummyLevel \/ Assume \/ PickBranchLit
  <2>1. CASE User \/ Propagate \/ CheckGarbage \/ Return \/ Added
    BY <2>1 DEF User, newVar, callSimplify, solve, addClause, addClauseThen, UnchangedByAdd, interrupt, assignment,
                Propagate, Dequeue, Propagated, VisitBinary, StartLong, SkipClause, MoveWatch, KeepWatch, EndLong,
                CheckGarbage, Return, Added
  <2>2. CASE Search
    BY <2>2 DEF Search, SearchConflict, Analyze, Minimise, litRedundant, Shorten, Learn, Restart, NoConflict,
                SimplifyReturns, Simplify, KeepLearnts, NothingToReduce, reduceDB, AssumptionFails, AnalyzeFinal,
                FinalAnalyzed, ModelFound
  <2>3. CASE UNCHANGED svars
    BY <2>3 DEF svars, assignment
  <2>. QED
    BY <2>1, <2>2, <2>3 DEF Next, Step
<1>2. trail_lim' = Append(trail_lim, Len(trail)) /\ trail_lim \in Seq(Nat) /\ Len(trail) \in Nat
      /\ decisionLevel \in Nat
  BY <1>1, TrailFacts DEF DummyLevel, Assume, PickBranchLit, Decided, newDecisionLevel, IInv
<1>3. assumptions \in Seq(Lits)
  BY DEF IInv, ValuesInv
<1>. QED
  BY <1>1, <1>2, <1>3 DEF decisionLevel

\* What is decided at a level of an assumption is the assumption.
LEMMA DecidedAssumption ==
    ASSUME IInv, Assume
    PROVE  /\ Enqueues(Assumed, CRef_Undef) /\ decisionLevel' = decisionLevel + 1
           /\ decisionLevel \in Nat /\ Assumed = assumptions[decisionLevel']
<1>1. /\ trail_lim' = Append(trail_lim, Len(trail)) /\ trail_lim \in Seq(Nat) /\ Len(trail) \in Nat
      /\ trail' = Append(trail, Enqueued(Assumed, decisionLevel + 1, CRef_Undef))
  BY TrailFacts DEF Assume, Decided, newDecisionLevel, IInv
<1>2. Len(trail_lim') = decisionLevel + 1 /\ decisionLevel \in Nat
  BY <1>1 DEF decisionLevel
<1>3. decisionLevel' = decisionLevel + 1
  BY <1>2 DEF decisionLevel
<1>. QED
  BY <1>1, <1>2, <1>3 DEF Enqueues, Assumed

\* A step keeps AssumedInv: what has no reason at a level of an assumption is
\* that assumption.
LEMMA AssumedStep ==
    ASSUME IInv, AssumedInv, [Next]_svars
    PROVE  AssumedInv'
<1>0. /\ OrderInv /\ LevelsInv /\ Len(trail) \in Nat /\ DOMAIN trail = 1 .. Len(trail)
      /\ Len(assumptions) \in Nat /\ decisionLevel \in Nat
  BY TrailFacts DEF IInv, ValuesInv
<1>1. \A i \in DOMAIN trail' : trail'[i].level \in 0 .. decisionLevel'
  BY LevelsStep DEF LevelsInv
<1>2. CASE decisionLevel' = 0
  <2>1. \A i \in DOMAIN trail' : trail'[i].level \notin 1 .. Len(assumptions')
    BY <1>1, <1>2
  <2>. QED
    BY <2>1 DEF AssumedInv
<1>3. CASE decisionLevel' # 0 /\ UNCHANGED assumptions
  <2>1. SUFFICES ASSUME NEW i \in DOMAIN trail', trail'[i].level \in 1 .. Len(assumptions),
                        trail'[i].reason = CRef_Undef
                 PROVE  trail'[i].lit = assumptions[trail'[i].level]
    BY <1>3 DEF AssumedInv
  <2>2. CASE i \in DOMAIN trail /\ trail'[i] = trail[i]
    BY <2>1, <2>2 DEF AssumedInv
  <2>3. CASE Quiet \/ DummyStep
    BY <2>2, <2>3 DEF Quiet, DummyStep
  <2>4. CASE EnqueueStep
    <3>1. PICK l, from : /\ Enqueues(l, from)
                         /\ \/ trail_lim = <<>> /\ trail_lim' = trail_lim
                            \/ trail_lim' = Append(trail_lim, Len(trail)) /\ pc = "decide"
                            \/ from # CRef_Undef
      BY <2>4 DEF EnqueueStep
    <3>2. /\ DOMAIN trail' = 1 .. Len(trail) + 1
          /\ \A j \in DOMAIN trail : j \in DOMAIN trail' /\ trail'[j] = trail[j]
          /\ trail'[Len(trail) + 1].lit = l
          /\ trail'[Len(trail) + 1].level = decisionLevel'
          /\ trail'[Len(trail) + 1].reason = from
      BY <1>0, <3>1, EnqueueFacts
    <3>3. SUFFICES ASSUME i = Len(trail) + 1  PROVE trail'[i].lit = assumptions[trail'[i].level]
      <4>1. i \in DOMAIN trail \/ i = Len(trail) + 1
        BY <1>0, <3>2
      <4>. QED
        BY <2>2, <3>2, <4>1
    <3>4. from = CRef_Undef
      BY <2>1, <3>2, <3>3
    <3>5. ~ (trail_lim = <<>> /\ trail_lim' = trail_lim)
      BY <1>3 DEF decisionLevel
    <3>6. trail_lim' = Append(trail_lim, Len(trail)) /\ pc = "decide"
      BY <3>1, <3>4, <3>5
    <3>7. trail_lim' # trail_lim
      <4>1. trail_lim \in Seq(Nat) /\ Len(trail_lim') = Len(trail_lim) + 1 /\ Len(trail_lim) \in Nat
        BY <1>0, <3>6, TrailFacts
      <4>. QED
        BY <4>1
    <3>8. /\ DummyLevel \/ Assume \/ PickBranchLit
          /\ decisionLevel' = decisionLevel + 1
      BY <3>6, <3>7, NewLevel
    <3>9. ~ DummyLevel
      <4>1. trail' # trail
        BY <1>0, <3>2, <3>3
      <4>. QED
        BY <4>1 DEF DummyLevel
    <3>10. ~ PickBranchLit
      <4>1. SUFFICES ASSUME decisionLevel >= Len(assumptions)  PROVE FALSE
        BY DEF PickBranchLit
      <4>. DEFINE n == Len(assumptions)
      <4>2. n \in Nat /\ decisionLevel >= n /\ decisionLevel + 1 \in 1 .. n
        BY <1>0, <2>1, <3>2, <3>3, <3>8, <4>1
      <4>. HIDE DEF n
      <4>. QED
        BY <1>0, <4>2
    <3>11. Assume
      BY <3>8, <3>9, <3>10
    <3>12. Enqueues(Assumed, CRef_Undef) /\ Assumed = assumptions[decisionLevel']
      BY <3>11, DecidedAssumption
    <3>13. trail'[Len(trail) + 1].lit = Assumed
      BY <1>0, <3>12, EnqueueFacts
    <3>. QED
      BY <3>2, <3>3, <3>12, <3>13
  <2>5. CASE LearnStep
    <3>1. PICK lev \in Nat, from \in CRefs \cup {CRef_Undef} :
            Learns(lev, an.out[1], from) /\ (from = CRef_Undef => lev = 0)
      BY <2>5 DEF LearnStep
    <3>2. /\ LimitOf(lev) \in 0 .. Len(trail)
          /\ DOMAIN trail' = 1 .. LimitOf(lev) + 1
          /\ \A j \in 1 .. LimitOf(lev) : j \in DOMAIN trail /\ trail'[j] = trail[j]
          /\ trail'[LimitOf(lev) + 1].level = lev
          /\ trail'[LimitOf(lev) + 1].reason = from
      BY <1>0, <3>1, LearnsFacts
    <3>3. i \in 1 .. LimitOf(lev) \/ i = LimitOf(lev) + 1
      BY <3>2
    <3>4. i # LimitOf(lev) + 1
      BY <2>1, <3>1, <3>2
    <3>. QED
      BY <2>2, <3>2, <3>3, <3>4
  <2>6. CASE TakeOffStep
    <3>1. \A j \in DOMAIN trail' : j \in DOMAIN trail /\ trail'[j] = trail[j]
      BY <1>0, <2>6, TakesOffFacts DEF TakeOffStep
    <3>. QED
      BY <2>2, <3>1
  <2>7. CASE UnreasonStep
    BY <1>3, <2>7 DEF UnreasonStep, decisionLevel
  <2>. QED
    BY <2>3, <2>4, <2>5, <2>6, <2>7, TrailSteps
<1>4. CASE solve
  BY <1>2, <1>4, SolveLevel
<1>. QED
  BY <1>2, <1>3, <1>4, AssumptionsStay

\* A step keeps HeldInv: a level of an assumption is opened only when the
\* assumption is true or enqueued there.
LEMMA HeldStep ==
    ASSUME IInv, HeldInv, [Next]_svars
    PROVE  HeldInv'
<1>0. /\ OrderInv /\ LevelsInv /\ Len(trail) \in Nat /\ DOMAIN trail = 1 .. Len(trail)
      /\ Len(assumptions) \in Nat /\ decisionLevel \in Nat /\ DOMAIN assumptions = 1 .. Len(assumptions)
  BY TrailFacts DEF IInv, ValuesInv
<1>1. CASE solve
  <2>1. decisionLevel' = 0 /\ assumptions' \in Seq(Lits)
    BY <1>1, SolveLevel, ValuesStep DEF ValuesInv
  <2>2. \A j \in DOMAIN assumptions' : ~ j <= decisionLevel'
    BY <2>1
  <2>. QED
    BY <2>2 DEF HeldInv
<1>2. CASE UNCHANGED assumptions
  <2>1. SUFFICES ASSUME NEW j \in DOMAIN assumptions, j <= decisionLevel'
                 PROVE  \E i \in DOMAIN trail' : trail'[i].lit = assumptions[j] /\ trail'[i].level \in 0 .. j
    BY <1>2 DEF HeldInv, TrueAt
  <2>2. j \in Nat /\ j \in 1 .. Len(assumptions)
    BY <1>0
  <2>3. decisionLevel' \in Nat
    <3>1. trail_lim' \in Seq(Nat)
      BY OrderStep DEF IInv, OrderInv, LimitsInv
    <3>. QED
      BY <3>1 DEF decisionLevel
  <2>4. ASSUME NEW i \in DOMAIN trail, trail[i].lit = assumptions[j], trail[i].level \in 0 .. j
        PROVE  \E h \in DOMAIN trail' : trail'[h].lit = assumptions[j] /\ trail'[h].level \in 0 .. j
    <3>1. trail[i].level <= decisionLevel'
      BY <2>1, <2>2, <2>3, <2>4
    <3>2. StaysAt(i)
      BY <3>1, LevelKept
    <3>. QED
      BY <2>4, <3>2 DEF StaysAt
  <2>5. CASE j <= decisionLevel
    BY <2>4, <2>5 DEF HeldInv, TrueAt
  <2>6. CASE ~ j <= decisionLevel
    <3>1. trail_lim' # trail_lim
      BY <2>1, <2>6 DEF decisionLevel
    <3>2. pc = "decide"
      <4>1. decisionLevel' > decisionLevel
        BY <1>0, <2>1, <2>2, <2>3, <2>6
      <4>2. CASE LearnStep
        <5>1. PICK lev \in Nat : lev < decisionLevel /\ \E from : Learns(lev, an.out[1], from)
          BY <4>2 DEF LearnStep
        <5>2. decisionLevel' = lev
          BY <1>0, <5>1, BacktrackFacts DEF Learns
        <5>. QED
          BY <1>0, <4>1, <5>1, <5>2
      <4>3. CASE TakeOffStep
        <5>1. decisionLevel' \in 0 .. decisionLevel
          BY <1>0, <4>3, BacktrackFacts DEF TakeOffStep, TakesOff
        <5>. QED
          BY <1>0, <4>1, <5>1
      <4>4. CASE Quiet \/ EnqueueStep \/ DummyStep \/ UnreasonStep
        BY <3>1, <4>4 DEF Quiet, EnqueueStep, DummyStep, UnreasonStep
      <4>. QED
        BY <4>2, <4>3, <4>4, TrailSteps
    <3>3. /\ DummyLevel \/ Assume \/ PickBranchLit
          /\ decisionLevel' = decisionLevel + 1
      BY <3>1, <3>2, NewLevel
    <3>4. j = decisionLevel + 1
      BY <1>0, <2>1, <2>2, <2>6, <3>3
    <3>5. CASE DummyLevel
      <4>1. isTrue(assumptions[j])
        BY <3>4, <3>5 DEF DummyLevel, Assumed
      <4>2. PICK i \in DOMAIN trail : trail[i].lit = assumptions[j]
        BY <4>1 DEF isTrue
      <4>3. trail[i].level \in 0 .. decisionLevel
        BY <1>0 DEF LevelsInv
      <4>4. trail[i].level \in 0 .. j
        BY <1>0, <3>4, <4>3
      <4>. QED
        BY <2>4, <4>2, <4>4
    <3>6. CASE Assume
      <4>1. Enqueues(Assumed, CRef_Undef) /\ Assumed = assumptions[j]
        BY <3>3, <3>4, <3>6, DecidedAssumption
      <4>2. /\ Len(trail) + 1 \in DOMAIN trail' /\ trail'[Len(trail) + 1].lit = Assumed
            /\ trail'[Len(trail) + 1].level = decisionLevel'
        <5>1. /\ DOMAIN trail' = 1 .. Len(trail) + 1 /\ trail'[Len(trail) + 1].lit = Assumed
              /\ trail'[Len(trail) + 1].level = decisionLevel'
          BY <1>0, <4>1, EnqueueFacts
        <5>. QED
          BY <1>0, <5>1
      <4>3. decisionLevel' \in 0 .. j
        BY <2>2, <3>3, <3>4
      <4>. QED
        BY <4>1, <4>2, <4>3
    <3>7. CASE PickBranchLit
      <4>1. decisionLevel >= Len(assumptions)
        BY <3>7 DEF PickBranchLit
      <4>. DEFINE n == Len(assumptions)
      <4>2. n \in Nat /\ decisionLevel >= n /\ decisionLevel + 1 \in 1 .. n
        BY <1>0, <2>2, <3>4, <4>1
      <4>. HIDE DEF n
      <4>. QED
        BY <1>0, <4>2
    <3>. QED
      BY <3>3, <3>5, <3>6, <3>7
  <2>. QED
    BY <2>5, <2>6
<1>. QED
  BY <1>1, <1>2, AssumptionsStay

-----------------------------------------------------------------------------
(***************************************************************************)
(* The clauses that were added.                                            *)
(***************************************************************************)

KeptNext(c) == \/ Tautology(c)
               \/ \E l \in c : \E i \in DOMAIN trail' : trail'[i].lit = l /\ trail'[i].level = 0
               \/ \E cr \in clauses' : ToSet(ca'[cr].lits) \subseteq c

\* KeepsInv after a step, clause by clause.
LEMMA NextKeeps ==
    (\A c \in formula' : c \subseteq NLits' /\ (ok' => KeptNext(c))) => KeepsInv'
<1>. SUFFICES ASSUME \A c \in formula' : c \subseteq NLits' /\ (ok' => KeptNext(c))  PROVE KeepsInv'
  OBVIOUS
<1>1. ASSUME NEW c, KeptNext(c)
      PROVE  \/ Tautology(c)
             \/ \E l \in c : \E i \in DOMAIN trail' : trail'[i].lit = l /\ trail'[i].level \in {0}
             \/ \E cr \in clauses' : ToSet(ca'[cr].lits) \subseteq c
  BY <1>1 DEF KeptNext
<1>. QED
  BY <1>1 DEF KeepsInv, Kept0, Tautology, TrueAt, lits

\* What is a contradiction stays one.
LEMMA OkBefore ==
    ASSUME IInv, OkInv, [Next]_svars, ok'
    PROVE  ok
<1>1. CASE Added \/ SimplifyReturns
  BY <1>1 DEF Added, SimplifyReturns, OkInv
<1>2. CASE newVar \/ callSimplify \/ solve \/ interrupt \/ UNCHANGED svars
  BY <1>2 DEF newVar, callSimplify, solve, solve_, interrupt, svars, user
<1>3. CASE addClause
  BY <1>3 DEF addClause, addClauseThen, addClause_
<1>4. CASE Return
  BY <1>4 DEF Return, Returned
<1>5. CASE Propagate \/ CheckGarbage
  BY <1>5 DEF Propagate, Dequeue, Propagated, VisitBinary, StartLong, SkipClause, MoveWatch, KeepWatch, EndLong,
              UnchangedByPropagate, CheckGarbage, user
<1>6. CASE SearchConflict \/ Analyze \/ Minimise \/ litRedundant \/ Shorten \/ Learn \/ Restart \/ NoConflict
  BY <1>6 DEF SearchConflict, Analyze, Minimise, litRedundant, Shorten, UnchangedByAnalyze, Learn, Restart,
              NoConflict, user
<1>7. CASE Simplify \/ KeepLearnts \/ NothingToReduce \/ reduceDB
  BY <1>7 DEF Simplify, KeepLearnts, NothingToReduce, reduceDB, user
<1>8. CASE DummyLevel \/ Assume \/ AssumptionFails \/ AnalyzeFinal \/ FinalAnalyzed \/ PickBranchLit \/ ModelFound
  BY <1>8 DEF DummyLevel, Assume, AssumptionFails, AnalyzeFinal, FinalAnalyzed, PickBranchLit, ModelFound,
              UnchangedByDecide, user
<1>. QED
  BY <1>1, <1>2, <1>3, <1>4, <1>5, <1>6, <1>7, <1>8 DEF Next, Step, User, Search

\* An original clause is removed only when it is true at level 0.
LEMMA ClauseLost ==
    ASSUME IInv, [Next]_svars, NEW cr \in clauses, cr \notin clauses'
    PROVE  satisfied(cr) /\ decisionLevel = 0
<1>1. Simplify
  <2>1. CASE newVar \/ callSimplify \/ solve \/ interrupt \/ Added \/ Return \/ UNCHANGED svars
    BY <2>1 DEF newVar, callSimplify, solve, interrupt, Added, Return, Returned, svars, database
  <2>2. CASE addClause
    BY <2>2 DEF addClause, addClauseThen, addClause_, database
  <2>3. CASE Learn
    BY <2>3, LearnAllocates DEF database
  <2>4. CASE Propagate \/ CheckGarbage
    BY <2>4 DEF Propagate, Dequeue, Propagated, VisitBinary, StartLong, SkipClause, MoveWatch, KeepWatch, EndLong,
                UnchangedByPropagate, CheckGarbage
  <2>5. CASE SearchConflict \/ Analyze \/ Minimise \/ litRedundant \/ Shorten \/ Restart \/ NoConflict
    BY <2>5 DEF SearchConflict, Analyze, Minimise, litRedundant, Shorten, UnchangedByAnalyze, Restart, NoConflict,
                database
  <2>6. CASE SimplifyReturns \/ KeepLearnts \/ NothingToReduce \/ reduceDB
    BY <2>6 DEF SimplifyReturns, KeepLearnts, NothingToReduce, reduceDB, database
  <2>7. CASE DummyLevel \/ Assume \/ AssumptionFails \/ AnalyzeFinal \/ FinalAnalyzed \/ PickBranchLit \/ ModelFound
    BY <2>7 DEF DummyLevel, Assume, AssumptionFails, AnalyzeFinal, FinalAnalyzed, PickBranchLit, ModelFound,
                UnchangedByDecide, database
  <2>. QED
    BY <2>1, <2>2, <2>3, <2>4, <2>5, <2>6, <2>7 DEF Next, Step, User, Search
<1>2. satisfied(cr)
  BY <1>1 DEF Simplify
<1>3. trail_lim = <<>>
  BY <1>1 DEF Simplify, IInv, ControlInv
<1>. QED
  BY <1>2, <1>3 DEF decisionLevel

\* A clause of the formula stays kept.
LEMMA KeptStays ==
    ASSUME IInv, [Next]_svars, NEW c, Kept0(c)
    PROVE  KeptNext(c)
<1>1. CASE Tautology(c)
  BY <1>1 DEF KeptNext
<1>2. ASSUME NEW l \in c, TrueAt(l, {0})  PROVE KeptNext(c)
  BY <1>2, ZeroKept DEF KeptNext
<1>3. ASSUME NEW cr \in clauses, ToSet(lits(cr)) \subseteq c  PROVE KeptNext(c)
  <2>1. CASE cr \in clauses'
    <3>1. ToSet(ca'[cr].lits) = ToSet(lits(cr))
      BY <2>1, TwoKept
    <3>. QED
      BY <1>3, <2>1, <3>1 DEF KeptNext
  <2>2. CASE cr \notin clauses'
    <3>1. satisfied(cr) /\ decisionLevel = 0
      BY <2>2, ClauseLost
    <3>2. PICK l \in ToSet(lits(cr)) : isTrue(l)
      BY <3>1 DEF satisfied
    <3>3. PICK i \in DOMAIN trail : trail[i].lit = l
      BY <3>2 DEF isTrue
    <3>4. trail[i].level \in 0 .. 0
      BY <3>1 DEF IInv, LevelsInv
    <3>5. TrueAt(l, {0})
      BY <3>3, <3>4 DEF TrueAt
    <3>. QED
      BY <1>2, <1>3, <3>2, <3>5
  <2>. QED
    BY <2>1, <2>2
<1>. QED
  BY <1>1, <1>2, <1>3 DEF Kept0

\* A clause that is added is kept.
LEMMA AddedKept ==
    ASSUME IInv, [Next]_svars, addClause, ok'
    PROVE  ToSet(call.lits) \subseteq NLits /\ KeptNext(ToSet(call.lits))
<1>. DEFINE ps == call.lits
            qs == Sorted(Unassigned(ps))
<1>1. script # <<>> /\ call.op = "clause" /\ pc = "idle"
  BY DEF addClause, addClauseThen, Called, call
<1>2. ps \in Seq(Lits) /\ ToSet(ps) \subseteq NLits
  BY <1>1, CalledLits DEF IInv
<1>3. decisionLevel = 0 /\ decisionLevel' = 0
  <2>1. trail_lim = <<>> /\ trail_lim' = trail_lim
    BY <1>1 DEF IInv, ControlInv, addClause, addClauseThen, UnchangedByAdd
  <2>. QED
    BY <2>1 DEF decisionLevel
<1>4. CASE Superfluous(ps) /\ UNCHANGED trail
  <2>1. PICK l \in ToSet(ps) : isTrue(l) \/ -l \in ToSet(ps)
    BY <1>4 DEF Superfluous
  <2>2. CASE -l \in ToSet(ps)
    BY <1>2, <2>1, <2>2 DEF KeptNext, Tautology
  <2>3. CASE isTrue(l)
    <3>1. PICK i \in DOMAIN trail : trail[i].lit = l
      BY <2>3 DEF isTrue
    <3>2. trail[i].level \in 0 .. 0
      BY <1>3 DEF IInv, LevelsInv
    <3>3. trail'[i].lit = l /\ trail'[i].level = 0 /\ i \in DOMAIN trail'
      BY <1>4, <3>1, <3>2
    <3>. QED
      BY <1>2, <2>1, <3>3 DEF KeptNext
  <2>. QED
    BY <2>1, <2>2, <2>3
<1>5. ASSUME ~ Superfluous(ps)  PROVE qs \in Seq(Lits) /\ ToSet(qs) \subseteq ToSet(ps)
  <2>1. qs \in Seq(Lits) /\ ToSet(qs) = Unassigned(ps)
    BY <1>1, <1>5, AddedLits
  <2>2. Unassigned(ps) \subseteq ToSet(ps)
    BY DEF Unassigned
  <2>. HIDE DEF qs, ps
  <2>. QED
    BY <2>1, <2>2
<1>6. CASE ~ Superfluous(ps) /\ Len(qs) = 1 /\ uncheckedEnqueue(qs[1], CRef_Undef)
  <2>1. qs[1] \in ToSet(ps)
    <3>1. qs \in Seq(Lits) /\ ToSet(qs) \subseteq ToSet(ps) /\ Len(qs) = 1
      BY <1>5, <1>6
    <3>. HIDE DEF qs, ps
    <3>2. 1 \in DOMAIN qs
      BY <3>1
    <3>3. qs[1] \in ToSet(qs)
      BY <3>2 DEF ToSet
    <3>. QED
      BY <3>1, <3>3
  <2>. DEFINE q == qs[1]
  <2>2. trail' = Append(trail, Enqueued(q, 0, CRef_Undef)) /\ IsSeq(trail) /\ Len(trail) \in Nat
    BY <1>3, <1>6, TrailFacts DEF uncheckedEnqueue, IInv
  <2>. HIDE DEF q
  <2>3. Len(trail) + 1 \in DOMAIN trail' /\ trail'[Len(trail) + 1] = Enqueued(q, 0, CRef_Undef)
    BY <2>2, AppendIsSeq
  <2>4. trail'[Len(trail) + 1].lit = q /\ trail'[Len(trail) + 1].level = 0
    BY <2>3 DEF Enqueued
  <2>. QED
    BY <1>2, <2>1, <2>3, <2>4 DEF KeptNext, q
<1>7. CASE ~ Superfluous(ps) /\ \E cr \in CRefs : ca' = alloc(cr, qs, FALSE, 0) /\ clauses' = clauses \cup {cr}
  <2>1. PICK cr \in CRefs : ca' = alloc(cr, qs, FALSE, 0) /\ clauses' = clauses \cup {cr}
    BY <1>7
  <2>2. ToSet(qs) \subseteq ToSet(ps)
    BY <1>5, <1>7
  <2>. HIDE DEF qs
  <2>3. ca'[cr].lits = qs /\ cr \in clauses'
    BY <2>1 DEF alloc
  <2>. QED
    BY <1>2, <2>2, <2>3 DEF KeptNext
<1>8. ok /\ (\/ Superfluous(ps) /\ UNCHANGED trail
             \/ ~ Superfluous(ps) /\ Len(qs) = 1 /\ uncheckedEnqueue(qs[1], CRef_Undef)
             \/ ~ Superfluous(ps) /\ \E cr \in CRefs : ca' = alloc(cr, qs, FALSE, 0) /\ clauses' = clauses \cup {cr})
  <2>1. addClause_(ps, "idle")
    BY DEF addClause, addClauseThen
  <2>. QED
    BY <2>1 DEF addClause_
<1>. QED
  BY <1>4, <1>6, <1>7, <1>8

\* A step keeps KeepsInv: no clause that was added is forgotten.
LEMMA KeepsStep ==
    ASSUME IInv, OkInv, KeepsInv, [Next]_svars
    PROVE  KeepsInv'
<1>1. NLits \subseteq NLits'
  <2>1. nVars' \in {nVars, nVars + 1}
    BY TrailSteps DEF Quiet, EnqueueStep, LearnStep, TakeOffStep, DummyStep, UnreasonStep
  <2>. QED
    BY <2>1, NLitsGrow
<1>2. SUFFICES ASSUME NEW c \in formula'  PROVE c \subseteq NLits' /\ (ok' => KeptNext(c))
  BY NextKeeps
<1>3. CASE c \in formula
  <2>1. c \subseteq NLits /\ (ok => Kept0(c))
    BY <1>3 DEF KeepsInv
  <2>2. ok' => KeptNext(c)
    BY <2>1, OkBefore, KeptStays
  <2>. QED
    BY <1>1, <2>1, <2>2
<1>4. CASE c \notin formula
  <2>1. addClause
    BY <1>2, <1>4, FormulaGrows
  <2>2. c = ToSet(call.lits)
    BY <1>2, <1>4, <2>1 DEF addClause, addClauseThen
  <2>3. c \subseteq NLits
    <3>1. script # <<>> /\ call.op = "clause"
      BY <2>1 DEF addClause, addClauseThen, Called, call
    <3>. QED
      BY <2>2, <3>1, CalledLits DEF IInv
  <2>4. ok' => KeptNext(c)
    BY <2>1, <2>2, AddedKept
  <2>. QED
    BY <1>1, <2>3, <2>4
<1>. QED
  BY <1>3, <1>4

-----------------------------------------------------------------------------
(***************************************************************************)
(* The core in terms of the assumptions.                                   *)
(***************************************************************************)

\* How a conflict with the assumptions is analyzed.
LEMMA FinalPlaces ==
    ASSUME IInv, [Next]_svars, pc' = "final"
    PROVE  \/ AssumptionFails \/ AnalyzeFinal
           \/ pc = "final" /\ UNCHANGED <<trail, trail_lim, formula, assumptions, conflict, an>>
<1>. USE DEF user, result, assignment
<1>2. CASE interrupt \/ UNCHANGED svars
  BY <1>2 DEF interrupt, svars
<1>3. pc \in Places /\ caller \in {"added", "search", "simplify"} /\ after \in {"idle", "reduce", "decide"}
  BY DEF IInv, ControlInv
<1>4. CASE newVar \/ callSimplify \/ solve \/ Added
  BY <1>3, <1>4 DEF newVar, callSimplify, solve, solve_, Added
<1>5. CASE addClause
  <2>1. pc = "idle" /\ pc' \in {"idle", "propagate"}
    BY <1>5 DEF addClause, addClauseThen, addClause_
  <2>. QED
    BY <2>1
<1>6. CASE Propagate
  BY <1>3, <1>6 DEF Propagate, Dequeue, Propagated, VisitBinary, StartLong, SkipClause, MoveWatch, KeepWatch, EndLong
<1>7. CASE NoConflict \/ Simplify \/ KeepLearnts \/ NothingToReduce \/ reduceDB \/ CheckGarbage \/ Return
           \/ SearchConflict \/ Restart \/ SimplifyReturns
  BY <1>3, <1>7 DEF NoConflict, Simplify, KeepLearnts, NothingToReduce, reduceDB, CheckGarbage, Return, Returned,
     SearchConflict, Restart, SimplifyReturns, Leave
<1>8. CASE DummyLevel \/ Assume \/ FinalAnalyzed \/ PickBranchLit \/ ModelFound
  BY <1>3, <1>8 DEF DummyLevel, Assume, FinalAnalyzed, PickBranchLit, ModelFound, Decided, Leave
<1>9. CASE Analyze \/ Minimise \/ litRedundant \/ Shorten \/ Learn
  BY <1>9 DEF Analyze, Minimise, litRedundant, Shorten, Learn
<1>. HIDE DEF user, result, assignment
<1>. QED
  BY <1>2, <1>4, <1>5, <1>6, <1>7, <1>8, <1>9 DEF Next, Step, User, Search

\* The core, while it is computed: it is over the assumptions, and together with the
\* literals still to be explained it follows from the formula.
CoreGood(core, seen) == /\ decisionLevel < Len(assumptions)
                        /\ \A l \in core : -l \in ToSet(assumptions)
                        /\ Implies(formula, core \cup NegOf(seen))

\* The core begins with the assumption that is false.
LEMMA FailsCore ==
    ASSUME IInv, AssumptionFails
    PROVE  CoreGood(conflict', an'.seen)
<1>1. /\ isFalse(Assumed) /\ conflict' = {-Assumed} /\ decisionLevel < Len(assumptions)
      /\ an' = [NoAnalysis EXCEPT !.seen = IF decisionLevel = 0 THEN {} ELSE {var(Assumed)}]
  BY DEF AssumptionFails
<1>2. OrderInv /\ LevelsInv /\ MeaningInv /\ decisionLevel \in Nat /\ assumptions \in Seq(Lits)
  BY TrailFacts DEF IInv, ValuesInv
<1>3. decisionLevel + 1 \in DOMAIN assumptions
  BY <1>1, <1>2
<1>4. Assumed \in Lits /\ Assumed \in ToSet(assumptions)
  BY <1>2, <1>3 DEF Assumed, ToSet
<1>5. PICK j \in DOMAIN trail : trail[j].lit = -Assumed
  BY <1>1 DEF isFalse, isTrue
<1>6. an'.seen = IF decisionLevel = 0 THEN {} ELSE {var(Assumed)}
  BY <1>1 DEF NoAnalysis
<1>7. -(-Assumed) = Assumed /\ var(-Assumed) = var(Assumed)
  BY <1>4, LitsFacts
<1>8. ASSUME NEW m \in Models(formula)
      PROVE  \E l \in conflict' \cup NegOf(an'.seen) : Holds(m, l)
  <2>1. CASE decisionLevel = 0
    <3>1. trail[j].level = 0
      BY <1>2, <2>1 DEF LevelsInv
    <3>. QED
      BY <1>1, <1>2, <1>5, <3>1, LevelZero
  <2>2. CASE decisionLevel # 0
    <3>1. Assumed \in NegOf(an'.seen)
      <4>1. -trail[j].lit = Assumed /\ var(trail[j].lit) \in an'.seen
        BY <1>5, <1>6, <1>7, <2>2
      <4>. QED
        BY <4>1 DEF NegOf
    <3>2. m \in Assignments
      BY DEF Models
    <3>3. Holds(m, Assumed) \/ Holds(m, -Assumed)
      BY <1>4, <3>2, HoldsNot
    <3>. QED
      BY <1>1, <3>1, <3>3
  <2>. QED
    BY <2>1, <2>2
<1>9. Implies(formula, conflict' \cup NegOf(an'.seen))
  BY <1>8 DEF Implies, Satisfies
<1>. QED
  BY <1>1, <1>4, <1>7, <1>9 DEF CoreGood

\* The literals of a clause from the first or the second on.
LEMMA SubSeqHas ==
    ASSUME NEW S, NEW s \in Seq(S), NEW a \in {1, 2}, NEW k \in DOMAIN s, k >= a
    PROVE  s[k] \in ToSet(SubSeq(s, a, Len(s)))
<1>. DEFINE N == Len(s)
            t == SubSeq(s, a, N)
<1>1. N \in Nat /\ k \in 1 .. N
  OBVIOUS
<1>2. k - a + 1 \in DOMAIN t /\ t[k - a + 1] = s[k]
  <2>1. CASE a = 1
    <3>1. t = SubSeq(s, 1, N)
      BY <2>1
    <3>2. k - a + 1 = k
      BY <1>1, <2>1
    <3>. QED
      BY <1>1, <2>1, <3>1, <3>2
  <2>2. CASE a = 2
    <3>1. t = SubSeq(s, 2, N)
      BY <2>2
    <3>2. k - a + 1 = k - 1 /\ k >= 2
      BY <1>1, <2>2
    <3>. QED
      BY <1>1, <2>2, <3>1, <3>2
  <2>. QED
    BY <2>1, <2>2
<1>. HIDE DEF t
<1>3. s[k] \in ToSet(t)
  BY <1>2 DEF ToSet
<1>. QED
  BY <1>3 DEF t

\* The last literal of the trail that is still to be explained is above level 0.
LEMMA FinalLast ==
    ASSUME IInv, pc = "final", SeenAbove # {}
    PROVE  LET i == LastSeen(an.seen) IN
           i \in DOMAIN trail /\ trail[i].level > 0 /\ trail[i].lit \in Lits
<1>. DEFINE i == LastSeen(an.seen)
<1>1. OrderInv /\ LevelsInv /\ decisionLevel \in Nat /\ an \in AnType
  BY TrailFacts DEF IInv, ValuesInv
<1>2. \A v \in an.seen : SeenAt(v, 0 .. decisionLevel)
  BY DEF IInv, MinimiseInv
<1>3. PICK v \in an.seen : level(v) > 0
  BY DEF SeenAbove
<1>4. i \in DOMAIN trail /\ \A j \in DOMAIN trail : var(trail[j].lit) \in an.seen => j <= i
  <2>. DEFINE S == an.seen
  <2>1. v \in S /\ \A u \in S : \E j \in DOMAIN trail : var(trail[j].lit) = u
    BY <1>2 DEF SeenAt
  <2>. HIDE DEF S
  <2>2. LastSeen(S) \in DOMAIN trail /\ \A j \in DOMAIN trail : var(trail[j].lit) \in S => j <= LastSeen(S)
    BY <1>1, <2>1, LastSeenFacts
  <2>. QED
    BY <2>2 DEF S
<1>. HIDE DEF i
<1>5. PICK j \in DOMAIN trail : var(trail[j].lit) = v
  BY <1>2 DEF SeenAt
<1>6. v \in Vars /\ var(v) = v
  BY <1>1, <1>3, LitsFacts DEF AnType
<1>7. level(v) = trail[j].level
  BY <1>1, <1>5, <1>6, PlaceOf
<1>8. j <= i
  BY <1>4, <1>5
<1>9. trail[j].level <= trail[i].level /\ trail[j].level \in 0 .. decisionLevel /\ trail[i].level \in 0 .. decisionLevel
  BY <1>1, <1>4, <1>8, LevelsOrdered DEF LevelsInv
<1>10. trail[i].level > 0 /\ trail[i].lit \in Lits
  BY <1>1, <1>3, <1>4, <1>7, <1>9 DEF LevelsInv, NLits
<1>. QED
  BY <1>4, <1>10 DEF i

\* A literal of the core is explained: a decision is an assumption, a reason is
\* resolved away.
LEMMA FinalCore ==
    ASSUME IInv, AssumedInv, CoreInv, AnalyzeFinal
    PROVE  CoreGood(conflict', an'.seen)
<1>. DEFINE i == LastSeen(an.seen)
            cr == trail[i].reason
            ps == IF cr = CRef_Undef THEN <<>> ELSE lits(cr)
            new == {q \in ToSet(SubSeq(ps, FinalFrom(ps), Len(ps))) : level(q) > 0}
            sn == (an.seen \cup {var(q) : q \in new}) \ {var(trail[i].lit)}
<1>0. /\ pc = "final" /\ SeenAbove # {}
      /\ an' = [an EXCEPT !.seen = sn]
      /\ conflict' = IF cr = CRef_Undef THEN conflict \cup {-trail[i].lit} ELSE conflict
  BY DEF AnalyzeFinal
<1>1. /\ OrderInv /\ LevelsInv /\ ClausesInv /\ MeaningInv
      /\ decisionLevel \in Nat /\ an \in AnType /\ DOMAIN trail = 1 .. Len(trail)
      /\ assumptions \in Seq(Lits) /\ Len(assumptions) \in Nat /\ DOMAIN assumptions = 1 .. Len(assumptions)
  BY TrailFacts DEF IInv, ValuesInv
<1>2. CoreGood(conflict, an.seen)
  BY <1>0 DEF CoreInv, OfAssumptions, CoreGood
<1>3. i \in DOMAIN trail /\ trail[i].level > 0 /\ trail[i].lit \in Lits
  BY <1>0, FinalLast
<1>. HIDE DEF i
<1>4. an'.seen = sn
  BY <1>0, <1>1 DEF AnType
<1>5. ASSUME NEW j \in DOMAIN trail, var(trail[j].lit) \in an.seen, j # i
      PROVE  -trail[j].lit \in NegOf(sn)
  <2>1. var(trail[j].lit) # var(trail[i].lit)
    BY <1>1, <1>3, <1>5 DEF LevelsInv
  <2>2. var(trail[j].lit) \in sn
    BY <1>5, <2>1
  <2>. HIDE DEF sn
  <2>. QED
    BY <2>2 DEF NegOf
<1>6. CASE cr = CRef_Undef
  <2>1. trail[i].level \in 1 .. Len(assumptions)
    <3>1. trail[i].level \in 0 .. decisionLevel
      BY <1>1, <1>3 DEF LevelsInv
    <3>2. decisionLevel < Len(assumptions)
      BY <1>2 DEF CoreGood
    <3>. DEFINE L == trail[i].level
                A == Len(assumptions)
    <3>3. L \in 0 .. decisionLevel /\ L > 0 /\ decisionLevel < A /\ A \in Nat /\ decisionLevel \in Nat
      BY <1>1, <1>3, <3>1, <3>2
    <3>. HIDE DEF L, A
    <3>4. L \in 1 .. A
      BY <3>3
    <3>. QED
      BY <3>4 DEF L, A
  <2>2. trail[i].lit = assumptions[trail[i].level]
    BY <1>3, <1>6, <2>1 DEF AssumedInv
  <2>3. trail[i].lit \in ToSet(assumptions)
    BY <1>1, <2>1, <2>2 DEF ToSet
  <2>4. -(-trail[i].lit) = trail[i].lit
    BY <1>3, LitsFacts
  <2>5. conflict \cup NegOf(an.seen) \subseteq conflict' \cup NegOf(sn)
    <3>1. ASSUME NEW l \in NegOf(an.seen)  PROVE l \in conflict' \cup NegOf(sn)
      <4>1. PICK j \in DOMAIN trail : var(trail[j].lit) \in an.seen /\ l = -trail[j].lit
        BY <3>1 DEF NegOf
      <4>2. CASE j = i
        BY <1>0, <1>6, <4>1, <4>2
      <4>3. CASE j # i
        BY <1>5, <4>1, <4>3
      <4>. QED
        BY <4>2, <4>3
    <3>. QED
      BY <1>0, <1>6, <3>1
  <2>. HIDE DEF sn
  <2>6. Implies(formula, conflict' \cup NegOf(sn))
    BY <1>2, <2>5, ImpliesWeaker DEF CoreGood
  <2>7. \A l \in conflict' : -l \in ToSet(assumptions)
    BY <1>0, <1>2, <1>6, <2>3, <2>4 DEF CoreGood
  <2>. QED
    BY <1>2, <1>4, <2>6, <2>7 DEF CoreGood
<1>7. CASE cr # CRef_Undef
  <2>1. Given(cr, i) /\ cr \in DOMAIN ca /\ conflict' = conflict /\ ps = lits(cr)
    BY <1>0, <1>3, <1>7, ReasonFacts
  <2>2. ps \in Seq(Lits) /\ DOMAIN ps = 1 .. Len(ps) /\ Len(ps) \in Nat /\ Implies(formula, ToSet(ps))
    BY <1>1, <2>1, ClauseFacts DEF MeaningInv
  <2>. HIDE DEF ps, cr
  <2>3. ASSUME NEW k \in DOMAIN ps, ps[k] # trail[i].lit, NEW m \in Models(formula), Holds(m, ps[k])
        PROVE  ps[k] \in NegOf(sn)
    <3>1. PICK h \in 1 .. i - 1 : trail[h].lit = -ps[k]
      BY <2>1, <2>3 DEF Given
    <3>2. h \in DOMAIN trail /\ h # i /\ ps[k] \in Lits
      BY <1>1, <1>3, <2>2
    <3>3. var(trail[h].lit) = var(ps[k]) /\ level(ps[k]) = trail[h].level /\ -trail[h].lit = ps[k]
      BY <1>1, <3>1, <3>2, FalseFacts, LitsFacts
    <3>4. trail[h].level # 0
      <4>1. SUFFICES ASSUME trail[h].level = 0  PROVE FALSE
        OBVIOUS
      <4>2. Holds(m, -ps[k])
        BY <1>1, <3>1, <3>2, <4>1, LevelZero
      <4>3. m \in Assignments
        BY DEF Models
      <4>. QED
        BY <2>3, <3>2, <4>2, <4>3, HoldsNot
    <3>5. level(ps[k]) > 0
      <4>1. trail[h].level \in 0 .. decisionLevel
        BY <1>1, <3>2 DEF LevelsInv
      <4>. QED
        BY <1>1, <3>3, <3>4, <4>1
    <3>6. ps[k] \in ToSet(SubSeq(ps, FinalFrom(ps), Len(ps)))
      <4>1. FinalFrom(ps) \in {1, 2} /\ k >= FinalFrom(ps)
        <5>1. CASE Len(ps) = 2
          BY <2>2, <5>1 DEF FinalFrom
        <5>2. CASE Len(ps) # 2
          <6>1. Len(ps) > 2
            <7>1. Len(lits(cr)) >= 2
              BY <1>1, <2>1, ClauseFacts
            <7>. QED
              BY <2>1, <2>2, <5>2, <7>1
          <6>2. ps[1] = trail[i].lit
            BY <2>1, <6>1 DEF Given
          <6>3. k # 1
            BY <2>3, <6>2
          <6>. QED
            BY <2>2, <5>2, <6>3 DEF FinalFrom
        <5>. QED
          BY <5>1, <5>2
      <4>. DEFINE a == FinalFrom(ps)
      <4>. HIDE DEF a
      <4>2. a \in {1, 2} /\ k >= a
        BY <4>1 DEF a
      <4>3. ps[k] \in ToSet(SubSeq(ps, a, Len(ps)))
        BY <2>2, <4>2, SubSeqHas
      <4>. QED
        BY <4>3 DEF a
    <3>7. ps[k] \in new
      BY <3>5, <3>6
    <3>8. var(trail[h].lit) # var(trail[i].lit)
      BY <1>1, <1>3, <3>2 DEF LevelsInv
    <3>. HIDE DEF new
    <3>9. var(trail[h].lit) \in sn
      BY <3>3, <3>7, <3>8
    <3>. HIDE DEF sn
    <3>. QED
      BY <3>2, <3>3, <3>9 DEF NegOf
  <2>. HIDE DEF sn, new
  <2>4. ASSUME NEW m \in Models(formula)
        PROVE  \E l \in conflict \cup NegOf(sn) : Holds(m, l)
    <3>1. PICK l \in conflict \cup NegOf(an.seen) : Holds(m, l)
      BY <1>2 DEF CoreGood, Implies, Satisfies
    <3>2. CASE l \in conflict
      BY <3>1, <3>2
    <3>3. CASE l \in NegOf(an.seen)
      <4>1. PICK j \in DOMAIN trail : var(trail[j].lit) \in an.seen /\ l = -trail[j].lit
        BY <3>3 DEF NegOf
      <4>2. CASE j # i
        BY <1>5, <3>1, <4>1, <4>2
      <4>3. CASE j = i
        <5>1. m \in Assignments
          BY DEF Models
        <5>2. ~ Holds(m, trail[i].lit)
          BY <1>3, <3>1, <4>1, <4>3, <5>1, HoldsNot
        <5>3. PICK k \in DOMAIN ps : Holds(m, ps[k])
          BY <2>2 DEF Implies, Satisfies, ToSet
        <5>4. ps[k] \in NegOf(sn)
          BY <2>3, <5>2, <5>3
        <5>. QED
          BY <5>3, <5>4
      <4>. QED
        BY <4>2, <4>3
    <3>. QED
      BY <3>1, <3>2, <3>3
  <2>5. Implies(formula, conflict \cup NegOf(sn))
    BY <2>4 DEF Implies, Satisfies
  <2>. QED
    BY <1>2, <1>4, <2>1, <2>5 DEF CoreGood
<1>. QED
  BY <1>6, <1>7

\* A step keeps CoreInv.
LEMMA CoreStep ==
    ASSUME IInv, AssumedInv, CoreInv, [Next]_svars
    PROVE  CoreInv'
<1>1. SUFFICES ASSUME pc' = "final"
               PROVE  /\ UNCHANGED <<trail, trail_lim, formula, assumptions>>
                      /\ CoreGood(conflict', an'.seen)
  BY DEF CoreInv, OfAssumptions, CoreGood, Implies, NegOf, decisionLevel
<1>2. CASE AssumptionFails
  <2>1. UNCHANGED <<trail, trail_lim, formula, assumptions>>
    BY <1>2, FailsDoes
  <2>. QED
    BY <1>2, <2>1, FailsCore
<1>3. CASE AnalyzeFinal
  <2>1. UNCHANGED <<trail, trail_lim, formula, assumptions>>
    BY <1>3, FinalDoes
  <2>. QED
    BY <1>3, <2>1, FinalCore
<1>4. CASE pc = "final" /\ UNCHANGED <<trail, trail_lim, formula, assumptions, conflict, an>>
  <2>1. CoreGood(conflict, an.seen)
    BY <1>4 DEF CoreInv, OfAssumptions, CoreGood
  <2>. QED
    BY <1>4, <2>1
<1>. QED
  BY <1>1, <1>2, <1>3, <1>4, FinalPlaces

-----------------------------------------------------------------------------
(***************************************************************************)
(* The end of a call.                                                      *)
(***************************************************************************)

\* How a call of solve_ comes to an end, with what it answers.
LEMMA EndPlaces ==
    ASSUME IInv, PendingInv, [Next]_svars, pc' = "return"
    PROVE  \/ ModelFound \/ FinalAnalyzed
           \/ /\ pc = "return" /\ UNCHANGED <<trail, formula, assumptions, status, conflict>>
              /\ asynch_interrupt => asynch_interrupt'
           \/ status' = "false" /\ conflict' = {}
           \/ status' = "undef" /\ asynch_interrupt'
<1>1. CASE interrupt \/ UNCHANGED svars
  BY <1>1 DEF interrupt, svars, user, result, assignment
<1>2. pc \in Places /\ caller \in {"added", "search", "simplify"} /\ after \in {"idle", "reduce", "decide"}
  BY DEF IInv, ControlInv
<1>3. CASE newVar \/ callSimplify \/ solve \/ Added
  BY <1>2, <1>3 DEF newVar, callSimplify, solve, solve_, Added
<1>4. CASE addClause
  <2>1. pc = "idle" /\ pc' \in {"idle", "propagate"}
    BY <1>4 DEF addClause, addClauseThen, addClause_
  <2>. QED
    BY <2>1
<1>5. CASE Propagate
  BY <1>2, <1>5 DEF Propagate, Dequeue, Propagated, VisitBinary, StartLong, SkipClause, MoveWatch, KeepWatch, EndLong
<1>6. CASE NoConflict \/ Simplify \/ KeepLearnts \/ NothingToReduce \/ reduceDB \/ CheckGarbage \/ Return
  BY <1>2, <1>6 DEF NoConflict, Simplify, KeepLearnts, NothingToReduce, reduceDB, CheckGarbage, Return, Returned
<1>7. CASE SearchConflict
  BY <1>7 DEF SearchConflict, Leave, PendingInv, Busy
<1>8. CASE Restart
  BY <1>8 DEF Restart, Leave, withinBudget, user
<1>9. CASE SimplifyReturns
  BY <1>2, <1>9 DEF SimplifyReturns, Leave, PendingInv, Busy
<1>10. CASE DummyLevel \/ Assume \/ AssumptionFails \/ AnalyzeFinal \/ PickBranchLit
  BY <1>2, <1>10 DEF DummyLevel, Assume, AssumptionFails, AnalyzeFinal, PickBranchLit, Decided
<1>11. CASE Analyze \/ Minimise \/ litRedundant \/ Shorten \/ Learn
  BY <1>11 DEF Analyze, Minimise, litRedundant, Shorten, Learn
<1>. QED
  BY <1>1, <1>3, <1>4, <1>5, <1>6, <1>7, <1>8, <1>9, <1>10, <1>11 DEF Next, Step, User, Search

\* When nothing is left to decide, every variable is assigned.
LEMMA AllAssigned ==
    ASSUME IInv, DecisionInv, Candidates = {}, NEW l \in NLits
    PROVE  isTrue(l) \/ isTrue(-l)
<1>1. l \in Lits /\ var(l) <= nVars /\ var(l) \in Vars /\ (l = var(l) \/ l = -var(l)) /\ -(-l) = l
  BY LitsFacts DEF NLits
<1>2. var(l) \in 1 .. nVars
  BY <1>1, MaxVarsAssumption DEF Vars, IInv, ValuesInv
<1>3. decision[var(l)]
  BY <1>2 DEF DecisionInv
<1>4. ~ isUndef(var(l))
  <2>1. SUFFICES ASSUME isUndef(var(l))  PROVE FALSE
    OBVIOUS
  <2>2. var(l) \in order_heap
    BY <1>2, <1>3, <2>1 DEF IInv, OrderInv, OrderComplete
  <2>3. var(l) \in Candidates
    BY <1>3, <2>1, <2>2 DEF Candidates
  <2>. QED
    BY <2>3
<1>5. isTrue(var(l)) \/ isTrue(-var(l))
  BY <1>4 DEF isUndef, isFalse
<1>6. CASE l = var(l)
  BY <1>5, <1>6
<1>7. CASE l = -var(l)
  <2>1. -l = var(l)
    BY <1>1, <1>7, LitsFacts
  <2>. QED
    BY <1>5, <1>7, <2>1
<1>. QED
  BY <1>1, <1>6, <1>7

\* When nothing is left to decide the trail satisfies every clause that was
\* added, and the assumptions.
LEMMA ModelHolds ==
    ASSUME PInv, DecisionInv, KeepsInv, HeldInv, ModelFound
    PROVE  (\A c \in formula : c \cap Found # {}) /\ ToSet(assumptions) \subseteq Found
<1>1. /\ IInv /\ OkInv /\ DoneInv /\ pc = "decide" /\ decisionLevel >= Len(assumptions) /\ Candidates = {}
  BY DEF PInv, ModelFound
<1>2. /\ OrderInv /\ LevelsInv /\ ClausesInv /\ UseInv /\ decisionLevel \in Nat /\ Len(trail) \in Nat
      /\ DOMAIN trail = 1 .. Len(trail) /\ qhead = Len(trail)
      /\ Len(assumptions) \in Nat /\ DOMAIN assumptions = 1 .. Len(assumptions)
  BY <1>1, TrailFacts DEF IInv, ValuesInv, QueueInv
<1>3. ok
  BY <1>1 DEF OkInv
<1>4. ASSUME NEW l, isTrue(l)  PROVE l \in Found
  BY <1>4 DEF isTrue, Found
<1>5. ASSUME NEW c \in formula  PROVE c \cap Found # {}
  <2>1. c \subseteq NLits /\ Kept0(c)
    BY <1>3, <1>5 DEF KeepsInv
  <2>2. CASE Tautology(c)
    <3>1. PICK l \in c : -l \in c
      BY <2>2 DEF Tautology
    <3>2. isTrue(l) \/ isTrue(-l)
      BY <1>1, <2>1, <3>1, AllAssigned
    <3>. QED
      BY <1>4, <3>1, <3>2
  <2>3. ASSUME NEW l \in c, TrueAt(l, {0})  PROVE c \cap Found # {}
    BY <1>4, <2>3 DEF TrueAt, isTrue
  <2>4. ASSUME NEW cr \in clauses, ToSet(lits(cr)) \subseteq c  PROVE c \cap Found # {}
    <3>1. SUFFICES \E l \in ToSet(lits(cr)) : isTrue(l)
      BY <1>4, <2>4
    <3>. DEFINE f == lits(cr)[1]
    <3>2. cr \in DOMAIN ca
      BY <1>2 DEF UseInv, InUse
    <3>3. f \in ToSet(lits(cr)) /\ f \in FirstTwo(cr)
      BY <1>2, <3>2, ClauseFacts DEF ToSet, FirstTwo
    <3>4. f \in NLits /\ -(-f) = f
      <4>1. f \in NLits
        BY <2>1, <2>4, <3>3
      <4>. QED
        BY <4>1, LitsFacts DEF NLits
    <3>. HIDE DEF f
    <3>5. CASE isTrue(f)
      BY <3>3, <3>5
    <3>6. CASE isTrue(-f)
      <4>1. PICK i \in DOMAIN trail : trail[i].lit = -f
        BY <3>6 DEF isTrue
      <4>2. -trail[i].lit \in FirstTwo(cr)
        BY <3>3, <3>4, <4>1
      <4>3. Settled(i, cr)
        <5>1. Calm /\ ~ Waiting(cr)
          BY <1>1 DEF Calm, Waiting
        <5>2. i <= qhead
          BY <1>2
        <5>. QED
          BY <5>1, <5>2 DEF Settled
      <4>4. Helped(cr, trail[i].level)
        BY <1>1, <4>2, <4>3 DEF DoneInv
      <4>. QED
        BY <4>4 DEF Helped, isTrue
    <3>. QED
      BY <1>1, <3>4, <3>5, <3>6, AllAssigned
  <2>. QED
    BY <2>1, <2>2, <2>3, <2>4 DEF Kept0
<1>6. ASSUME NEW j \in DOMAIN assumptions  PROVE assumptions[j] \in Found
  <2>1. j <= decisionLevel
    BY <1>1, <1>2
  <2>2. TrueAt(assumptions[j], 0 .. j)
    BY <2>1 DEF HeldInv
  <2>. QED
    BY <1>4, <2>2 DEF TrueAt, isTrue
<1>. QED
  BY <1>5, <1>6 DEF ToSet

\* When only literals of level 0 are left to explain, the core follows from the
\* formula alone.
LEMMA CoreHolds ==
    ASSUME IInv, CoreInv, FinalAnalyzed
    PROVE  OfAssumptions /\ Implies(formula, conflict)
<1>1. pc = "final" /\ SeenAbove = {}
  BY DEF FinalAnalyzed
<1>2. OfAssumptions /\ Implies(formula, conflict \cup NegOf(an.seen))
  BY <1>1 DEF CoreInv
<1>3. MeaningInv /\ LevelsInv /\ OrderInv /\ decisionLevel \in Nat /\ an \in AnType
  BY TrailFacts DEF IInv, ValuesInv
<1>4. ASSUME NEW m \in Models(formula)  PROVE \E l \in conflict : Holds(m, l)
  <2>1. PICK l \in conflict \cup NegOf(an.seen) : Holds(m, l)
    BY <1>2 DEF Implies, Satisfies
  <2>2. SUFFICES ASSUME l \in NegOf(an.seen)  PROVE FALSE
    BY <2>1
  <2>3. PICK j \in DOMAIN trail : var(trail[j].lit) \in an.seen /\ l = -trail[j].lit
    BY <2>2 DEF NegOf
  <2>. DEFINE v == var(trail[j].lit)
  <2>4. trail[j].lit \in Lits /\ v \in Vars /\ var(v) = v
    BY <1>3, <2>3, LitsFacts DEF LevelsInv, NLits
  <2>. HIDE DEF v
  <2>5. level(v) = trail[j].level
    <3>1. var(v) = var(trail[j].lit)
      BY <2>4 DEF v
    <3>2. place(var(v)) = j /\ level(v) = trail[j].level
      BY <1>3, <3>1, PlaceOf
    <3>. QED
      BY <3>2
  <2>6. v \in an.seen /\ ~ level(v) > 0
    BY <1>1, <2>3 DEF SeenAbove, v
  <2>7. trail[j].level = 0
    <3>1. trail[j].level \in 0 .. decisionLevel
      BY <1>3 DEF LevelsInv
    <3>. QED
      BY <1>3, <2>5, <2>6, <3>1
  <2>8. Holds(m, trail[j].lit)
    BY <1>3, <2>7, LevelZero
  <2>9. m \in Assignments
    BY DEF Models
  <2>. QED
    BY <2>1, <2>3, <2>4, <2>8, <2>9, HoldsNot
<1>. QED
  BY <1>2, <1>4 DEF Implies, Satisfies

\* A step keeps ReturnInv: what a call is about to return is right.
LEMMA EndStep ==
    ASSUME OInv, [Next]_svars
    PROVE  ReturnInv'
<1>0. PInv /\ IInv /\ PendingInv /\ DecisionInv /\ KeepsInv /\ HeldInv /\ CoreInv /\ ReturnInv
  BY DEF OInv, PInv
<1>1. SUFFICES ASSUME pc' = "return"  PROVE ReturnInv'
  BY DEF ReturnInv
<1>2. CASE ModelFound
  <2>1. UNCHANGED <<trail, formula, assumptions>> /\ status' = "true"
    BY <1>2 DEF ModelFound, Leave, UnchangedByDecide, user
  <2>2. (\A c \in formula : c \cap Found # {}) /\ ToSet(assumptions) \subseteq Found
    BY <1>0, <1>2, ModelHolds
  <2>. QED
    BY <2>1, <2>2 DEF ReturnInv, Found
<1>3. CASE FinalAnalyzed
  <2>1. UNCHANGED <<formula, assumptions, conflict>> /\ status' = "false"
    BY <1>3 DEF FinalAnalyzed, Leave, UnchangedByDecide, user
  <2>2. OfAssumptions /\ Implies(formula, conflict)
    BY <1>0, <1>3, CoreHolds
  <2>. QED
    BY <2>1, <2>2 DEF ReturnInv, OfAssumptions, Implies
<1>4. CASE /\ pc = "return" /\ UNCHANGED <<trail, formula, assumptions, status, conflict>>
           /\ asynch_interrupt => asynch_interrupt'
  BY <1>0, <1>4 DEF ReturnInv, OfAssumptions, Implies, Found
<1>5. CASE status' = "false" /\ conflict' = {}
  <2>1. Models(formula') = {}
    BY <1>0, <1>1, <1>5, ReturnStep
  <2>. QED
    BY <1>5, <2>1 DEF ReturnInv, OfAssumptions, Implies
<1>6. CASE status' = "undef" /\ asynch_interrupt'
  BY <1>6 DEF ReturnInv
<1>. QED
  BY <1>0, <1>1, <1>2, <1>3, <1>4, <1>5, <1>6, EndPlaces

-----------------------------------------------------------------------------
\* OInv holds in the initial states.
LEMMA OInvInit ==
    ASSUME Init, AllDecided
    PROVE  OInv
<1>1. PInv
  BY PInvInit
<1>2. DecisionInv /\ KeepsInv /\ CoreInv /\ ReturnInv
  BY DEF Init, InitWith, DecisionInv, KeepsInv, CoreInv, ReturnInv
<1>3. trail = <<>> /\ assumptions = <<>>
  BY DEF Init, InitWith
<1>4. AssumedInv /\ HeldInv
  BY <1>3 DEF AssumedInv, HeldInv
<1>. QED
  BY <1>1, <1>2, <1>4 DEF OInv

\* OInv is inductive.
LEMMA OInvStep ==
    ASSUME OInv, [Next]_svars
    PROVE  OInv'
<1>1. IInv /\ OkInv
  BY DEF OInv, PInv
<1>2. PInv'
  BY PInvStep DEF OInv
<1>3. DecisionInv'
  BY <1>1, DecisionStep DEF OInv
<1>4. KeepsInv'
  BY <1>1, KeepsStep DEF OInv
<1>5. AssumedInv'
  BY <1>1, AssumedStep DEF OInv
<1>6. HeldInv'
  BY <1>1, HeldStep DEF OInv
<1>7. CoreInv'
  BY <1>1, CoreStep DEF OInv
<1>8. ReturnInv'
  BY EndStep
<1>9. AllDecided'
  BY DEF OInv, AllDecided
<1>. QED
  BY <1>2, <1>3, <1>4, <1>5, <1>6, <1>7, <1>8, <1>9 DEF OInv

-----------------------------------------------------------------------------
(***************************************************************************)
(* Every step is one of the oracle, or none.                               *)
(***************************************************************************)

\* What the oracle knows of the answer.
ModelSeen == IF answer = "sat" THEN model ELSE {}
CoreSeen == IF answer = "unsat" THEN conflict ELSE {}
Seen == <<formula, ToSet(assumptions), answer, ModelSeen, CoreSeen, asynch_interrupt>>

\* The steps that the oracle does not see.
LEMMA UnseenSteps ==
    ASSUME PendingInv, [Next]_svars, ~ addClause, ~ solve, ~ interrupt, ~ Return
    PROVE  UNCHANGED Seen
<1>1. /\ UNCHANGED <<formula, assumptions, answer, asynch_interrupt, model>>
      /\ UNCHANGED conflict \/ answer = "pending"
  <2>1. CASE newVar \/ callSimplify \/ Added \/ UNCHANGED svars
    BY <2>1 DEF newVar, callSimplify, Added, svars, user, result
  <2>2. CASE Propagate \/ CheckGarbage
    BY <2>2 DEF Propagate, Dequeue, Propagated, VisitBinary, StartLong, SkipClause, MoveWatch, KeepWatch, EndLong,
                UnchangedByPropagate, CheckGarbage, user, result
  <2>3. CASE SearchConflict \/ Analyze \/ Minimise \/ litRedundant \/ Shorten \/ Learn \/ Restart \/ NoConflict
    BY <2>3 DEF SearchConflict, Analyze, Minimise, litRedundant, Shorten, UnchangedByAnalyze, Learn, Restart,
                NoConflict, user, result
  <2>4. CASE SimplifyReturns \/ Simplify \/ KeepLearnts \/ NothingToReduce \/ reduceDB
    BY <2>4 DEF SimplifyReturns, Simplify, KeepLearnts, NothingToReduce, reduceDB, user, result
  <2>5. CASE DummyLevel \/ Assume \/ FinalAnalyzed \/ PickBranchLit \/ ModelFound
    BY <2>5 DEF DummyLevel, Assume, FinalAnalyzed, PickBranchLit, ModelFound, UnchangedByDecide, user, result
  <2>6. CASE AssumptionFails \/ AnalyzeFinal
    <3>1. answer = "pending"
      BY <2>6 DEF AssumptionFails, AnalyzeFinal, PendingInv, Busy
    <3>. QED
      BY <2>6, <3>1 DEF AssumptionFails, AnalyzeFinal, UnchangedByDecide, user
  <2>. QED
    BY <2>1, <2>2, <2>3, <2>4, <2>5, <2>6 DEF Next, Step, User, Search
<1>2. UNCHANGED <<ModelSeen, CoreSeen, ToSet(assumptions)>>
  BY <1>1 DEF ModelSeen, CoreSeen
<1>. QED
  BY <1>1, <1>2 DEF Seen

\* addClause is Add of the oracle, or nothing if the clause was there.
LEMMA AddSeen ==
    ASSUME PendingInv, addClause
    PROVE  Oracle!Add \/ UNCHANGED Seen
<1>. DEFINE c == ToSet(call.lits)
<1>1. /\ pc = "idle" /\ formula' = formula \cup {c}
      /\ UNCHANGED <<assumptions, answer, model, conflict, asynch_interrupt>>
  BY DEF addClause, addClauseThen, UnchangedByAdd, result
<1>2. answer # "pending"
  BY <1>1 DEF PendingInv, Busy, Propagating
<1>3. UNCHANGED <<ModelSeen, CoreSeen, ToSet(assumptions)>>
  BY <1>1 DEF ModelSeen, CoreSeen
<1>. HIDE DEF c
<1>4. CASE c \in formula
  <2>1. formula' = formula
    BY <1>1, <1>4
  <2>. QED
    BY <1>1, <1>3, <2>1 DEF Seen
<1>5. CASE c \notin formula
  <2>1. c \in formula' \ formula
    BY <1>1, <1>5
  <2>. QED
    BY <1>1, <1>2, <1>3, <2>1 DEF Oracle!Add, ModelSeen, CoreSeen
<1>. QED
  BY <1>4, <1>5

\* solve is Ask of the oracle.
LEMMA AskSeen ==
    ASSUME PendingInv, solve
    PROVE  Oracle!Ask
<1>1. pc = "idle" /\ answer' = "pending" /\ UNCHANGED <<formula, asynch_interrupt>>
  BY DEF solve
<1>2. answer # "pending"
  BY <1>1 DEF PendingInv, Busy, Propagating
<1>. QED
  BY <1>1, <1>2 DEF Oracle!Ask

\* interrupt is Interrupt of the oracle.
LEMMA InterruptSeen ==
    ASSUME interrupt
    PROVE  Oracle!Interrupt
<1>1. asynch_interrupt' = TRUE /\ UNCHANGED <<formula, assumptions, answer, model, conflict>>
  BY DEF interrupt, result
<1>2. UNCHANGED <<ModelSeen, CoreSeen, ToSet(assumptions)>>
  BY <1>1 DEF ModelSeen, CoreSeen
<1>. QED
  BY <1>1, <1>2 DEF Oracle!Interrupt, ModelSeen, CoreSeen

\* What a call returns is a model of the formula and the assumptions, or a clause over
\* the negated assumptions that follows from the formula, unless it was interrupted.
LEMMA AnswerSeen ==
    ASSUME OInv, Return
    PROVE  Oracle!Answer
<1>1. /\ pc = "return" /\ answer' = Answered /\ model' = (IF status = "true" THEN Found ELSE model)
      /\ UNCHANGED <<formula, assumptions, conflict, asynch_interrupt>>
  BY DEF Return, Returned
<1>2. answer = "pending"
  BY <1>1 DEF OInv, PInv, PendingInv, Busy
<1>3. UNCHANGED ToSet(assumptions)
  BY <1>1
<1>4. CASE status = "true"
  <2>1. (\A c \in formula : c \cap Found # {}) /\ ToSet(assumptions) \subseteq Found
    BY <1>1, <1>4 DEF OInv, ReturnInv
  <2>2. \A l \in Found : -l \notin Found
    <3>1. LevelsInv
      BY DEF OInv, PInv, IInv
    <3>2. SUFFICES ASSUME NEW i \in DOMAIN trail, NEW j \in DOMAIN trail, trail[j].lit = -trail[i].lit
                   PROVE  FALSE
      BY DEF Found
    <3>. QED
      BY <3>1, <3>2, OneSign
  <2>3. answer' = "sat" /\ model' = Found
    BY <1>1, <1>4 DEF Answered
  <2>4. Oracle!AnswerSat
    BY <1>2, <2>1, <2>2, <2>3 DEF Oracle!AnswerSat
  <2>. QED
    BY <1>1, <1>2, <1>3, <2>4 DEF Oracle!Answer
<1>5. CASE status = "false"
  <2>1. OfAssumptions /\ Implies(formula, conflict)
    BY <1>1, <1>5 DEF OInv, ReturnInv
  <2>2. answer' = "unsat"
    BY <1>1, <1>5 DEF Answered
  <2>3. Oracle!Implies(formula, conflict)
    BY <2>1 DEF Implies, Models, Satisfies, Holds, Assignments, Vars,
                Oracle!Implies, Oracle!Models, Oracle!Satisfies, Oracle!Holds, Oracle!Assignments, Oracle!Vars
  <2>4. Oracle!AnswerUnsat
    BY <1>1, <1>2, <2>1, <2>2, <2>3 DEF Oracle!AnswerUnsat, OfAssumptions
  <2>. QED
    BY <1>1, <1>2, <1>3, <2>4 DEF Oracle!Answer
<1>6. CASE status \notin {"true", "false"}
  <2>1. asynch_interrupt
    BY <1>1, <1>6 DEF OInv, ReturnInv
  <2>2. answer' = "unknown"
    BY <1>1, <1>6 DEF Answered
  <2>3. Oracle!AnswerUnknown
    BY <1>2, <2>1, <2>2 DEF Oracle!AnswerUnknown
  <2>. QED
    BY <1>1, <1>2, <1>3, <2>3 DEF Oracle!Answer
<1>. QED
  BY <1>4, <1>5, <1>6

\* Every step of the solver is a step of the oracle or leaves what the oracle
\* shows.
LEMMA OracleSteps ==
    ASSUME OInv, [Next]_svars
    PROVE  Oracle!Add \/ Oracle!Ask \/ Oracle!Interrupt \/ Oracle!Answer \/ UNCHANGED Seen
<1>1. PendingInv
  BY DEF OInv, PInv
<1>. QED
  BY <1>1, UnseenSteps, AddSeen, AskSeen, InterruptSeen, AnswerSeen

\* The answers are right: if every variable may be decided (as newVar has it, unless it
\* is told otherwise), each call of solve returns a model of all clauses added and of
\* the assumptions, or a clause over the negated assumptions that the clauses added
\* imply, or, only after interrupt, nothing.
THEOREM AnswersAreRight == AllDecided => (Spec => ImplementsOracle)
<1>. SUFFICES ASSUME AllDecided  PROVE Spec => ImplementsOracle
  OBVIOUS
<1>1. Init => OInv
  BY OInvInit
<1>2. OInv /\ [Next]_svars => OInv'
  BY OInvStep
<1>3. Init => Oracle!Init
  <2>1. ASSUME Init
        PROVE  formula = {} /\ assumptions = <<>> /\ answer = "none" /\ asynch_interrupt = FALSE
    BY <2>1 DEF Init, InitWith
  <2>2. ASSUME Init  PROVE ToSet(assumptions) = {}
    BY <2>1, <2>2 DEF ToSet
  <2>. QED
    BY <2>1, <2>2 DEF Oracle!Init
<1>4. OInv /\ [Next]_svars => [Oracle!Add \/ Oracle!Ask \/ Oracle!Interrupt \/ Oracle!Answer]_(Oracle!ovars)
  BY OracleSteps DEF Oracle!ovars, Seen, ModelSeen, CoreSeen
<1>. QED
  BY <1>1, <1>2, <1>3, <1>4, PTL DEF Spec, ImplementsOracle, Oracle!Spec
=============================================================================
