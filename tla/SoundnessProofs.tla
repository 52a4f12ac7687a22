-------------------------- MODULE SoundnessProofs ---------------------------
(***************************************************************************)
(* Solver is sound for every script of calls, every bound and every        *)
(* constant of its heuristics: what it learns and forces follows from the  *)
(* clauses that were added, learnt clauses assert, reasons imply, and      *)
(* watch lists are exact.                                                  *)
(***************************************************************************)
EXTENDS SolverProofs

-----------------------------------------------------------------------------
(***************************************************************************)
(* Conflict analysis: marking and resolving.                               *)
(***************************************************************************)

\* The levels do not decrease along the trail.
LEMMA LevelsOrdered ==
    ASSUME OrderInv, LevelsInv, NEW i \in DOMAIN trail, NEW j \in DOMAIN trail, i <= j
    PROVE  trail[i].level <= trail[j].level
<1>. DEFINE L == trail[i].level
<1>1. L \in 0 .. decisionLevel /\ trail[j].level \in 0 .. decisionLevel /\ decisionLevel \in Nat
      /\ i \in Nat /\ j \in Nat
  BY TrailFacts DEF LevelsInv
<1>2. CASE L = 0
  BY <1>1, <1>2
<1>3. CASE L # 0
  <2>1. L \in DOMAIN trail_lim /\ trail_lim[L] \in Nat
    BY <1>1, <1>3, TrailFacts
  <2>2. trail_lim[L] < i
    BY <1>1, <2>1 DEF LevelsInv
  <2>3. trail_lim[L] < j
    BY <1>1, <2>1, <2>2
  <2>. QED
    BY <2>1, <2>3 DEF LevelsInv
<1>. QED
  BY <1>2, <1>3

\* A literal that is false, in terms of its place.
LEMMA FalseFacts ==
    ASSUME LevelsInv, NEW j \in DOMAIN trail, NEW l \in Lits, trail[j].lit = -l
    PROVE  /\ var(trail[j].lit) = var(l) /\ level(l) = trail[j].level /\ reason(l) = trail[j].reason
           /\ ~ isTrue(l) /\ isFalse(l)
<1>1. var(trail[j].lit) = var(l)
  BY LitsFacts
<1>2. \A i \in DOMAIN trail : trail[i].lit # l
  <2>1. SUFFICES ASSUME NEW i \in DOMAIN trail, trail[i].lit = l  PROVE FALSE
    OBVIOUS
  <2>. QED
    BY <2>1, OneSign
<1>. QED
  BY <1>1, <1>2, PlaceOf DEF isTrue, isFalse

\* The last place of the trail with a marked variable.
LEMMA LastSeenFacts ==
    ASSUME OrderInv, NEW S, NEW v \in S, \A u \in S : \E j \in DOMAIN trail : var(trail[j].lit) = u
    PROVE  LET i == LastSeen(S) IN
           /\ i \in DOMAIN trail /\ var(trail[i].lit) \in S
           /\ \A j \in DOMAIN trail : var(trail[j].lit) \in S => j <= i
<1>. DEFINE N == Len(trail)
            T == {n \in Nat : \E j \in DOMAIN trail : j + n = N /\ var(trail[j].lit) \in S}
<1>1. N \in Nat /\ DOMAIN trail = 1 .. N
  BY TrailFacts
<1>2. T # {}
  <2>1. PICK j \in DOMAIN trail : var(trail[j].lit) = v
    OBVIOUS
  <2>2. N - j \in Nat /\ j + (N - j) = N
    BY <1>1
  <2>. HIDE DEF N
  <2>3. N - j \in T
    BY <2>1, <2>2
  <2>. QED
    BY <2>3
<1>3. PICK n \in T : \A m \in T : n <= m
  BY <1>2, LeastNat
<1>4. PICK i \in DOMAIN trail : i + n = N /\ var(trail[i].lit) \in S
  BY <1>3
<1>. HIDE DEF N
<1>5. ASSUME NEW j \in DOMAIN trail, var(trail[j].lit) \in S  PROVE j <= i
  <2>1. N - j \in Nat /\ j + (N - j) = N
    BY <1>1
  <2>2. N - j \in T
    BY <1>5, <2>1
  <2>3. n <= N - j /\ n \in Nat
    BY <1>3, <2>2
  <2>. HIDE DEF T
  <2>4. i \in Nat /\ j \in Nat
    BY <1>1
  <2>. QED
    BY <1>1, <1>4, <2>3, <2>4
<1>6. \A j \in i + 1 .. Len(trail) : var(trail[j].lit) \notin S
  <2>1. SUFFICES ASSUME NEW j \in i + 1 .. Len(trail), var(trail[j].lit) \in S  PROVE FALSE
    OBVIOUS
  <2>2. j \in DOMAIN trail /\ j > i
    BY <1>1, <1>4, <2>1 DEF N
  <2>. QED
    BY <1>1, <1>4, <1>5, <2>1, <2>2
<1>7. /\ LastSeen(S) \in DOMAIN trail /\ var(trail[LastSeen(S)].lit) \in S
      /\ \A j \in LastSeen(S) + 1 .. Len(trail) : var(trail[j].lit) \notin S
  <2>. DEFINE P(k) == /\ var(trail[k].lit) \in S
                      /\ \A j \in k + 1 .. Len(trail) : var(trail[j].lit) \notin S
  <2>1. \E k \in DOMAIN trail : P(k)
    BY <1>4, <1>6
  <2>2. LastSeen(S) = CHOOSE k \in DOMAIN trail : P(k)
    BY DEF LastSeen
  <2>. HIDE DEF P
  <2>3. LastSeen(S) \in DOMAIN trail /\ P(LastSeen(S))
    BY <2>1, <2>2
  <2>. QED
    BY <2>3 DEF P
<1>. DEFINE e == LastSeen(S)
<1>8. \A j \in DOMAIN trail : var(trail[j].lit) \in S => j <= e
  <2>1. SUFFICES ASSUME NEW j \in DOMAIN trail, var(trail[j].lit) \in S, ~ j <= e  PROVE FALSE
    OBVIOUS
  <2>2. e \in DOMAIN trail
    BY <1>7
  <2>. HIDE DEF e
  <2>3. j \in e + 1 .. Len(trail)
    BY <1>1, <2>1, <2>2 DEF N
  <2>. QED
    BY <1>7, <2>1, <2>3 DEF e
<1>. QED
  BY <1>7, <1>8

\* The literals of a clause that are to be marked.
LEMMA UnmarkedFacts ==
    ASSUME NEW ps \in Seq(Lits), NEW k \in Nat \ {0}, NEW seen
    PROVE  LET new == Unmarked(ps, k, seen) IN
           /\ new \in Seq(Lits)
           /\ \A n \in DOMAIN new : \E m \in k .. Len(ps) :
                 new[n] = ps[m] /\ var(ps[m]) \notin seen /\ level(ps[m]) > 0
           /\ \A m \in k .. Len(ps) : \/ \E n \in DOMAIN new : new[n] = ps[m]
                                      \/ var(ps[m]) \in seen
                                      \/ ~ level(ps[m]) > 0
           /\ (\A m, n \in k .. Len(ps) : var(ps[m]) = var(ps[n]) => m = n) => VarInjective(new)
<1>. DEFINE I == {i \in k .. Len(ps) : var(ps[i]) \notin seen /\ level(ps[i]) > 0}
            new == Selected(ps, I)
<1>0. Unmarked(ps, k, seen) = new
  BY DEF Unmarked
<1>1. I \subseteq DOMAIN ps
  OBVIOUS
<1>2. \A i \in I : i \in k .. Len(ps) /\ var(ps[i]) \notin seen /\ level(ps[i]) > 0
  OBVIOUS
<1>3. \A m \in k .. Len(ps) : m \in I \/ var(ps[m]) \in seen \/ ~ level(ps[m]) > 0
  OBVIOUS
<1>. HIDE DEF I
<1>4. /\ new \in Seq(Lits)
      /\ \A n \in DOMAIN new : Nth(I, n) \in I /\ new[n] = ps[Nth(I, n)]
      /\ \A n, m \in DOMAIN new : Nth(I, n) = Nth(I, m) => n = m
      /\ \A i \in I : \E n \in DOMAIN new : new[n] = ps[i]
  BY <1>1, SelectedFacts
<1>. HIDE DEF new
<1>5. ASSUME \A m, n \in k .. Len(ps) : var(ps[m]) = var(ps[n]) => m = n  PROVE VarInjective(new)
  <2>1. SUFFICES ASSUME NEW a \in DOMAIN new, NEW b \in DOMAIN new, var(new[a]) = var(new[b])
                 PROVE  a = b
    BY DEF VarInjective
  <2>2. Nth(I, a) \in k .. Len(ps) /\ Nth(I, b) \in k .. Len(ps)
    BY <1>2, <1>4
  <2>3. Nth(I, a) = Nth(I, b)
    BY <1>4, <1>5, <2>1, <2>2
  <2>. QED
    BY <1>4, <2>3
<1>6. \A n \in DOMAIN new : \E m \in k .. Len(ps) :
          new[n] = ps[m] /\ var(ps[m]) \notin seen /\ level(ps[m]) > 0
  BY <1>2, <1>4
<1>7. \A m \in k .. Len(ps) : \/ \E n \in DOMAIN new : new[n] = ps[m]
                              \/ var(ps[m]) \in seen
                              \/ ~ level(ps[m]) > 0
  BY <1>3, <1>4
<1>. QED
  BY <1>0, <1>4, <1>5, <1>6, <1>7

\* The reason of a literal, read with TrueFirst: the literal, and what was false before.
LEMMA ReasonSides ==
    ASSUME IInv, NEW i \in DOMAIN trail, NEW cr, Given(cr, i)
    PROVE  LET ps == TrueFirst(lits(cr)) IN
           /\ ps \in Seq(Lits) /\ Len(ps) >= 2 /\ ToSet(ps) = ToSet(lits(cr)) /\ GoodClause(ps)
           /\ ps[1] = trail[i].lit
           /\ \A k \in 2 .. Len(ps) : \E j \in 1 .. i - 1 : trail[j].lit = -ps[k]
<1>. DEFINE t == lits(cr)
            ps == TrueFirst(t)
<1>1. cr \in DOMAIN ca /\ LevelsInv /\ OrderInv /\ ClausesInv
  BY DEF IInv, Given
<1>2. /\ \E k \in DOMAIN t : t[k] = trail[i].lit
      /\ Len(t) > 2 => t[1] = trail[i].lit
      /\ \A k \in DOMAIN t : \/ t[k] = trail[i].lit
                             \/ \E j \in 1 .. i - 1 : trail[j].lit = -t[k]
  BY DEF Given
<1>3. /\ GoodClause(t) /\ t \in Seq(Lits) /\ Len(t) \in Nat /\ Len(t) >= 2 /\ DOMAIN t = 1 .. Len(t)
      /\ \A k \in DOMAIN t : t[k] \in NLits
      /\ \A k, m \in DOMAIN t : t[k] = t[m] => k = m
  BY <1>1, ClauseFacts DEF GoodClause
<1>4. ps \in Seq(Lits) /\ Rearranged(ps, t) /\ (Len(ps) > 2 => ps = t)
      /\ ps = IF Len(t) = 2 /\ isFalse(t[1]) THEN Swapped(t, 1, 2) ELSE t
  BY <1>1, TrueFirstFacts DEF TrueFirst
<1>5. /\ Len(ps) = Len(t) /\ ToSet(ps) = ToSet(t)
      /\ \A k \in DOMAIN ps : \E m \in DOMAIN t : ps[k] = t[m]
      /\ (\A k, m \in DOMAIN t : t[k] = t[m] => k = m) => (\A k, m \in DOMAIN ps : ps[k] = ps[m] => k = m)
  BY <1>4, RearrangedFacts
<1>6. ps[1] = trail[i].lit
  <2>0. 1 \in DOMAIN t /\ 2 \in DOMAIN t
    BY <1>3
  <2>1. CASE Len(t) = 2 /\ isFalse(t[1])
    <3>1. ps = Swapped(t, 1, 2)
      BY <1>4, <2>1
    <3>2. ps[1] = t[2]
      <4>. HIDE DEF ps, t
      <4>. QED
        BY <1>3, <2>0, <3>1, SwappedFacts
    <3>3. t[1] # trail[i].lit
      <4>1. PICK j \in DOMAIN trail : trail[j].lit = -t[1]
        BY <2>1 DEF isFalse, isTrue
      <4>. QED
        BY <1>1, <1>3, <2>0, <4>1, OneSign, LitsFacts
    <3>. HIDE DEF t, ps
    <3>4. \A k \in DOMAIN t : k = 1 \/ k = 2
      BY <1>3, <2>1
    <3>. QED
      BY <1>2, <3>2, <3>3, <3>4
  <2>2. CASE ~ (Len(t) = 2 /\ isFalse(t[1]))
    <3>1. ps = t
      BY <1>4, <2>2
    <3>2. CASE Len(t) > 2
      BY <1>2, <3>1, <3>2
    <3>3. CASE ~ isFalse(t[1])
      <4>1. \A j \in 1 .. i - 1 : j \in DOMAIN trail
        BY <1>1, TrailFacts
      <4>. QED
        BY <1>2, <2>0, <3>1, <3>3, <4>1 DEF isFalse, isTrue
    <3>4. Len(t) > 2 \/ ~ isFalse(t[1])
      <4>. HIDE DEF t
      <4>. QED
        BY <1>3, <2>2
    <3>. QED
      BY <3>2, <3>3, <3>4
  <2>. QED
    BY <2>1, <2>2
<1>7. Len(ps) \in Nat /\ DOMAIN ps = 1 .. Len(ps)
  BY <1>4
<1>8. GoodClause(ps)
  BY <1>3, <1>4, <1>5 DEF GoodClause
<1>. HIDE DEF ps
<1>9. ASSUME NEW k \in 2 .. Len(ps)  PROVE \E j \in 1 .. i - 1 : trail[j].lit = -ps[k]
  <2>1. k \in DOMAIN ps /\ 1 \in DOMAIN ps /\ k # 1
    BY <1>7
  <2>2. ps[k] # trail[i].lit
    BY <1>3, <1>5, <1>6, <2>1
  <2>. QED
    BY <1>2, <1>5, <2>1, <2>2
<1>10. Len(ps) >= 2
  BY <1>3, <1>5
<1>. QED
  BY <1>4, <1>5, <1>6, <1>8, <1>9, <1>10 DEF ps

\* What a step of analyze computes.
AnPs == IF an.p = Undef THEN lits(confl) ELSE TrueFirst(lits(confl))
AnNew == Unmarked(AnPs, FirstToMark, an.seen)
AnSeen == an.seen \cup VarsOf(AnNew)
AnLast == LastSeen(AnSeen)
AnLeft == AnSeen \ {var(trail[AnLast].lit)}
AnOut == an.out \o Below(AnNew)

\* The clause that analyze resolves with: it follows from the formula, and all
\* its literals but the one resolved on are false.
LEMMA AnalyzeSides ==
    ASSUME IInv, pc = "analyze"
    PROVE  /\ AnPs \in Seq(Lits) /\ Len(AnPs) \in Nat /\ GoodClause(AnPs) /\ FirstToMark \in Nat \ {0}
           /\ FirstToMark = IF an.p = Undef THEN 1 ELSE 2
           /\ Implies(formula, ToSet(AnPs))
           /\ \A k \in FirstToMark .. Len(AnPs) : \E j \in DOMAIN trail : trail[j].lit = -AnPs[k]
           /\ an.p = Undef => \E k \in DOMAIN AnPs : \E j \in DOMAIN trail :
                                 trail[j].lit = -AnPs[k] /\ trail[j].level = decisionLevel
           /\ an.p # Undef => AnPs[1] = an.p
<1>0. confl \in DOMAIN ca /\ OrderInv /\ ClausesInv /\ LevelsInv
  BY Resolved DEF IInv
<1>1. Implies(formula, ToSet(lits(confl)))
  BY <1>0 DEF IInv, MeaningInv
<1>2. FirstToMark \in Nat \ {0} /\ FirstToMark = IF an.p = Undef THEN 1 ELSE 2
  BY DEF FirstToMark
<1>3. CASE an.p = Undef
  <2>1. AnPs = lits(confl) /\ FirstToMark = 1
    BY <1>2, <1>3 DEF AnPs
  <2>2. Conflicting(confl)
    BY <1>3 DEF IInv, ConflictInv
  <2>3. GoodClause(AnPs) /\ AnPs \in Seq(Lits) /\ Len(AnPs) \in Nat /\ DOMAIN AnPs = 1 .. Len(AnPs)
    BY <1>0, <2>1, ClauseFacts
  <2>4. \A k \in DOMAIN AnPs : \E j \in DOMAIN trail : trail[j].lit = -AnPs[k]
    BY <2>1, <2>2 DEF Conflicting, isTrue
  <2>5. \E k \in DOMAIN AnPs : \E j \in DOMAIN trail : trail[j].lit = -AnPs[k] /\ trail[j].level = decisionLevel
    BY <2>1, <2>2 DEF Conflicting, TrueAt, Top
  <2>. QED
    BY <1>1, <1>2, <1>3, <2>1, <2>3, <2>4, <2>5
<1>4. CASE an.p # Undef
  <2>1. PICK i \in DOMAIN trail : trail[i].lit = an.p /\ Given(confl, i)
    BY <1>4, Resolved
  <2>2. AnPs = TrueFirst(lits(confl)) /\ FirstToMark = 2
    BY <1>2, <1>4 DEF AnPs
  <2>3. /\ AnPs \in Seq(Lits) /\ ToSet(AnPs) = ToSet(lits(confl)) /\ GoodClause(AnPs)
        /\ AnPs[1] = trail[i].lit
        /\ \A k \in 2 .. Len(AnPs) : \E j \in 1 .. i - 1 : trail[j].lit = -AnPs[k]
    BY <2>1, <2>2, ReasonSides
  <2>4. \A j \in 1 .. i - 1 : j \in DOMAIN trail
    BY <1>0, TrailFacts
  <2>5. Len(AnPs) \in Nat
    BY <2>3
  <2>. QED
    BY <1>1, <1>2, <1>4, <2>1, <2>2, <2>3, <2>4, <2>5
<1>. QED
  BY <1>3, <1>4

\* What is marked is above level 0, and false.
LEMMA AnalyzeNew ==
    ASSUME IInv, pc = "analyze"
    PROVE  /\ AnNew \in Seq(Lits) /\ VarInjective(AnNew)
           /\ \A n \in DOMAIN AnNew :
                 /\ var(AnNew[n]) \notin an.seen /\ AnNew[n] \in Lits
                 /\ \E j \in DOMAIN trail : trail[j].lit = -AnNew[n] /\ trail[j].level \in Above0
           /\ \A k \in FirstToMark .. Len(AnPs) :
                 \/ var(AnPs[k]) \in AnSeen
                 \/ \E j \in DOMAIN trail : trail[j].lit = -AnPs[k] /\ trail[j].level = 0
           /\ \A v \in AnSeen : SeenAt(v, Above0)
<1>0. OrderInv /\ LevelsInv /\ decisionLevel \in Nat
  BY TrailFacts DEF IInv
<1>1. /\ AnPs \in Seq(Lits) /\ Len(AnPs) \in Nat /\ GoodClause(AnPs) /\ FirstToMark \in Nat \ {0}
      /\ \A k \in FirstToMark .. Len(AnPs) : \E j \in DOMAIN trail : trail[j].lit = -AnPs[k]
  BY AnalyzeSides
<1>2. DOMAIN AnPs = 1 .. Len(AnPs) /\ \A k \in FirstToMark .. Len(AnPs) : k \in DOMAIN AnPs /\ AnPs[k] \in Lits
  BY <1>1
<1>3. \A m, n \in FirstToMark .. Len(AnPs) : var(AnPs[m]) = var(AnPs[n]) => m = n
  <2>1. SUFFICES ASSUME NEW m \in FirstToMark .. Len(AnPs), NEW n \in FirstToMark .. Len(AnPs),
                        var(AnPs[m]) = var(AnPs[n])
                 PROVE  m = n
    OBVIOUS
  <2>2. PICK a \in DOMAIN trail : trail[a].lit = -AnPs[m]
    BY <1>1
  <2>3. PICK b \in DOMAIN trail : trail[b].lit = -AnPs[n]
    BY <1>1
  <2>4. AnPs[m] # -AnPs[n]
    <3>1. trail[a].lit # -trail[b].lit
      BY <1>0, OneSign
    <3>. QED
      BY <1>2, <2>2, <2>3, <3>1, LitsFacts
  <2>5. AnPs[m] = AnPs[n]
    BY <1>2, <2>1, <2>4, LitsFacts
  <2>. QED
    BY <1>1, <1>2, <2>5 DEF GoodClause
<1>4. /\ AnNew \in Seq(Lits) /\ VarInjective(AnNew)
      /\ \A n \in DOMAIN AnNew : \E m \in FirstToMark .. Len(AnPs) :
            AnNew[n] = AnPs[m] /\ var(AnPs[m]) \notin an.seen /\ level(AnPs[m]) > 0
      /\ \A m \in FirstToMark .. Len(AnPs) : \/ \E n \in DOMAIN AnNew : AnNew[n] = AnPs[m]
                                             \/ var(AnPs[m]) \in an.seen
                                             \/ ~ level(AnPs[m]) > 0
  <2>. DEFINE f == FirstToMark
              ps == AnPs
              s == an.seen
  <2>1. ps \in Seq(Lits) /\ f \in Nat \ {0} /\ \A m, n \in f .. Len(ps) : var(ps[m]) = var(ps[n]) => m = n
    BY <1>1, <1>3
  <2>2. AnNew = Unmarked(ps, f, s)
    BY DEF AnNew
  <2>. HIDE DEF f, ps, s
  <2>. DEFINE new == Unmarked(ps, f, s)
  <2>4. /\ new \in Seq(Lits)
        /\ \A n \in DOMAIN new : \E m \in f .. Len(ps) :
              new[n] = ps[m] /\ var(ps[m]) \notin s /\ level(ps[m]) > 0
        /\ \A m \in f .. Len(ps) : \/ \E n \in DOMAIN new : new[n] = ps[m]
                                   \/ var(ps[m]) \in s
                                   \/ ~ level(ps[m]) > 0
        /\ (\A m, n \in f .. Len(ps) : var(ps[m]) = var(ps[n]) => m = n) => VarInjective(new)
    BY <2>1, UnmarkedFacts
  <2>5. VarInjective(new)
    BY <2>1, <2>4
  <2>6. AnNew = new
    BY <2>2
  <2>. HIDE DEF new
  <2>3. /\ AnNew \in Seq(Lits) /\ VarInjective(AnNew)
        /\ \A n \in DOMAIN AnNew : \E m \in f .. Len(ps) :
              AnNew[n] = ps[m] /\ var(ps[m]) \notin s /\ level(ps[m]) > 0
        /\ \A m \in f .. Len(ps) : \/ \E n \in DOMAIN AnNew : AnNew[n] = ps[m]
                                   \/ var(ps[m]) \in s
                                   \/ ~ level(ps[m]) > 0
    BY <2>4, <2>5, <2>6
  <2>. QED
    BY <2>3 DEF f, ps, s
<1>5. ASSUME NEW n \in DOMAIN AnNew
      PROVE  /\ var(AnNew[n]) \notin an.seen /\ AnNew[n] \in Lits
             /\ \E j \in DOMAIN trail : trail[j].lit = -AnNew[n] /\ trail[j].level \in Above0
  <2>1. PICK m \in FirstToMark .. Len(AnPs) :
           AnNew[n] = AnPs[m] /\ var(AnPs[m]) \notin an.seen /\ level(AnPs[m]) > 0
    BY <1>4
  <2>2. PICK j \in DOMAIN trail : trail[j].lit = -AnPs[m]
    BY <1>1
  <2>3. level(AnPs[m]) = trail[j].level
    BY <1>0, <1>2, <2>2, FalseFacts
  <2>4. trail[j].level \in 0 .. decisionLevel
    BY <1>0 DEF LevelsInv
  <2>5. trail[j].level \in Above0
    BY <1>0, <2>1, <2>3, <2>4 DEF Above0
  <2>. QED
    BY <1>2, <2>1, <2>2, <2>5
<1>6. ASSUME NEW k \in FirstToMark .. Len(AnPs)
      PROVE  \/ var(AnPs[k]) \in AnSeen
             \/ \E j \in DOMAIN trail : trail[j].lit = -AnPs[k] /\ trail[j].level = 0
  <2>1. PICK j \in DOMAIN trail : trail[j].lit = -AnPs[k]
    BY <1>1
  <2>2. level(AnPs[k]) = trail[j].level
    BY <1>0, <1>2, <2>1, FalseFacts
  <2>3. trail[j].level \in 0 .. decisionLevel
    BY <1>0 DEF LevelsInv
  <2>4. CASE ~ level(AnPs[k]) > 0
    <3>1. trail[j].level = 0
      BY <1>0, <2>2, <2>3, <2>4
    <3>. QED
      BY <2>1, <3>1
  <2>. QED
    BY <1>4, <2>4 DEF AnSeen, VarsOf
<1>7. ASSUME NEW v \in AnSeen  PROVE SeenAt(v, Above0)
  <2>1. CASE v \in an.seen
    BY <2>1 DEF IInv, AnalyzeInv
  <2>2. CASE v \in VarsOf(AnNew)
    <3>1. PICK n \in DOMAIN AnNew : v = var(AnNew[n])
      BY <2>2 DEF VarsOf
    <3>2. PICK j \in DOMAIN trail : trail[j].lit = -AnNew[n] /\ trail[j].level \in Above0 /\ AnNew[n] \in Lits
      BY <1>5
    <3>3. var(trail[j].lit) = v
      BY <3>1, <3>2, LitsFacts
    <3>. QED
      BY <3>2, <3>3 DEF SeenAt
  <2>. QED
    BY <2>1, <2>2 DEF AnSeen
<1>. QED
  BY <1>4, <1>5, <1>6, <1>7

\* The last literal that is marked is of the highest level.
LEMMA AnalyzeLast ==
    ASSUME IInv, pc = "analyze"
    PROVE  /\ AnLast \in DOMAIN trail /\ var(trail[AnLast].lit) \in AnSeen
           /\ trail[AnLast].level = decisionLevel
           /\ \A j \in DOMAIN trail : var(trail[j].lit) \in AnSeen => j <= AnLast
<1>0. OrderInv /\ LevelsInv /\ decisionLevel \in Nat /\ decisionLevel > 0
  BY TrailFacts DEF IInv, AnalyzeInv
<1>1. \E v \in AnSeen : SeenAt(v, Top)
  <2>1. CASE an.p # Undef
    BY <2>1 DEF IInv, AnalyzeInv, AnSeen
  <2>2. CASE an.p = Undef
    <3>1. PICK k \in DOMAIN AnPs : \E j \in DOMAIN trail :
             trail[j].lit = -AnPs[k] /\ trail[j].level = decisionLevel
      BY <2>2, AnalyzeSides
    <3>2. PICK j \in DOMAIN trail : trail[j].lit = -AnPs[k] /\ trail[j].level = decisionLevel
      BY <3>1
    <3>3. k \in FirstToMark .. Len(AnPs) /\ AnPs[k] \in Lits
      BY <2>2, AnalyzeSides
    <3>4. var(trail[j].lit) = var(AnPs[k]) /\ level(AnPs[k]) = decisionLevel
      BY <1>0, <3>2, <3>3, FalseFacts
    <3>5. var(AnPs[k]) \in AnSeen
      <4>1. SUFFICES ASSUME NEW i \in DOMAIN trail, trail[i].lit = -AnPs[k], trail[i].level = 0  PROVE FALSE
        BY <3>3, AnalyzeNew
      <4>2. level(AnPs[k]) = 0
        BY <1>0, <3>3, <4>1, FalseFacts
      <4>. QED
        BY <1>0, <3>4, <4>2
    <3>. QED
      BY <3>2, <3>4, <3>5 DEF SeenAt, Top
  <2>. QED
    BY <2>1, <2>2
<1>2. PICK v \in AnSeen : SeenAt(v, Top)
  BY <1>1
<1>3. \A u \in AnSeen : \E j \in DOMAIN trail : var(trail[j].lit) = u
  BY AnalyzeNew DEF SeenAt
<1>4. /\ AnLast \in DOMAIN trail /\ var(trail[AnLast].lit) \in AnSeen
      /\ \A j \in DOMAIN trail : var(trail[j].lit) \in AnSeen => j <= AnLast
  <2>. HIDE DEF AnSeen
  <2>. QED
    BY <1>0, <1>2, <1>3, LastSeenFacts DEF AnLast
<1>5. PICK j \in DOMAIN trail : var(trail[j].lit) = v /\ trail[j].level = decisionLevel
  BY <1>2 DEF SeenAt, Top
<1>6. trail[j].level <= trail[AnLast].level
  BY <1>0, <1>4, <1>5, LevelsOrdered
<1>7. trail[AnLast].level \in 0 .. decisionLevel
  BY <1>0, <1>4 DEF LevelsInv
<1>8. trail[AnLast].level = decisionLevel
  BY <1>0, <1>5, <1>6, <1>7
<1>. QED
  BY <1>4, <1>8

\* The clause that is resolved leaves the negations of what is marked.
LEMMA AnalyzeFollows ==
    ASSUME IInv, pc = "analyze"
    PROVE  Implies(formula, NegOf(AnSeen))
<1>0. LevelsInv /\ MeaningInv
  BY DEF IInv
<1>1. SUFFICES ASSUME NEW m \in Models(formula)  PROVE \E l \in NegOf(AnSeen) : Holds(m, l)
  BY DEF Implies, Satisfies
<1>2. m \in Assignments
  BY DEF Models
<1>3. PICK k \in DOMAIN AnPs : Holds(m, AnPs[k])
  BY AnalyzeSides DEF Implies, Satisfies, ToSet
<1>4. AnPs \in Seq(Lits) /\ AnPs[k] \in Lits /\ DOMAIN AnPs = 1 .. Len(AnPs) /\ Len(AnPs) \in Nat
  BY AnalyzeSides
<1>5. CASE k \in FirstToMark .. Len(AnPs)
  <2>1. PICK j \in DOMAIN trail : trail[j].lit = -AnPs[k]
    BY <1>5, AnalyzeSides
  <2>2. trail[j].lit \in Lits /\ AnPs[k] = -trail[j].lit /\ var(trail[j].lit) = var(AnPs[k])
        /\ level(AnPs[k]) = trail[j].level
    BY <1>0, <1>4, <2>1, LitsFacts, FalseFacts
  <2>3. trail[j].level # 0
    <3>1. SUFFICES ASSUME trail[j].level = 0  PROVE FALSE
      OBVIOUS
    <3>2. Holds(m, trail[j].lit)
      BY <1>0, <3>1, LevelZero
    <3>. QED
      BY <1>2, <1>3, <1>4, <2>1, <3>2, HoldsNot
  <2>4. var(AnPs[k]) \in AnSeen
    <3>1. SUFFICES ASSUME NEW i \in DOMAIN trail, trail[i].lit = -AnPs[k], trail[i].level = 0  PROVE FALSE
      BY <1>5, AnalyzeNew
    <3>. QED
      BY <1>0, <1>4, <2>2, <2>3, <3>1, FalseFacts
  <2>5. AnPs[k] \in NegOf(AnSeen)
    BY <2>2, <2>4 DEF NegOf
  <2>. QED
    BY <1>3, <2>5
<1>6. CASE k \notin FirstToMark .. Len(AnPs)
  <2>1. an.p # Undef /\ k = 1
    BY <1>4, <1>6, AnalyzeSides
  <2>2. AnPs[k] = an.p /\ an.p \in Lits
    BY <1>4, <2>1, AnalyzeSides
  <2>3. ~ Holds(m, -an.p)
    BY <1>2, <1>3, <2>2, HoldsNot
  <2>4. Implies(formula, NegOf(an.seen) \cup {-an.p})
    BY <2>1 DEF IInv, AnalyzeInv
  <2>5. PICK l \in NegOf(an.seen) : Holds(m, l)
    BY <2>3, <2>4 DEF Implies, Satisfies
  <2>6. l \in NegOf(AnSeen)
    BY DEF NegOf, AnSeen
  <2>. QED
    BY <2>5, <2>6
<1>. QED
  BY <1>5, <1>6

\* The literals below the current level, in order.
LEMMA BelowFacts ==
    ASSUME NEW ls \in Seq(Lits)
    PROVE  LET t == Below(ls) IN
           /\ t \in Seq(Lits)
           /\ \A n \in DOMAIN t : \E m \in DOMAIN ls : t[n] = ls[m] /\ ~ AtTop(var(ls[m]))
           /\ \A m \in DOMAIN ls : AtTop(var(ls[m])) \/ \E n \in DOMAIN t : t[n] = ls[m]
           /\ VarInjective(ls) => VarInjective(t)
<1>. DEFINE I == {i \in DOMAIN ls : ~ AtTop(var(ls[i]))}
            t == Selected(ls, I)
<1>0. Below(ls) = t
  BY DEF Below
<1>1. /\ I \subseteq DOMAIN ls /\ \A i \in I : ~ AtTop(var(ls[i]))
      /\ \A m \in DOMAIN ls : AtTop(var(ls[m])) \/ m \in I
  OBVIOUS
<1>. HIDE DEF I
<1>2. /\ t \in Seq(Lits)
      /\ \A n \in DOMAIN t : Nth(I, n) \in I /\ t[n] = ls[Nth(I, n)]
      /\ \A n, m \in DOMAIN t : Nth(I, n) = Nth(I, m) => n = m
      /\ \A i \in I : \E n \in DOMAIN t : t[n] = ls[i]
  BY <1>1, SelectedFacts
<1>. HIDE DEF t
<1>3. VarInjective(ls) => VarInjective(t)
  BY <1>1, <1>2 DEF VarInjective
<1>. QED
  BY <1>0, <1>1, <1>2, <1>3

\* What is marked, but for the last, comes before it.
LEMMA AnalyzeLeft ==
    ASSUME IInv, pc = "analyze"
    PROVE  /\ \A v \in AnLeft : \E j \in 1 .. AnLast - 1 : j \in DOMAIN trail /\ var(trail[j].lit) = v
           /\ \A v \in AnLeft : SeenAt(v, Above0)
           /\ Implies(formula, NegOf(AnLeft) \cup {-trail[AnLast].lit})
           /\ (\E v \in AnLeft : SeenAt(v, Top)) => trail[AnLast].reason # CRef_Undef
<1>0. OrderInv /\ LevelsInv /\ decisionLevel \in Nat /\ decisionLevel > 0 /\ DOMAIN trail = 1 .. Len(trail)
      /\ Len(trail) \in Nat
  BY TrailFacts DEF IInv, AnalyzeInv
<1>1. /\ AnLast \in DOMAIN trail /\ trail[AnLast].level = decisionLevel
      /\ \A j \in DOMAIN trail : var(trail[j].lit) \in AnSeen => j <= AnLast
  BY AnalyzeLast
<1>2. \A v \in AnLeft : v \in AnSeen /\ v # var(trail[AnLast].lit) /\ SeenAt(v, Above0)
  BY AnalyzeNew DEF AnLeft
<1>3. ASSUME NEW j \in DOMAIN trail, var(trail[j].lit) \in AnLeft
      PROVE  j \in 1 .. AnLast - 1
  <2>1. j <= AnLast /\ j # AnLast
    BY <1>1, <1>2, <1>3
  <2>. HIDE DEF AnLast
  <2>. QED
    BY <1>0, <1>1, <2>1
<1>4. \A v \in AnLeft : \E j \in 1 .. AnLast - 1 : j \in DOMAIN trail /\ var(trail[j].lit) = v
  BY <1>2, <1>3 DEF SeenAt
<1>5. Implies(formula, NegOf(AnLeft) \cup {-trail[AnLast].lit})
  <2>1. NegOf(AnSeen) \subseteq NegOf(AnLeft) \cup {-trail[AnLast].lit}
    <3>1. SUFFICES ASSUME NEW j \in DOMAIN trail, var(trail[j].lit) \in AnSeen, j # AnLast
                   PROVE  -trail[j].lit \in NegOf(AnLeft)
      BY DEF NegOf
    <3>2. var(trail[j].lit) # var(trail[AnLast].lit)
      BY <1>0, <1>1, <3>1 DEF LevelsInv
    <3>. QED
      BY <3>1, <3>2 DEF NegOf, AnLeft
  <2>. QED
    BY <2>1, AnalyzeFollows, ImpliesWeaker
<1>6. ASSUME NEW v \in AnLeft, SeenAt(v, Top)
      PROVE  trail[AnLast].reason # CRef_Undef
  <2>1. PICK j \in DOMAIN trail : var(trail[j].lit) = v /\ trail[j].level = decisionLevel
    BY <1>6 DEF SeenAt, Top
  <2>2. j \in 1 .. AnLast - 1
    BY <1>3, <2>1
  <2>3. SUFFICES ASSUME trail[AnLast].reason = CRef_Undef  PROVE FALSE
    OBVIOUS
  <2>4. AnLast = trail_lim[decisionLevel] + 1
    BY <1>0, <1>1, <2>3 DEF LevelsInv
  <2>5. decisionLevel \in DOMAIN trail_lim /\ trail_lim[decisionLevel] \in Nat
    BY <1>0, TrailFacts
  <2>6. trail_lim[decisionLevel] < j
    BY <1>0, <2>1, <2>5 DEF LevelsInv
  <2>. QED
    BY <1>0, <2>2, <2>4, <2>5, <2>6
<1>. QED
  BY <1>2, <1>4, <1>5, <1>6

\* The literals that are kept, below the highest level.
LEMMA AnalyzeOut ==
    ASSUME IInv, pc = "analyze"
    PROVE  /\ AnOut \in Seq(Lits) /\ VarInjective(AnOut)
           /\ \A k \in DOMAIN AnOut : var(AnOut[k]) \in AnLeft /\ TrueAt(-AnOut[k], BelowTop)
           /\ \A v \in AnLeft : SeenAt(v, Top) \/ v \in VarsOf(AnOut)
<1>. DEFINE a == an.out
            b == Below(AnNew)
            m == Len(a)
            n == Len(b)
<1>0. OrderInv /\ LevelsInv /\ decisionLevel \in Nat /\ decisionLevel > 0
  BY TrailFacts DEF IInv, AnalyzeInv
<1>1. /\ a \in Seq(Lits) /\ VarInjective(a)
      /\ \A k \in DOMAIN a : var(a[k]) \in an.seen /\ TrueAt(-a[k], BelowTop)
      /\ \A v \in an.seen : SeenAt(v, Top) \/ v \in VarsOf(a)
  BY DEF IInv, ValuesInv, AnType, AnalyzeInv
<1>2. /\ AnNew \in Seq(Lits) /\ VarInjective(AnNew)
      /\ \A i \in DOMAIN AnNew :
            /\ var(AnNew[i]) \notin an.seen /\ AnNew[i] \in Lits
            /\ \E j \in DOMAIN trail : trail[j].lit = -AnNew[i] /\ trail[j].level \in Above0
  BY AnalyzeNew
<1>3. /\ b \in Seq(Lits) /\ VarInjective(b)
      /\ \A i \in DOMAIN b : \E k \in DOMAIN AnNew : b[i] = AnNew[k] /\ ~ AtTop(var(AnNew[k]))
      /\ \A k \in DOMAIN AnNew : AtTop(var(AnNew[k])) \/ \E i \in DOMAIN b : b[i] = AnNew[k]
  <2>. DEFINE ls == AnNew
  <2>1. ls \in Seq(Lits) /\ VarInjective(ls)
    BY <1>2
  <2>. HIDE DEF ls
  <2>2. /\ Below(ls) \in Seq(Lits) /\ VarInjective(Below(ls))
        /\ \A i \in DOMAIN Below(ls) : \E k \in DOMAIN ls : Below(ls)[i] = ls[k] /\ ~ AtTop(var(ls[k]))
        /\ \A k \in DOMAIN ls : AtTop(var(ls[k])) \/ \E i \in DOMAIN Below(ls) : Below(ls)[i] = ls[k]
    BY <2>1, BelowFacts
  <2>. QED
    BY <2>2 DEF ls
<1>4. ASSUME NEW k \in DOMAIN AnNew
      PROVE  \E j \in DOMAIN trail : /\ trail[j].lit = -AnNew[k] /\ var(trail[j].lit) = var(AnNew[k])
                                     /\ trail[j].level \in Above0
                                     /\ AtTop(var(AnNew[k])) <=> trail[j].level = decisionLevel
  <2>1. PICK j \in DOMAIN trail : trail[j].lit = -AnNew[k] /\ trail[j].level \in Above0
    BY <1>2
  <2>2. var(trail[j].lit) = var(AnNew[k]) /\ AnNew[k] \in Lits
    BY <1>0, <1>2, <2>1, FalseFacts
  <2>3. var(var(AnNew[k])) = var(AnNew[k])
    BY <2>2, LitsFacts
  <2>4. level(var(AnNew[k])) = trail[j].level
    BY <1>0, <2>2, <2>3, PlaceOf
  <2>5. AtTop(var(AnNew[k])) <=> trail[j].level = decisionLevel
    BY <1>0, <2>1, <2>4 DEF AtTop, Above0
  <2>. QED
    BY <2>1, <2>2, <2>5
<1>5. AnLast \in DOMAIN trail /\ trail[AnLast].level = decisionLevel
  BY AnalyzeLast
<1>6. ASSUME NEW l \in Lits, var(l) \in AnSeen, TrueAt(-l, BelowTop)
      PROVE  var(l) \in AnLeft
  <2>1. PICK j \in DOMAIN trail : trail[j].lit = -l /\ trail[j].level \in BelowTop
    BY <1>6 DEF TrueAt
  <2>2. var(trail[j].lit) = var(l)
    BY <2>1, LitsFacts
  <2>3. j # AnLast
    BY <1>0, <1>5, <2>1 DEF BelowTop
  <2>4. var(l) # var(trail[AnLast].lit)
    BY <1>0, <1>5, <2>2, <2>3 DEF LevelsInv
  <2>. QED
    BY <1>6, <2>4 DEF AnLeft
<1>7. ASSUME NEW k \in DOMAIN b
      PROVE  b[k] \in Lits /\ var(b[k]) \notin an.seen /\ var(b[k]) \in AnSeen /\ TrueAt(-b[k], BelowTop)
  <2>1. PICK i \in DOMAIN AnNew : b[k] = AnNew[i] /\ ~ AtTop(var(AnNew[i]))
    BY <1>3
  <2>2. PICK j \in DOMAIN trail : /\ trail[j].lit = -AnNew[i] /\ trail[j].level \in Above0
                                  /\ AtTop(var(AnNew[i])) <=> trail[j].level = decisionLevel
    BY <1>4
  <2>3. trail[j].level \in BelowTop
    BY <1>0, <2>1, <2>2 DEF Above0, BelowTop
  <2>. QED
    BY <1>2, <2>1, <2>2, <2>3 DEF TrueAt, AnSeen, VarsOf
<1>8. /\ AnOut \in Seq(Lits) /\ DOMAIN AnOut = 1 .. m + n /\ m \in Nat /\ n \in Nat
      /\ DOMAIN a = 1 .. m /\ DOMAIN b = 1 .. n
      /\ \A k \in 1 .. m : AnOut[k] = a[k]
      /\ \A k \in m + 1 .. m + n : AnOut[k] = b[k - m]
  <2>1. AnOut = a \o b
    BY DEF AnOut
  <2>. HIDE DEF a, b
  <2>. QED
    BY <1>1, <1>3, <2>1, ConcatFacts
<1>. HIDE DEF m, n, b
<1>9. ASSUME NEW k \in DOMAIN AnOut
      PROVE  \/ k \in DOMAIN a /\ AnOut[k] = a[k]
             \/ k > m /\ k - m \in DOMAIN b /\ AnOut[k] = b[k - m]
  <2>1. CASE k <= m
    BY <1>8, <2>1
  <2>2. CASE k > m
    <3>1. k - m \in 1 .. n /\ k \in m + 1 .. m + n
      BY <1>8, <2>2
    <3>. QED
      BY <1>8, <2>2, <3>1
  <2>. QED
    BY <1>8, <2>1, <2>2
<1>10. \A k \in DOMAIN AnOut : var(AnOut[k]) \in AnLeft /\ TrueAt(-AnOut[k], BelowTop)
  <2>1. TAKE k \in DOMAIN AnOut
  <2>2. CASE k \in DOMAIN a /\ AnOut[k] = a[k]
    <3>1. a[k] \in Lits /\ var(a[k]) \in AnSeen /\ TrueAt(-a[k], BelowTop)
      BY <1>1, <2>2 DEF AnSeen
    <3>. QED
      BY <1>6, <2>2, <3>1
  <2>3. CASE k > m /\ k - m \in DOMAIN b /\ AnOut[k] = b[k - m]
    BY <1>6, <1>7, <2>3
  <2>. QED
    BY <1>9, <2>2, <2>3
<1>11. VarInjective(AnOut)
  <2>1. SUFFICES ASSUME NEW k \in DOMAIN AnOut, NEW i \in DOMAIN AnOut, var(AnOut[k]) = var(AnOut[i])
                 PROVE  k = i
    BY DEF VarInjective
  <2>2. CASE k \in DOMAIN a /\ AnOut[k] = a[k] /\ i \in DOMAIN a /\ AnOut[i] = a[i]
    BY <1>1, <2>1, <2>2 DEF VarInjective
  <2>3. CASE k - m \in DOMAIN b /\ AnOut[k] = b[k - m] /\ i - m \in DOMAIN b /\ AnOut[i] = b[i - m]
    <3>1. k - m = i - m
      BY <1>3, <2>1, <2>3 DEF VarInjective
    <3>. QED
      BY <1>8, <3>1
  <2>4. ASSUME NEW x \in DOMAIN a, NEW y \in DOMAIN b  PROVE var(a[x]) # var(b[y])
    BY <1>1, <1>7
  <2>. QED
    BY <1>9, <2>1, <2>2, <2>3, <2>4
<1>12. ASSUME NEW v \in AnLeft  PROVE SeenAt(v, Top) \/ v \in VarsOf(AnOut)
  <2>1. CASE v \in an.seen
    <3>1. ASSUME NEW k \in DOMAIN a, v = var(a[k])  PROVE v \in VarsOf(AnOut)
      <4>1. k \in DOMAIN AnOut /\ AnOut[k] = a[k]
        BY <1>8
      <4>. QED
        BY <3>1, <4>1 DEF VarsOf
    <3>. QED
      BY <1>1, <2>1, <3>1 DEF VarsOf
  <2>2. CASE v \in VarsOf(AnNew)
    <3>1. PICK k \in DOMAIN AnNew : v = var(AnNew[k])
      BY <2>2 DEF VarsOf
    <3>2. CASE AtTop(var(AnNew[k]))
      BY <1>4, <3>1, <3>2 DEF SeenAt, Top
    <3>3. ASSUME NEW i \in DOMAIN b, b[i] = AnNew[k]  PROVE v \in VarsOf(AnOut)
      <4>1. i + m \in m + 1 .. m + n /\ i + m - m = i /\ i + m \in 1 .. m + n
        BY <1>8
      <4>2. AnOut[i + m] = b[i]
        BY <1>8, <4>1
      <4>. QED
        BY <1>8, <3>1, <3>3, <4>1, <4>2 DEF VarsOf
    <3>. QED
      BY <1>3, <3>2, <3>3
  <2>. QED
    BY <2>1, <2>2 DEF AnLeft, AnSeen
<1>. QED
  BY <1>8, <1>10, <1>11, <1>12

\* What the step does.
LEMMA AnalyzeDoes ==
    ASSUME IInv, Analyze
    PROVE  /\ pc = "analyze" /\ UNCHANGED <<trail, trail_lim, nVars, formula, conflict, model, assumptions, dirty>>
           /\ confl' = trail[AnLast].reason
           /\ an'.p = trail[AnLast].lit /\ an'.seen = AnLeft /\ an'.next = 2
           /\ an' = [an EXCEPT !.p = an'.p, !.seen = an'.seen, !.out = an'.out, !.levels = an'.levels]
           /\ \/ pc' = "analyze" /\ an'.out = AnOut /\ \E v \in AnLeft : SeenAt(v, Top)
              \/ /\ pc' = "minimise" /\ an'.out = <<-trail[AnLast].lit>> \o AnOut
                 /\ ~ \E v \in AnLeft : SeenAt(v, Top)
<1>0. pc = "analyze"
  BY DEF Analyze
<1>1. OrderInv /\ LevelsInv /\ decisionLevel \in Nat /\ an \in AnType /\ an.next = 2
  BY <1>0, TrailFacts DEF IInv, ValuesInv, AnalyzeInv
<1>2. ASSUME NEW v \in AnLeft  PROVE AtTop(v) <=> SeenAt(v, Top)
  <2>1. PICK j \in DOMAIN trail : var(trail[j].lit) = v /\ trail[j].level \in Above0
    BY <1>0, AnalyzeLeft DEF SeenAt
  <2>2. var(v) = v
    BY <1>1, <2>1, LitsFacts DEF LevelsInv, NLits
  <2>3. level(v) = trail[j].level
    BY <1>1, <2>1, <2>2, PlaceOf
  <2>4. AtTop(v) <=> trail[j].level = decisionLevel
    BY <1>1, <2>1, <2>3 DEF AtTop, Above0
  <2>5. \A i \in DOMAIN trail : var(trail[i].lit) = v => i = j
    BY <1>1, <2>1 DEF LevelsInv
  <2>. QED
    BY <2>1, <2>4, <2>5 DEF SeenAt, Top
<1>3. /\ UNCHANGED <<trail, trail_lim, nVars, formula, conflict, model, assumptions, dirty>>
      /\ confl' = trail[AnLast].reason
      /\ \/ /\ \E v \in AnLeft : AtTop(v)
            /\ an' = [an EXCEPT !.p = trail[AnLast].lit, !.seen = AnLeft, !.out = AnOut]
            /\ UNCHANGED pc
         \/ /\ ~ \E v \in AnLeft : AtTop(v)
            /\ \E L : an' = [an EXCEPT !.p = trail[AnLast].lit, !.seen = AnLeft,
                                       !.out = <<-trail[AnLast].lit>> \o AnOut, !.levels = L]
            /\ pc' = "minimise"
  BY DEF Analyze, UnchangedByAnalyze, AnPs, AnNew, AnSeen, AnLast, AnLeft, AnOut, assignment, user, result
<1>4. CASE \E v \in AnLeft : AtTop(v)
  <2>1. an' = [an EXCEPT !.p = trail[AnLast].lit, !.seen = AnLeft, !.out = AnOut] /\ UNCHANGED pc
    BY <1>3, <1>4
  <2>. HIDE DEF AnLast, AnLeft, AnOut
  <2>2. an'.p = trail[AnLast].lit /\ an'.seen = AnLeft /\ an'.out = AnOut /\ an'.next = 2
        /\ an' = [an EXCEPT !.p = an'.p, !.seen = an'.seen, !.out = an'.out, !.levels = an'.levels]
    BY <1>1, <2>1 DEF AnType
  <2>. QED
    BY <1>0, <1>2, <1>3, <1>4, <2>1, <2>2
<1>5. CASE ~ \E v \in AnLeft : AtTop(v)
  <2>1. PICK L : an' = [an EXCEPT !.p = trail[AnLast].lit, !.seen = AnLeft,
                                  !.out = <<-trail[AnLast].lit>> \o AnOut, !.levels = L]
    BY <1>3, <1>5
  <2>. DEFINE x == <<-trail[AnLast].lit>> \o AnOut
  <2>. HIDE DEF AnLast, AnLeft, AnOut, x
  <2>2. an'.p = trail[AnLast].lit /\ an'.seen = AnLeft /\ an'.out = x /\ an'.next = 2
        /\ an' = [an EXCEPT !.p = an'.p, !.seen = an'.seen, !.out = an'.out, !.levels = an'.levels]
    BY <1>1, <2>1 DEF AnType, x
  <2>. QED
    BY <1>0, <1>2, <1>3, <1>5, <2>1, <2>2 DEF x
<1>. QED
  BY <1>4, <1>5

\* The parts of the invariants that are about the trail alone.
LEMMA SameTrail ==
    ASSUME UNCHANGED <<trail, trail_lim>>
    PROVE  /\ \A v, L : (\E i \in DOMAIN trail' : var(trail'[i].lit) = v /\ trail'[i].level \in L) <=> SeenAt(v, L)
           /\ \A l, L : (\E i \in DOMAIN trail' : trail'[i].lit = l /\ trail'[i].level \in L) <=> TrueAt(l, L)
           /\ Top' = Top /\ BelowTop' = BelowTop /\ Above0' = Above0 /\ decisionLevel' = decisionLevel
BY DEF SeenAt, TrueAt, Top, BelowTop, Above0, decisionLevel

\* analyze begins, goes on, or stops.
LEMMA AnalyzePlacesOf ==
    ASSUME IInv, [Next]_svars, pc' = "analyze"
    PROVE  \/ Analyze
           \/ SearchConflict
           \/ pc = "analyze" /\ UNCHANGED <<trail, trail_lim, formula, an, confl, ca>>
<1>1. CASE interrupt \/ UNCHANGED svars
  BY <1>1 DEF interrupt, svars, database, assignment, user
<1>2. pc \in Places /\ caller \in {"added", "search", "simplify"} /\ after \in {"idle", "reduce", "decide"}
  BY DEF IInv, ControlInv
<1>3. CASE newVar \/ callSimplify \/ solve \/ Added
  BY <1>2, <1>3 DEF newVar, callSimplify, solve, solve_, Added
<1>4. CASE addClause
  <2>1. pc = "idle" /\ pc' \in {"idle", "propagate"}
    BY <1>4 DEF addClause, addClauseThen, addClause_
  <2>. QED
    BY <2>1
<1>5. CASE Propagate
  BY <1>2, <1>5 DEF Propagate, Dequeue, Propagated, VisitBinary, StartLong, SkipClause, MoveWatch, KeepWatch, EndLong
<1>6. CASE Restart \/ NoConflict \/ SimplifyReturns \/ Simplify \/ KeepLearnts \/ NothingToReduce \/ reduceDB
           \/ CheckGarbage \/ Return
  BY <1>2, <1>6 DEF Restart, NoConflict, SimplifyReturns, Simplify, KeepLearnts, NothingToReduce, reduceDB,
     CheckGarbage, Return, Returned, Leave
<1>7. CASE DummyLevel \/ Assume \/ AssumptionFails \/ AnalyzeFinal \/ FinalAnalyzed \/ PickBranchLit \/ ModelFound
  BY <1>2, <1>7 DEF DummyLevel, Assume, AssumptionFails, AnalyzeFinal, FinalAnalyzed, PickBranchLit, ModelFound,
     Decided, Leave
<1>8. CASE Minimise \/ litRedundant \/ Shorten \/ Learn
  BY <1>8 DEF Minimise, litRedundant, Shorten, Learn
<1>. QED
  BY <1>1, <1>3, <1>4, <1>5, <1>6, <1>7, <1>8 DEF Next, Step, User, Search

\* Every step keeps the invariant of conflict analysis.
LEMMA AnalyzeStep ==
    ASSUME IInv, [Next]_svars
    PROVE  AnalyzeInv'
<1>1. SUFFICES ASSUME pc' = "analyze"  PROVE AnalyzeInv'
  BY DEF AnalyzeInv
<1>2. CASE pc = "analyze" /\ UNCHANGED <<trail, trail_lim, formula, an, confl, ca>>
  BY <1>2 DEF IInv, AnalyzeInv, SeenAt, TrueAt, Top, BelowTop, Above0, decisionLevel, NegOf, VarsOf, VarInjective
<1>3. CASE SearchConflict
  <2>1. /\ decisionLevel' > 0 /\ an' = NoAnalysis /\ UNCHANGED <<trail, trail_lim>>
    <3>1. /\ decisionLevel # 0 /\ an' = NoAnalysis /\ UNCHANGED <<trail, trail_lim>>
      BY <1>1, <1>3 DEF SearchConflict, Leave, assignment
    <3>. QED
      BY <3>1, TrailFacts DEF IInv, decisionLevel
  <2>2. an'.p = Undef /\ an'.seen = {} /\ an'.out = <<>> /\ an'.next = 2
    BY <2>1 DEF NoAnalysis
  <2>. QED
    BY <2>1, <2>2 DEF AnalyzeInv, VarInjective
<1>4. CASE Analyze
  <2>. DEFINE i == AnLast
  <2>1. /\ UNCHANGED <<trail, trail_lim, formula>> /\ pc = "analyze"
        /\ confl' = trail[i].reason /\ an'.p = trail[i].lit /\ an'.seen = AnLeft /\ an'.next = 2
        /\ an'.out = AnOut /\ \E v \in AnLeft : SeenAt(v, Top)
    BY <1>1, <1>4, AnalyzeDoes
  <2>2. i \in DOMAIN trail /\ trail[i].level = decisionLevel /\ trail[i].lit \in Lits /\ trail[i].lit # Undef
    BY <2>1, AnalyzeLast, LitsFacts DEF IInv, LevelsInv, NLits
  <2>3. /\ \A v \in AnLeft : \E j \in 1 .. i - 1 : var(trail[j].lit) = v
        /\ \A v \in AnLeft : SeenAt(v, Above0)
        /\ Implies(formula, NegOf(AnLeft) \cup {-trail[i].lit})
        /\ trail[i].reason # CRef_Undef
    BY <2>1, AnalyzeLeft
  <2>4. /\ VarInjective(AnOut)
        /\ \A k \in DOMAIN AnOut : var(AnOut[k]) \in AnLeft /\ TrueAt(-AnOut[k], BelowTop)
        /\ \A v \in AnLeft : SeenAt(v, Top) \/ v \in VarsOf(AnOut)
    BY <2>1, AnalyzeOut
  <2>5. decisionLevel > 0
    BY <2>1 DEF IInv, AnalyzeInv
  <2>. DEFINE left == AnLeft
              out == AnOut
  <2>. HIDE DEF i, left, out
  <2>a. an'.seen = left /\ an'.out = out /\ an'.p = trail[i].lit
    BY <2>1 DEF left, out, i
  <2>6. /\ (\A v \in an.seen : SeenAt(v, Above0))'
        /\ (\A v \in an.seen : SeenAt(v, Top) \/ v \in VarsOf(an.out))'
        /\ (\A k \in DOMAIN an.out : var(an.out[k]) \in an.seen /\ TrueAt(-an.out[k], BelowTop))'
        /\ (\E v \in an.seen : SeenAt(v, Top))'
    <3>1. \A v \in left : SeenAt(v, Above0)
      BY <2>3 DEF left
    <3>2. \A v \in left : SeenAt(v, Top) \/ v \in VarsOf(out)
      BY <2>4 DEF left, out
    <3>3. \A k \in DOMAIN out : var(out[k]) \in left /\ TrueAt(-out[k], BelowTop)
      BY <2>4 DEF left, out
    <3>4. \E v \in left : SeenAt(v, Top)
      BY <2>1 DEF left
    <3>5. UNCHANGED <<trail, trail_lim>>
      BY <2>1
    <3>. QED
      BY <2>a, <3>1, <3>2, <3>3, <3>4, <3>5 DEF SeenAt, TrueAt, Above0, Top, BelowTop, VarsOf, decisionLevel
  <2>7. VarInjective(an.out)'
    BY <2>4, <2>a DEF VarInjective, out
  <2>8. Implies(formula, NegOf(an.seen) \cup {-an.p})'
    <3>1. Implies(formula, NegOf(left) \cup {-trail[i].lit}) /\ formula' = formula /\ trail' = trail
      BY <2>1, <2>3 DEF left, i
    <3>2. (NegOf(an.seen))' = NegOf(left)
      BY <2>a, <3>1 DEF NegOf
    <3>. QED
      BY <2>a, <3>1, <3>2
  <2>9. (\E j \in DOMAIN trail :
           /\ trail[j].lit = an.p /\ trail[j].level = decisionLevel
           /\ trail[j].reason = confl /\ confl # CRef_Undef
           /\ \A v \in an.seen : \E n \in 1 .. j - 1 : var(trail[n].lit) = v)'
    <3>1. trail' = trail /\ decisionLevel' = decisionLevel /\ confl' = trail[i].reason /\ trail[i].reason # CRef_Undef
      BY <2>1, <2>3 DEF i, decisionLevel
    <3>2. \A v \in left : \E n \in 1 .. i - 1 : var(trail[n].lit) = v
      BY <2>3 DEF i, left
    <3>3. i \in DOMAIN trail /\ trail[i].level = decisionLevel
      BY <2>2 DEF i
    <3>. QED
      BY <2>a, <3>1, <3>2, <3>3
  <2>10. decisionLevel' > 0 /\ an'.next = 2 /\ an'.p # Undef
    BY <2>1, <2>2, <2>5 DEF decisionLevel
  <2>. QED
    BY <2>6, <2>7, <2>8, <2>9, <2>10 DEF AnalyzeInv
<1>. QED
  BY <1>1, <1>2, <1>3, <1>4, AnalyzePlacesOf

-----------------------------------------------------------------------------
(***************************************************************************)
(* Minimisation: what may be dropped from a learnt clause.                 *)
(***************************************************************************)

\* Closed, in terms of the clauses and the trail.
ClosedIn(mem, tr, v, S) ==
    \E i \in DOMAIN tr :
       /\ var(tr[i].lit) = v /\ tr[i].level > 0 /\ tr[i].reason # CRef_Undef
       /\ \A k \in DOMAIN mem[tr[i].reason].lits :
             LET l == mem[tr[i].reason].lits[k] IN
             \/ l = tr[i].lit \/ var(l) \in S
             \/ \E j \in DOMAIN tr : var(tr[j].lit) = var(l) /\ tr[j].level \in {0}

\* A variable whose reason is covered by other variables stays so while the
\* trail does.
LEMMA ClosedKept ==
    ASSUME IInv, [Next]_svars, UNCHANGED trail, NEW v, NEW S, Closed(v, S)
    PROVE  ClosedIn(ca', trail', v, S)
<1>1. PICK i \in DOMAIN trail :
         /\ var(trail[i].lit) = v /\ trail[i].level > 0 /\ trail[i].reason # CRef_Undef
         /\ \A k \in DOMAIN lits(trail[i].reason) :
               LET l == lits(trail[i].reason)[k] IN
               l = trail[i].lit \/ var(l) \in S \/ SeenAt(var(l), {0})
  BY DEF Closed
<1>. DEFINE s == lits(trail[i].reason)
            t == ca'[trail[i].reason].lits
<1>2. Rearranged(t, s)
  BY <1>1, ReasonKept
<1>3. \A k \in DOMAIN s : s[k] = trail[i].lit \/ var(s[k]) \in S \/ SeenAt(var(s[k]), {0})
  BY <1>1
<1>. HIDE DEF s, t
<1>4. \A k \in DOMAIN t : t[k] = trail[i].lit \/ var(t[k]) \in S \/ SeenAt(var(t[k]), {0})
  <2>1. \A k \in DOMAIN t : \E m \in DOMAIN s : t[k] = s[m]
    BY <1>2, RearrangedFacts
  <2>. QED
    BY <1>3, <2>1
<1>. QED
  BY <1>1, <1>4 DEF ClosedIn, SeenAt, t

\* The same with more literals that are seen.
LEMMA ClosedMore ==
    ASSUME NEW v, NEW S, NEW T, Closed(v, S), S \subseteq T
    PROVE  Closed(v, T)
<1>1. PICK i \in DOMAIN trail :
         /\ var(trail[i].lit) = v /\ trail[i].level > 0 /\ trail[i].reason # CRef_Undef
         /\ \A k \in DOMAIN lits(trail[i].reason) :
               LET l == lits(trail[i].reason)[k] IN
               l = trail[i].lit \/ var(l) \in S \/ SeenAt(var(l), {0})
  BY DEF Closed
<1>. QED
  BY <1>1 DEF Closed

\* The invariants at each place, of the locals of analyze.
MinimiseGood(a) ==
    /\ a.next \in 2 .. Len(a.out) + 1
    /\ \A v \in a.seen : SeenAt(v, Above0)
    /\ Rest(a.out) \subseteq a.seen /\ AllClosed(a.seen, Rest(a.out))
RedundantGood(a) ==
    /\ a.next \in 2 .. Len(a.out)
    /\ \A v \in a.seen : SeenAt(v, Above0)
    /\ Rest(a.out) \subseteq a.saved /\ a.saved \subseteq a.seen
    /\ AllClosed(a.saved, Rest(a.out))
    /\ AllClosed(a.seen, RestBut(a.out, a.next) \cup VarsOf(a.stack))
    /\ \A n \in DOMAIN a.stack :
          /\ var(a.stack[n]) \in a.seen
          /\ \E i \in DOMAIN trail : /\ trail[i].lit = -a.stack[n] /\ trail[i].level > 0
                                     /\ trail[i].reason # CRef_Undef
SecondHighest(out) == \A k \in 2 .. Len(out) : level(out[k]) <= level(out[2])

\* The invariant of minimisation, place by place,
LEMMA MinimiseParts ==
    MinimiseInv <=>
        /\ pc \in {"minimise", "redundant", "shorten", "learn"} => decisionLevel > 0 /\ OutGood(an.out)
        /\ pc = "minimise" => MinimiseGood(an)
        /\ pc = "redundant" => RedundantGood(an)
        /\ pc = "learn" => SecondHighest(an.out)
        /\ pc = "final" => \A v \in an.seen : SeenAt(v, 0 .. decisionLevel)
BY DEF MinimiseInv, MinimiseGood, RedundantGood, SecondHighest

\* and the same after a step.
LEMMA NextMinimiseParts ==
    MinimiseInv' <=>
        /\ pc' \in {"minimise", "redundant", "shorten", "learn"} => (decisionLevel > 0 /\ OutGood(an.out))'
        /\ pc' = "minimise" => MinimiseGood(an)'
        /\ pc' = "redundant" => RedundantGood(an)'
        /\ pc' = "learn" => SecondHighest(an.out)'
        /\ pc' = "final" => (\A v \in an.seen : SeenAt(v, 0 .. decisionLevel))'
BY DEF MinimiseInv, MinimiseGood, RedundantGood, SecondHighest

\* What holds of the new locals before the step holds of them after it.
LEMMA GoodStays ==
    ASSUME IInv, [Next]_svars, UNCHANGED <<trail, trail_lim, formula>>
    PROVE  /\ OutGood(an'.out) => OutGood(an.out)'
           /\ MinimiseGood(an') => MinimiseGood(an)'
           /\ RedundantGood(an') => RedundantGood(an)'
           /\ SecondHighest(an'.out) => SecondHighest(an.out)'
           /\ (\A v \in an'.seen : SeenAt(v, 0 .. decisionLevel)) => (\A v \in an.seen : SeenAt(v, 0 .. decisionLevel))'
           /\ (decisionLevel > 0) => (decisionLevel > 0)'
<1>. DEFINE a == an'
<1>1. OutGood(a.out) => OutGood(an.out)'
  BY DEF OutGood, VarInjective, TrueAt, Top, BelowTop, decisionLevel
<1>2. \A v, S : Closed(v, S) => ClosedIn(ca', trail', v, S)
  BY ClosedKept
<1>3. \A known : AllClosed(a.seen, known) => \A v \in a.seen : v \in known \/ ClosedIn(ca', trail', v, a.seen)
  BY <1>2 DEF AllClosed
<1>4. \A known : AllClosed(a.saved, known) => \A v \in a.saved : v \in known \/ ClosedIn(ca', trail', v, a.saved)
  BY <1>2 DEF AllClosed
<1>5. /\ AllClosed(an.seen, Rest(an.out))' <=> \A v \in a.seen : v \in Rest(a.out) \/ ClosedIn(ca', trail', v, a.seen)
      /\ AllClosed(an.saved, Rest(an.out))' <=> \A v \in a.saved : v \in Rest(a.out) \/ ClosedIn(ca', trail', v, a.saved)
      /\ AllClosed(an.seen, RestBut(an.out, an.next) \cup VarsOf(an.stack))' <=>
            \A v \in a.seen : v \in RestBut(a.out, a.next) \cup VarsOf(a.stack) \/ ClosedIn(ca', trail', v, a.seen)
  BY DEF AllClosed, Closed, ClosedIn, lits, SeenAt, Rest, RestBut, VarsOf
<1>6. MinimiseGood(a) => MinimiseGood(an)'
  <2>1. SUFFICES ASSUME MinimiseGood(a)  PROVE MinimiseGood(an)'
    OBVIOUS
  <2>2. AllClosed(a.seen, Rest(a.out))
    BY <2>1 DEF MinimiseGood
  <2>3. AllClosed(an.seen, Rest(an.out))'
    BY <1>3, <1>5, <2>2
  <2>4. (an.next \in 2 .. Len(an.out) + 1 /\ (\A v \in an.seen : SeenAt(v, Above0)) /\ Rest(an.out) \subseteq an.seen)'
    BY <2>1 DEF MinimiseGood, SeenAt, Above0, decisionLevel, Rest
  <2>. QED
    BY <2>3, <2>4 DEF MinimiseGood
<1>7. RedundantGood(a) => RedundantGood(an)'
  <2>1. SUFFICES ASSUME RedundantGood(a)  PROVE RedundantGood(an)'
    OBVIOUS
  <2>2. AllClosed(a.saved, Rest(a.out)) /\ AllClosed(a.seen, RestBut(a.out, a.next) \cup VarsOf(a.stack))
    BY <2>1 DEF RedundantGood
  <2>3. AllClosed(an.saved, Rest(an.out))' /\ AllClosed(an.seen, RestBut(an.out, an.next) \cup VarsOf(an.stack))'
    BY <1>3, <1>4, <1>5, <2>2
  <2>4. /\ (an.next \in 2 .. Len(an.out))'
        /\ (\A v \in an.seen : SeenAt(v, Above0))'
        /\ (Rest(an.out) \subseteq an.saved /\ an.saved \subseteq an.seen)'
    BY <2>1 DEF RedundantGood, SeenAt, Above0, decisionLevel, Rest
  <2>5. (\A n \in DOMAIN an.stack :
            /\ var(an.stack[n]) \in an.seen
            /\ \E i \in DOMAIN trail : /\ trail[i].lit = -an.stack[n] /\ trail[i].level > 0
                                       /\ trail[i].reason # CRef_Undef)'
    BY <2>1 DEF RedundantGood
  <2>. QED
    BY <2>3, <2>4, <2>5 DEF RedundantGood
<1>8. SecondHighest(a.out) => SecondHighest(an.out)'
  BY DEF SecondHighest, level, place
<1>9. (\A v \in a.seen : SeenAt(v, 0 .. decisionLevel)) => (\A v \in an.seen : SeenAt(v, 0 .. decisionLevel))'
  BY DEF SeenAt, decisionLevel
<1>. QED
  BY <1>1, <1>6, <1>7, <1>8, <1>9 DEF decisionLevel

\* A step to a place where the learnt clause is minimised, or to analyzeFinal.
LEMMA MinimisePlacesOf ==
    ASSUME IInv, [Next]_svars, pc' \in {"minimise", "redundant", "shorten", "learn", "final"}
    PROVE  \/ Analyze \/ Minimise \/ litRedundant \/ Shorten \/ AssumptionFails \/ AnalyzeFinal
           \/ pc' = pc /\ UNCHANGED <<trail, trail_lim, formula, an>>
<1>1. CASE interrupt \/ UNCHANGED svars
  BY <1>1 DEF interrupt, svars, database, assignment, user
<1>2. pc \in Places /\ caller \in {"added", "search", "simplify"} /\ after \in {"idle", "reduce", "decide"}
  BY DEF IInv, ControlInv
<1>3. CASE newVar \/ callSimplify \/ solve \/ Added
  BY <1>2, <1>3 DEF newVar, callSimplify, solve, solve_, Added
<1>4. CASE addClause
  <2>1. pc = "idle" /\ pc' \in {"idle", "propagate"}
    BY <1>4 DEF addClause, addClauseThen, addClause_
  <2>. QED
    BY <2>1
<1>5. CASE Propagate
  BY <1>2, <1>5 DEF Propagate, Dequeue, Propagated, VisitBinary, StartLong, SkipClause, MoveWatch, KeepWatch, EndLong
<1>6. CASE Restart \/ NoConflict \/ SimplifyReturns \/ Simplify \/ KeepLearnts \/ NothingToReduce \/ reduceDB
           \/ CheckGarbage \/ Return \/ SearchConflict
  BY <1>2, <1>6 DEF Restart, NoConflict, SimplifyReturns, Simplify, KeepLearnts, NothingToReduce, reduceDB,
     CheckGarbage, Return, Returned, Leave, SearchConflict
<1>7. CASE DummyLevel \/ Assume \/ FinalAnalyzed \/ PickBranchLit \/ ModelFound \/ Learn
  BY <1>2, <1>7 DEF DummyLevel, Assume, FinalAnalyzed, PickBranchLit, ModelFound, Decided, Leave, Learn
<1>. QED
  BY <1>1, <1>3, <1>4, <1>5, <1>6, <1>7 DEF Next, Step, User, Search

\* The literals of a clause but for one place.
But(out, n) == {out[k] : k \in DOMAIN out \ {n}}

\* Followed to literals of the clause, the reasons show that a literal is superfluous.
LEMMA RedundantFollows ==
    ASSUME IInv, NEW out \in Seq(Lits), OutGood(out), NEW n \in 2 .. Len(out), NEW S,
           Rest(out) \subseteq S, AllClosed(S, RestBut(out, n))
    PROVE  Implies(formula, But(out, n))
<1>0. LevelsInv /\ OrderInv /\ MeaningInv /\ DOMAIN trail = 1 .. Len(trail) /\ Len(trail) \in Nat
  BY TrailFacts DEF IInv
<1>1. SUFFICES ASSUME NEW m \in Models(formula), \A l \in But(out, n) : ~ Holds(m, l)
               PROVE  FALSE
  BY DEF Implies, Satisfies
<1>2. m \in Assignments
  BY DEF Models
<1>. DEFINE Bad(j) == var(trail[j].lit) \in S /\ ~ Holds(m, trail[j].lit)
            T == {j \in DOMAIN trail : Bad(j)}
<1>3. T # {}
  <2>1. PICK k \in DOMAIN out : Holds(m, out[k])
    BY DEF OutGood, Implies, Satisfies, ToSet
  <2>2. k = n
    BY <1>1, <2>1 DEF But
  <2>3. PICK j \in DOMAIN trail : trail[j].lit = -out[n]
    BY DEF OutGood, TrueAt
  <2>4. out[n] \in Lits
    BY <2>1, <2>2
  <2>5. ~ Holds(m, trail[j].lit)
    BY <1>2, <2>1, <2>2, <2>3, <2>4, HoldsNot
  <2>6. var(trail[j].lit) = var(out[n])
    BY <2>3, <2>4, LitsFacts
  <2>7. var(out[n]) \in S
    BY DEF Rest
  <2>. QED
    BY <2>5, <2>6, <2>7
<1>4. PICK j \in T : \A i \in T : j <= i
  <2>1. T \subseteq Nat
    BY <1>0
  <2>. HIDE DEF T
  <2>. QED
    BY <1>3, <2>1, LeastNat
<1>5. j \in DOMAIN trail /\ Bad(j) /\ trail[j].lit \in Lits
  BY <1>0, <1>4 DEF LevelsInv, NLits
<1>6. \A i \in DOMAIN trail : i < j => ~ Bad(i)
  <2>1. SUFFICES ASSUME NEW i \in DOMAIN trail, i < j, Bad(i)  PROVE FALSE
    OBVIOUS
  <2>2. j <= i
    BY <1>4, <2>1
  <2>. QED
    BY <1>0, <1>5, <2>1, <2>2
<1>7. var(trail[j].lit) \notin RestBut(out, n)
  <2>1. SUFFICES ASSUME NEW k \in 2 .. Len(out) \ {n}, var(trail[j].lit) = var(out[k])  PROVE FALSE
    BY DEF RestBut
  <2>2. PICK i \in DOMAIN trail : trail[i].lit = -out[k]
    BY DEF OutGood, TrueAt
  <2>3. k \in DOMAIN out /\ out[k] \in Lits
    OBVIOUS
  <2>4. var(trail[i].lit) = var(out[k])
    BY <2>2, <2>3, LitsFacts
  <2>5. i = j
    BY <1>0, <1>5, <2>1, <2>4 DEF LevelsInv
  <2>6. ~ Holds(m, out[k])
    BY <1>1, <2>3 DEF But
  <2>. QED
    BY <1>2, <1>5, <2>2, <2>3, <2>5, <2>6, HoldsNot
<1>8. Closed(var(trail[j].lit), S)
  BY <1>5, <1>7 DEF AllClosed
<1>. DEFINE cr == trail[j].reason
<1>9. /\ trail[j].level > 0 /\ cr # CRef_Undef
      /\ \A k \in DOMAIN lits(cr) : \/ lits(cr)[k] = trail[j].lit \/ var(lits(cr)[k]) \in S
                                    \/ SeenAt(var(lits(cr)[k]), {0})
  <2>1. PICK i \in DOMAIN trail :
         /\ var(trail[i].lit) = var(trail[j].lit) /\ trail[i].level > 0 /\ trail[i].reason # CRef_Undef
         /\ \A k \in DOMAIN lits(trail[i].reason) :
               LET l == lits(trail[i].reason)[k] IN
               l = trail[i].lit \/ var(l) \in S \/ SeenAt(var(l), {0})
    BY <1>8 DEF Closed
  <2>2. i = j
    BY <1>0, <1>5, <2>1 DEF LevelsInv
  <2>. QED
    BY <2>1, <2>2
<1>10. Given(cr, j) /\ cr \in DOMAIN ca
  BY <1>5, <1>9, ReasonFacts
<1>11. PICK k \in DOMAIN lits(cr) : Holds(m, lits(cr)[k])
  BY <1>0, <1>10 DEF MeaningInv, Implies, Satisfies, ToSet
<1>. DEFINE l == lits(cr)[k]
<1>12. l # trail[j].lit /\ l \in Lits
  BY <1>5, <1>10, <1>11, ClauseFacts DEF IInv
<1>13. PICK i \in 1 .. j - 1 : trail[i].lit = -l
  BY <1>10, <1>12 DEF Given
<1>14. i \in DOMAIN trail /\ i < j
  BY <1>0, <1>5
<1>15. ~ Holds(m, trail[i].lit)
  BY <1>2, <1>11, <1>12, <1>13, HoldsNot
<1>16. var(trail[i].lit) = var(l)
  BY <1>12, <1>13, LitsFacts
<1>17. CASE var(l) \in S
  BY <1>6, <1>14, <1>15, <1>16, <1>17
<1>18. CASE SeenAt(var(l), {0})
  <2>1. PICK h \in DOMAIN trail : var(trail[h].lit) = var(l) /\ trail[h].level = 0
    BY <1>18 DEF SeenAt
  <2>2. h = i
    BY <1>0, <1>14, <1>16, <2>1 DEF LevelsInv
  <2>3. Holds(m, trail[i].lit)
    BY <1>0, <1>14, <2>1, <2>2, LevelZero
  <2>. QED
    BY <1>15, <2>3
<1>. QED
  BY <1>9, <1>12, <1>17, <1>18

\* A learnt clause stays one when literals are dropped but not the first, if the
\* clause still follows.
LEMMA PickedGood ==
    ASSUME NEW ls \in Seq(Lits), OutGood(ls), NEW t \in Seq(Lits), Picked(t, ls), Implies(formula, ToSet(t))
    PROVE  OutGood(t)
<1>1. PICK g \in [DOMAIN t -> DOMAIN ls] : /\ \A k \in DOMAIN t : t[k] = ls[g[k]]
                                           /\ \A k, m \in DOMAIN t : g[k] = g[m] => k = m
                                           /\ g[1] = 1
  BY DEF Picked
<1>. DEFINE N == Len(t)
<1>2. N \in Nat /\ N >= 1 /\ DOMAIN t = 1 .. N /\ DOMAIN ls = 1 .. Len(ls) /\ Len(ls) \in Nat
  BY DEF Picked
<1>. HIDE DEF N
<1>3. /\ VarInjective(ls) /\ TrueAt(-ls[1], Top)
      /\ \A k \in 2 .. Len(ls) : TrueAt(-ls[k], BelowTop)
  BY DEF OutGood
<1>4. 1 \in DOMAIN t /\ TrueAt(-t[1], Top)
  BY <1>1, <1>2, <1>3
<1>5. VarInjective(t)
  BY <1>1, <1>3 DEF VarInjective
<1>6. \A k \in 2 .. N : TrueAt(-t[k], BelowTop)
  <2>1. TAKE k \in 2 .. N
  <2>2. k \in DOMAIN t /\ k # 1
    BY <1>2
  <2>3. g[k] # 1 /\ g[k] \in DOMAIN ls
    BY <1>1, <1>4, <2>2
  <2>4. g[k] \in 2 .. Len(ls)
    BY <1>2, <2>3
  <2>. QED
    BY <1>1, <1>3, <2>2, <2>4
<1>. QED
  BY <1>2, <1>4, <1>5, <1>6 DEF OutGood, N

\* What is left without one place.
LEMMA RemoveAtFacts ==
    ASSUME NEW ls \in Seq(Lits), NEW n \in 2 .. Len(ls)
    PROVE  /\ RemoveAt(ls, n) \in Seq(Lits) /\ Len(RemoveAt(ls, n)) = Len(ls) - 1
           /\ Picked(RemoveAt(ls, n), ls) /\ ToSet(RemoveAt(ls, n)) = But(ls, n)
           /\ Rest(RemoveAt(ls, n)) = RestBut(ls, n)
<1>. DEFINE N == Len(ls)
            t == RemoveAt(ls, n)
            a == SubSeq(ls, 1, n - 1)
            b == SubSeq(ls, n + 1, N)
            x == n - 1
            y == N - n
            G(k) == IF k < n THEN k ELSE k + 1
            g == [k \in 1 .. N - 1 |-> G(k)]
<1>1. N \in Nat /\ n \in Nat /\ n >= 2 /\ n <= N /\ DOMAIN ls = 1 .. N
  OBVIOUS
<1>2. a \in Seq(Lits) /\ Len(a) = x /\ \A k \in 1 .. x : a[k] = ls[k]
  OBVIOUS
<1>3. b \in Seq(Lits) /\ Len(b) = y /\ \A k \in 1 .. y : b[k] = ls[n + k]
  OBVIOUS
<1>4. t = a \o b
  BY DEF RemoveAt
<1>. HIDE DEF a, b, t
<1>5. /\ t \in Seq(Lits) /\ DOMAIN t = 1 .. x + y
      /\ \A k \in 1 .. x : t[k] = a[k]
      /\ \A k \in x + 1 .. x + y : t[k] = b[k - x]
  <2>. HIDE DEF x, y, G, g, N
  <2>1. a \in Seq(Lits) /\ b \in Seq(Lits) /\ x = Len(a) /\ y = Len(b)
    BY <1>2, <1>3
  <2>2. /\ a \o b \in Seq(Lits) /\ DOMAIN (a \o b) = 1 .. x + y
        /\ \A k \in 1 .. x : (a \o b)[k] = a[k]
        /\ \A k \in x + 1 .. x + y : (a \o b)[k] = b[k - x]
    BY <2>1, ConcatFacts
  <2>. QED
    BY <1>4, <2>2
<1>6. x + y = N - 1 /\ x \in Nat /\ y \in Nat
  BY <1>1
<1>7. DOMAIN t = 1 .. N - 1 /\ Len(t) = N - 1
  <2>. HIDE DEF N, x, y, G, g
  <2>0. t \in Seq(Lits)
    BY <1>5
  <2>1. Len(t) \in Nat /\ DOMAIN t = 1 .. Len(t)
    BY <2>0
  <2>. QED
    BY <1>1, <1>5, <1>6, <2>1
<1>8. ASSUME NEW k \in 1 .. N - 1
      PROVE  t[k] = ls[G(k)] /\ G(k) \in 1 .. N /\ G(k) # n
  <2>1. CASE k < n
    BY <1>1, <1>2, <1>5, <1>6, <2>1
  <2>2. CASE ~ k < n
    <3>1. k \in x + 1 .. x + y /\ k - x \in 1 .. y /\ n + (k - x) = k + 1
      <4>. HIDE DEF N
      <4>. QED
        BY <1>1, <2>2
    <3>2. t[k] = ls[n + (k - x)]
      BY <1>3, <1>5, <3>1
    <3>3. G(k) = k + 1 /\ G(k) \in 1 .. N /\ G(k) # n
      BY <1>1, <2>2
    <3>. QED
      BY <3>1, <3>2, <3>3
  <2>. QED
    BY <2>1, <2>2
<1>. HIDE DEF x, y, N
<1>9. /\ \A k, m \in 1 .. N - 1 : G(k) = G(m) => k = m
      /\ G(1) = 1 /\ 1 \in 1 .. N - 1
      /\ \A k \in 2 .. N - 1 : G(k) # 1
      /\ \A m \in 1 .. N : m # n => \E k \in 1 .. N - 1 : G(k) = m
      /\ \A m \in 2 .. N : m # n => \E k \in 2 .. N - 1 : G(k) = m
  <2>1. ASSUME NEW m \in 1 .. N, m # n  PROVE \E k \in 1 .. N - 1 : G(k) = m
    <3>1. CASE m < n
      BY <1>1, <3>1
    <3>2. CASE m > n
      <4>1. m - 1 \in 1 .. N - 1 /\ G(m - 1) = m
        BY <1>1, <3>2
      <4>. QED
        BY <4>1
    <3>. QED
      BY <1>1, <2>1, <3>1, <3>2
  <2>2. ASSUME NEW m \in 2 .. N, m # n  PROVE \E k \in 2 .. N - 1 : G(k) = m
    <3>1. CASE m < n
      BY <1>1, <3>1
    <3>2. CASE m > n
      <4>1. m - 1 \in 2 .. N - 1 /\ G(m - 1) = m
        BY <1>1, <3>2
      <4>. QED
        BY <4>1
    <3>. QED
      BY <1>1, <2>2, <3>1, <3>2
  <2>. QED
    BY <1>1, <2>1, <2>2
<1>. HIDE DEF G
<1>10. Picked(t, ls)
  <2>1. g \in [DOMAIN t -> DOMAIN ls] /\ \A k \in DOMAIN t : t[k] = ls[g[k]]
    BY <1>1, <1>7, <1>8
  <2>2. (\A k, m \in DOMAIN t : g[k] = g[m] => k = m) /\ g[1] = 1
    BY <1>7, <1>9
  <2>3. Len(t) >= 1
    BY <1>1, <1>7
  <2>. HIDE DEF g
  <2>. QED
    BY <2>1, <2>2, <2>3 DEF Picked
<1>11. ToSet(t) = But(ls, n)
  <2>1. \A k \in DOMAIN t : t[k] \in But(ls, n)
    BY <1>1, <1>7, <1>8 DEF But
  <2>2. \A m \in DOMAIN ls \ {n} : \E k \in DOMAIN t : t[k] = ls[m]
    <3>1. TAKE m \in DOMAIN ls \ {n}
    <3>2. m \in 1 .. N /\ m # n
      BY <1>1
    <3>3. PICK k \in 1 .. N - 1 : G(k) = m
      BY <1>9, <3>2
    <3>4. k \in DOMAIN t /\ t[k] = ls[m]
      BY <1>7, <1>8, <3>3
    <3>. QED
      BY <3>4
  <2>. QED
    BY <2>1, <2>2 DEF ToSet, But
<1>12. Rest(t) = RestBut(ls, n)
  <2>1. \A k \in 2 .. N - 1 : t[k] = ls[G(k)] /\ G(k) \in 2 .. N \ {n}
    <3>1. TAKE k \in 2 .. N - 1
    <3>2. k \in 1 .. N - 1
      OBVIOUS
    <3>3. t[k] = ls[G(k)] /\ G(k) \in 1 .. N /\ G(k) # n /\ G(k) # 1
      BY <1>8, <1>9, <3>2
    <3>. QED
      BY <1>1, <3>3
  <2>2. \A m \in 2 .. N \ {n} : \E k \in 2 .. N - 1 : t[k] = ls[m]
    BY <1>9, <2>1
  <2>3. Rest(t) = {var(t[k]) : k \in 2 .. N - 1} /\ RestBut(ls, n) = {var(ls[k]) : k \in 2 .. N \ {n}}
    BY <1>7 DEF Rest, RestBut, N
  <2>. QED
    BY <2>1, <2>2, <2>3
<1>. QED
  BY <1>5, <1>7, <1>10, <1>11, <1>12 DEF t, N

-----------------------------------------------------------------------------
(***************************************************************************)
(* Minimisation: shortening, litRedundant, and the last phase of a failed  *)
(* assumption.                                                             *)
(***************************************************************************)

\* A literal whose complement a binary clause of the first one contains can go.
LEMMA WithoutGood ==
    ASSUME IInv, NEW ls \in Seq(Lits), OutGood(ls)
    PROVE  LET t == Without(ls, Subsumed(ls)) IN t \in Seq(Lits) /\ OutGood(t)
<1>. DEFINE gone == Subsumed(ls)
            t == Without(ls, gone)
            N == Len(ls)
<1>1. N \in Nat /\ N >= 1 /\ DOMAIN ls = 1 .. N /\ VarInjective(ls) /\ ls # <<>> /\ ls[1] \in Lits
  BY DEF OutGood
<1>2. ls[1] \notin gone
  <2>1. SUFFICES ASSUME ls[1] \in ToSet(Tail(ls))  PROVE FALSE
    BY DEF Subsumed
  <2>2. PICK k \in DOMAIN Tail(ls) : ls[1] = Tail(ls)[k]
    BY <2>1 DEF ToSet
  <2>3. k \in 1 .. N - 1 /\ Tail(ls)[k] = ls[k + 1] /\ k + 1 \in DOMAIN ls
    BY <1>1, <2>2, HeadTail
  <2>4. 1 = k + 1
    BY <1>1, <2>2, <2>3 DEF VarInjective
  <2>. QED
    BY <2>3, <2>4
<1>. HIDE DEF gone
<1>3. /\ t \in Seq(Lits) /\ Len(t) \in 1 .. Len(ls) /\ t[1] = ls[1]
      /\ Picked(t, ls)
      /\ \A m \in DOMAIN ls : ls[m] \notin gone => \E k \in DOMAIN t : t[k] = ls[m]
  BY <1>1, <1>2, WithoutFacts
<1>. HIDE DEF t
<1>5. 1 \in DOMAIN t
  <2>1. Len(t) \in Nat /\ Len(t) >= 1 /\ DOMAIN t = 1 .. Len(t)
    BY <1>3 DEF Picked
  <2>. QED
    BY <2>1
<1>6. Implies(formula, ToSet(t))
  <2>1. SUFFICES ASSUME NEW m \in Models(formula)  PROVE \E k \in DOMAIN t : Holds(m, t[k])
    BY DEF Implies, Satisfies, ToSet
  <2>2. m \in Assignments
    BY DEF Models
  <2>3. PICK n \in DOMAIN ls : Holds(m, ls[n])
    BY DEF OutGood, Implies, Satisfies, ToSet
  <2>4. CASE ls[n] \notin gone
    BY <1>3, <2>3, <2>4
  <2>5. CASE ls[n] \in gone
    <3>. DEFINE p == -ls[1]
                q == ls[n]
    <3>1. p \in Lits /\ q \in Lits /\ -p = ls[1]
      BY <1>1, LitsFacts
    <3>2. \E w \in ToSet(watchesBin[p]) : w.blocker = -q
      BY <2>5 DEF gone, Subsumed
    <3>3. PICK x \in DOMAIN watchesBin[p] : watchesBin[p][x].blocker = -q
      BY <3>2 DEF ToSet
    <3>. DEFINE w == watchesBin[p][x]
    <3>4. w.cref \in DOMAIN ca /\ (lits(w.cref) = <<-p, w.blocker>> \/ lits(w.cref) = <<w.blocker, -p>>)
      BY <3>1 DEF IInv, WatchInv
    <3>5. Implies(formula, ToSet(lits(w.cref)))
      BY <3>4 DEF IInv, MeaningInv
    <3>. HIDE DEF w
    <3>6. ToSet(lits(w.cref)) = {ls[1], -q}
      <4>1. w.blocker = -q
        BY <3>3 DEF w
      <4>2. DOMAIN <<ls[1], -q>> = 1 .. 2 /\ DOMAIN <<-q, ls[1]>> = 1 .. 2
        OBVIOUS
      <4>3. lits(w.cref) = <<ls[1], -q>> \/ lits(w.cref) = <<-q, ls[1]>>
        BY <3>1, <3>4, <4>1
      <4>4. ToSet(<<ls[1], -q>>) = {ls[1], -q} /\ ToSet(<<-q, ls[1]>>) = {ls[1], -q}
        BY <4>2 DEF ToSet
      <4>. QED
        BY <4>3, <4>4
    <3>7. Holds(m, ls[1]) \/ Holds(m, -q)
      BY <3>5, <3>6 DEF Implies, Satisfies
    <3>8. Holds(m, t[1])
      BY <1>3, <2>2, <2>3, <3>1, <3>7, HoldsNot
    <3>. QED
      BY <1>5, <3>8
  <2>. QED
    BY <2>4, <2>5
<1>7. OutGood(t)
  BY <1>3, <1>6, PickedGood
<1>. QED
  BY <1>3, <1>7 DEF t, gone

\* The literal of the highest level but one takes the second place.
LEMMA HighestGood ==
    ASSUME OrderInv, LevelsInv, NEW ls \in Seq(Lits), OutGood(ls)
    PROVE  LET t == HighestSecond(ls) IN t \in Seq(Lits) /\ OutGood(t) /\ SecondHighest(t)
<1>. DEFINE N == Len(ls)
            f == [j \in 2 .. N |-> level(ls[j])]
            P(i) == \A j \in 2 .. N : \/ level(ls[j]) < level(ls[i])
                                      \/ level(ls[j]) = level(ls[i]) /\ i <= j
            i == CHOOSE i \in 2 .. N : P(i)
            t == Swapped(ls, 2, i)
<1>1. N \in Nat /\ N >= 1 /\ DOMAIN ls = 1 .. N
  BY DEF OutGood
<1>2. CASE N = 1
  <2>1. HighestSecond(ls) = ls
    BY <1>2 DEF HighestSecond
  <2>2. SecondHighest(ls)
    BY <1>2 DEF SecondHighest
  <2>. QED
    BY <2>1, <2>2
<1>3. CASE N # 1
  <2>1. HighestSecond(ls) = t
    BY <1>3 DEF HighestSecond
  <2>2. \A j \in 2 .. N : level(ls[j]) \in Int
    <3>1. TAKE j \in 2 .. N
    <3>2. PICK x \in DOMAIN trail : trail[x].lit = -ls[j]
      BY DEF OutGood, TrueAt
    <3>3. ls[j] \in Lits /\ trail[x].level \in 0 .. decisionLevel /\ decisionLevel \in Nat
      BY TrailFacts DEF LevelsInv
    <3>4. level(ls[j]) = trail[x].level
      BY <3>2, <3>3, FalseFacts
    <3>. QED
      BY <3>3, <3>4
  <2>3. \E k \in 2 .. N : P(k)
    <3>1. \A j \in 2 .. N : f[j] \in Int /\ f[j] = level(ls[j])
      BY <2>2
    <3>. HIDE DEF f
    <3>2. N >= 2 /\ N \in Nat
      BY <1>1, <1>3
    <3>. HIDE DEF N
    <3>3. \E k \in 2 .. N : \A j \in 2 .. N : f[j] < f[k] \/ (f[j] = f[k] /\ k <= j)
      BY <3>1, <3>2, FirstHighest
    <3>. QED
      BY <3>1, <3>3
  <2>4. i \in 2 .. N /\ P(i)
    <3>. HIDE DEF P
    <3>. QED
      BY <2>3
  <2>. HIDE DEF i
  <2>5. 2 \in DOMAIN ls /\ i \in DOMAIN ls
    BY <1>1, <1>3, <2>4
  <2>6. /\ t \in Seq(Lits) /\ DOMAIN t = DOMAIN ls /\ Len(t) = Len(ls)
        /\ t[2] = ls[i] /\ t[i] = ls[2]
        /\ \A k \in DOMAIN ls : k # 2 /\ k # i => t[k] = ls[k]
    BY <2>5, SwappedFacts
  <2>7. Rearranged(t, ls)
    BY <2>5, SwappedRearranges
  <2>. HIDE DEF t
  <2>8. ToSet(t) = ToSet(ls)
    BY <2>7, RearrangedFacts
  <2>. DEFINE g == [k \in DOMAIN t |-> IF k = 2 THEN i ELSE IF k = i THEN 2 ELSE k]
  <2>9. Picked(t, ls)
    <3>1. g \in [DOMAIN t -> DOMAIN ls]
      BY <2>5, <2>6
    <3>2. \A k \in DOMAIN t : t[k] = ls[g[k]]
      BY <2>5, <2>6
    <3>3. \A k, m \in DOMAIN t : g[k] = g[m] => k = m
      OBVIOUS
    <3>4. g[1] = 1 /\ Len(t) >= 1
      BY <1>1, <2>4, <2>6
    <3>. QED
      BY <3>1, <3>2, <3>3, <3>4 DEF Picked
  <2>10. OutGood(t)
    <3>1. Implies(formula, ToSet(t))
      BY <2>8 DEF OutGood
    <3>. QED
      BY <2>6, <2>9, <3>1, PickedGood
  <2>11. SecondHighest(t)
    <3>1. SUFFICES ASSUME NEW k \in 2 .. N  PROVE level(t[k]) <= level(ls[i])
      BY <2>6 DEF SecondHighest
    <3>2. k \in DOMAIN ls /\ 2 \in 2 .. N
      BY <1>1, <1>3
    <3>3. \E j \in 2 .. N : t[k] = ls[j]
      BY <2>4, <2>6, <3>2
    <3>4. PICK j \in 2 .. N : t[k] = ls[j]
      BY <3>3
    <3>5. level(ls[j]) < level(ls[i]) \/ level(ls[j]) = level(ls[i])
      BY <2>4
    <3>6. level(ls[j]) \in Int /\ level(ls[i]) \in Int
      BY <2>2, <2>4
    <3>. QED
      BY <3>4, <3>5, <3>6
  <2>. QED
    BY <2>1, <2>6, <2>10, <2>11
<1>. QED
  BY <1>2, <1>3

\* Shortening with binary clauses keeps a learnt clause.
LEMMA ShortenDoes ==
    ASSUME IInv, Shorten
    PROVE  /\ UNCHANGED <<trail, trail_lim, formula, nVars, conflict, model, assumptions, confl, ca>>
           /\ pc' = "learn" /\ an'.out \in Seq(Lits) /\ OutGood(an'.out) /\ SecondHighest(an'.out)
           /\ \E n \in Nat : an' = [an EXCEPT !.out = an'.out, !.lbd = n, !.seen = {}]
<1>. DEFINE ls == IF Len(an.out) <= LbSizeMinimizingClause
                  THEN minimisationWithBinaryResolution(an.out) ELSE an.out
            short == HighestSecond(ls)
<1>1. /\ UNCHANGED <<trail, trail_lim, formula, nVars, conflict, model, assumptions, confl, ca>>
      /\ pc = "shorten" /\ pc' = "learn"
      /\ an' = [an EXCEPT !.out = short, !.lbd = computeLBD(short), !.seen = {}]
  BY DEF Shorten, UnchangedByAnalyze, assignment, user, result
<1>2. OutGood(an.out) /\ an.out \in Seq(Lits) /\ an \in AnType /\ OrderInv /\ LevelsInv
  BY <1>1 DEF IInv, MinimiseInv, ValuesInv, AnType
<1>3. ls \in Seq(Lits) /\ OutGood(ls)
  <2>1. Without(an.out, Subsumed(an.out)) \in Seq(Lits) /\ OutGood(Without(an.out, Subsumed(an.out)))
    BY <1>2, WithoutGood
  <2>. QED
    BY <1>2, <2>1 DEF minimisationWithBinaryResolution
<1>. HIDE DEF ls
<1>4. short \in Seq(Lits) /\ OutGood(short) /\ SecondHighest(short)
  BY <1>2, <1>3, HighestGood
<1>. HIDE DEF short
<1>5. computeLBD(short) \in Nat
  BY <1>4, LBDType
<1>. DEFINE n == computeLBD(short)
<1>. HIDE DEF n
<1>6. an' = [an EXCEPT !.out = short, !.lbd = n, !.seen = {}] /\ n \in Nat
  BY <1>1, <1>5 DEF n
<1>7. an'.out = short
  BY <1>2, <1>6 DEF AnType
<1>. QED
  BY <1>1, <1>4, <1>6, <1>7

\* The last element and the front of a sequence.
LEMMA LastFacts ==
    ASSUME NEW S, NEW s \in Seq(S), s # <<>>
    PROVE  /\ Len(s) \in Nat /\ Len(s) > 0 /\ Len(s) \in DOMAIN s /\ Last(s) = s[Len(s)] /\ Last(s) \in S
           /\ Front(s) \in Seq(S) /\ Len(Front(s)) = Len(s) - 1 /\ DOMAIN Front(s) = 1 .. Len(s) - 1
           /\ \A n \in 1 .. Len(s) - 1 : Front(s)[n] = s[n]
<1>. DEFINE N == Len(s)
            f == SubSeq(s, 1, N - 1)
<1>1. N \in Nat /\ DOMAIN s = 1 .. N /\ N # 0
  OBVIOUS
<1>2. N > 0 /\ N \in DOMAIN s /\ s[N] \in S
  BY <1>1
<1>3. f \in Seq(S) /\ Len(f) = N - 1 /\ \A n \in 1 .. N - 1 : f[n] = s[n]
  <2>1. 1 \in 1 .. N /\ N - 1 \in 0 .. N
    BY <1>1
  <2>2. f \in Seq(S)
    BY <1>1
  <2>3. Len(f) = N - 1
    BY <1>1
  <2>4. \A n \in 1 .. N - 1 : f[n] = s[n]
    BY <1>1
  <2>. QED
    BY <2>2, <2>3, <2>4
<1>4. DOMAIN f = 1 .. N - 1
  BY <1>3
<1>. HIDE DEF f
<1>. QED
  BY <1>1, <1>2, <1>3, <1>4 DEF Last, Front, f

\* The stack without its last literal and with others.
Stacked(s, new) == Front(s) \o new
\* The stack of litRedundant after a literal is replaced by those of its reason.
LEMMA StackFacts ==
    ASSUME NEW S, NEW s \in Seq(S), s # <<>>, NEW new \in Seq(S)
    PROVE  LET t == Stacked(s, new) IN
           /\ t \in Seq(S)
           /\ \A n \in DOMAIN t : (\E m \in DOMAIN s : t[n] = s[m]) \/ (\E m \in DOMAIN new : t[n] = new[m])
           /\ \A m \in DOMAIN s : s[m] = Last(s) \/ \E n \in DOMAIN t : t[n] = s[m]
           /\ \A m \in DOMAIN new : \E n \in DOMAIN t : t[n] = new[m]
<1>. DEFINE a == Front(s)
            t == Stacked(s, new)
            N == Len(s)
            x == N - 1
            y == Len(new)
<1>1. /\ N \in Nat /\ N > 0 /\ Last(s) = s[N] /\ DOMAIN s = 1 .. N
      /\ a \in Seq(S) /\ Len(a) = x /\ \A n \in 1 .. x : a[n] = s[n]
  BY LastFacts
<1>2. y \in Nat /\ y = Len(new) /\ DOMAIN new = 1 .. y /\ new \in Seq(S)
  OBVIOUS
<1>. HIDE DEF a, N, y
<1>3. x \in Nat /\ x = N - 1 /\ x = Len(a)
  BY <1>1
<1>. HIDE DEF x, t
<1>4. /\ t \in Seq(S) /\ DOMAIN t = 1 .. x + y
      /\ \A i \in 1 .. x : t[i] = a[i]
      /\ \A i \in x + 1 .. x + y : t[i] = new[i - x]
  <2>1. /\ a \o new \in Seq(S) /\ DOMAIN (a \o new) = 1 .. x + y
        /\ \A i \in 1 .. x : (a \o new)[i] = a[i]
        /\ \A i \in x + 1 .. x + y : (a \o new)[i] = new[i - x]
    <3>1. a \in Seq(S) /\ new \in Seq(S) /\ x = Len(a) /\ y = Len(new)
      BY <1>1, <1>2, <1>3
    <3>. QED
      BY <3>1, ConcatFacts
  <2>2. t = a \o new
    BY DEF a, t, Stacked
  <2>. QED
    BY <2>1, <2>2
<1>5. ASSUME NEW n \in DOMAIN t
      PROVE  (\E m \in DOMAIN s : t[n] = s[m]) \/ (\E m \in DOMAIN new : t[n] = new[m])
  <2>1. CASE n <= x
    <3>1. n \in 1 .. x /\ n \in 1 .. N
      BY <1>2, <1>3, <1>4, <1>1, <2>1
    <3>. QED
      BY <1>1, <1>4, <3>1
  <2>2. CASE n > x
    <3>1. n \in x + 1 .. x + y /\ n - x \in 1 .. y
      BY <1>2, <1>3, <1>4, <2>2
    <3>. QED
      BY <1>2, <1>4, <3>1
  <2>. QED
    BY <1>3, <1>4, <2>1, <2>2
<1>6. ASSUME NEW m \in DOMAIN s, s[m] # Last(s)  PROVE \E n \in DOMAIN t : t[n] = s[m]
  <2>1. m # N
    BY <1>1, <1>6
  <2>2. m \in 1 .. x /\ m \in 1 .. x + y
    BY <1>1, <1>2, <1>3, <2>1
  <2>. QED
    BY <1>1, <1>4, <2>2
<1>7. ASSUME NEW m \in DOMAIN new  PROVE \E n \in DOMAIN t : t[n] = new[m]
  <2>1. x + m \in x + 1 .. x + y /\ (x + m) - x = m /\ x + m \in 1 .. x + y
    BY <1>2, <1>3
  <2>2. t[x + m] = new[m]
    BY <1>4, <2>1
  <2>. QED
    BY <1>4, <2>1, <2>2
<1>. QED
  BY <1>4, <1>5, <1>6, <1>7 DEF t

\* A literal of the stack is followed to the others of its reason.
LEMMA FollowGood ==
    ASSUME IInv, pc = "redundant", an.stack # <<>>
    PROVE  LET cr == reason(Last(an.stack))
               new == Unmarked(TrueFirst(lits(cr)), 2, an.seen)
           IN /\ new \in Seq(Lits)
              /\ Closed(var(Last(an.stack)), an.seen \cup VarsOf(new))
              /\ \A n \in DOMAIN new : \E j \in DOMAIN trail :
                    /\ trail[j].lit = -new[n] /\ trail[j].level \in Above0
                    /\ var(trail[j].lit) = var(new[n]) /\ reason(new[n]) = trail[j].reason
<1>. DEFINE q == Last(an.stack)
            cr == reason(q)
            ps == TrueFirst(lits(cr))
            s == an.seen
            new == Unmarked(ps, 2, s)
<1>0. LevelsInv /\ OrderInv /\ RedundantGood(an) /\ an.stack \in Seq(Lits) /\ decisionLevel \in Nat
      /\ DOMAIN trail = 1 .. Len(trail)
  BY TrailFacts, MinimiseParts DEF IInv, ValuesInv, AnType
<1>1. q = an.stack[Len(an.stack)] /\ Len(an.stack) \in DOMAIN an.stack /\ q \in Lits
  BY <1>0, LastFacts
<1>2. PICK i \in DOMAIN trail : trail[i].lit = -q /\ trail[i].level > 0 /\ trail[i].reason # CRef_Undef
  BY <1>0, <1>1 DEF RedundantGood
<1>3. cr = trail[i].reason /\ var(trail[i].lit) = var(q)
  BY <1>0, <1>1, <1>2, FalseFacts
<1>4. Given(cr, i)
  BY <1>2, <1>3, ReasonFacts
<1>. HIDE DEF q, cr
<1>5. /\ ps \in Seq(Lits) /\ Len(ps) >= 2 /\ ToSet(ps) = ToSet(lits(cr)) /\ GoodClause(ps)
      /\ ps[1] = trail[i].lit
      /\ \A k \in 2 .. Len(ps) : \E j \in 1 .. i - 1 : trail[j].lit = -ps[k]
  BY <1>4, ReasonSides
<1>. HIDE DEF ps
<1>6. /\ new \in Seq(Lits)
      /\ \A n \in DOMAIN new : \E m \in 2 .. Len(ps) :
            new[n] = ps[m] /\ var(ps[m]) \notin s /\ level(ps[m]) > 0
      /\ \A m \in 2 .. Len(ps) : \/ \E n \in DOMAIN new : new[n] = ps[m]
                                 \/ var(ps[m]) \in s
                                 \/ ~ level(ps[m]) > 0
      /\ (\A m, n \in 2 .. Len(ps) : var(ps[m]) = var(ps[n]) => m = n) => VarInjective(new)
  <2>. HIDE DEF s
  <2>1. 2 \in Nat \ {0}
    OBVIOUS
  <2>. QED
    BY <1>5, <2>1, UnmarkedFacts
<1>. HIDE DEF new
<1>7. ASSUME NEW k \in 2 .. Len(ps)
      PROVE  \E j \in DOMAIN trail : /\ trail[j].lit = -ps[k] /\ ps[k] \in Lits /\ var(trail[j].lit) = var(ps[k])
                                     /\ level(ps[k]) = trail[j].level /\ reason(ps[k]) = trail[j].reason
                                     /\ trail[j].level \in 0 .. decisionLevel
  <2>1. PICK j \in 1 .. i - 1 : trail[j].lit = -ps[k]
    BY <1>5
  <2>2. j \in DOMAIN trail /\ ps[k] \in Lits
    <3>1. k \in DOMAIN ps
      BY <1>5
    <3>. QED
      BY <1>0, <1>5, <3>1
  <2>. QED
    BY <1>0, <2>1, <2>2, FalseFacts DEF LevelsInv
<1>8. ASSUME NEW n \in DOMAIN new
      PROVE  \E j \in DOMAIN trail : /\ trail[j].lit = -new[n] /\ trail[j].level \in Above0
                                     /\ var(trail[j].lit) = var(new[n]) /\ reason(new[n]) = trail[j].reason
  <2>1. PICK m \in 2 .. Len(ps) : new[n] = ps[m] /\ level(ps[m]) > 0
    BY <1>6
  <2>2. PICK j \in DOMAIN trail : /\ trail[j].lit = -ps[m] /\ var(trail[j].lit) = var(ps[m])
                                  /\ level(ps[m]) = trail[j].level /\ reason(ps[m]) = trail[j].reason
                                  /\ trail[j].level \in 0 .. decisionLevel
    BY <1>7
  <2>3. trail[j].level \in Above0
    BY <1>0, <2>1, <2>2 DEF Above0
  <2>. QED
    BY <2>1, <2>2, <2>3
<1>9. Closed(var(q), s \cup VarsOf(new))
  <2>1. ASSUME NEW k \in DOMAIN ps
        PROVE  ps[k] = trail[i].lit \/ var(ps[k]) \in s \cup VarsOf(new) \/ SeenAt(var(ps[k]), {0})
    <3>1. CASE k = 1
      BY <1>5, <3>1
    <3>2. CASE k # 1
      <4>1. k \in 2 .. Len(ps)
        BY <1>5, <3>2
      <4>2. PICK j \in DOMAIN trail : /\ trail[j].lit = -ps[k] /\ var(trail[j].lit) = var(ps[k])
                                      /\ level(ps[k]) = trail[j].level
                                      /\ trail[j].level \in 0 .. decisionLevel
        BY <1>7, <4>1
      <4>3. CASE ~ level(ps[k]) > 0
        <5>1. trail[j].level = 0
          BY <1>0, <4>2, <4>3
        <5>. QED
          BY <4>2, <5>1 DEF SeenAt
      <4>4. CASE \E n \in DOMAIN new : new[n] = ps[k]
        BY <4>4 DEF VarsOf
      <4>. QED
        BY <1>6, <4>1, <4>3, <4>4
    <3>. QED
      BY <3>1, <3>2
  <2>2. \A k \in DOMAIN lits(cr) : \E m \in DOMAIN ps : lits(cr)[k] = ps[m]
    BY <1>5 DEF ToSet
  <2>. QED
    BY <1>2, <1>3, <2>1, <2>2 DEF Closed
<1>. QED
  BY <1>6, <1>8, <1>9 DEF q, cr, ps, new, s

\* litRedundant keeps its bookkeeping: what it marks is covered, or is taken
\* back.
LEMMA RedundantDoes ==
    ASSUME IInv, litRedundant
    PROVE  /\ UNCHANGED <<trail, trail_lim, formula, nVars, conflict, model, assumptions, confl>>
           /\ decisionLevel > 0 /\ OutGood(an'.out) /\ an' \in AnType
           /\ \/ pc' = "minimise" /\ MinimiseGood(an')
              \/ pc' = "redundant" /\ RedundantGood(an')
<1>0. /\ UNCHANGED <<trail, trail_lim, formula, nVars, conflict, model, assumptions, confl>>
      /\ pc = "redundant"
  BY DEF litRedundant, UnchangedByAnalyze, assignment, user, result
<1>1. decisionLevel > 0 /\ OutGood(an.out) /\ RedundantGood(an) /\ an \in AnType
  BY <1>0, MinimiseParts DEF IInv, ValuesInv
<1>. DEFINE out == an.out
            n == an.next
<1>2. /\ out \in Seq(Lits) /\ an.stack \in Seq(Lits) /\ an.seen \subseteq Vars /\ an.saved \subseteq Vars /\ n \in Nat
  BY <1>1 DEF AnType
<1>3. /\ n \in 2 .. Len(out)
      /\ \A v \in an.seen : SeenAt(v, Above0)
      /\ Rest(out) \subseteq an.saved /\ an.saved \subseteq an.seen
      /\ AllClosed(an.saved, Rest(out))
      /\ AllClosed(an.seen, RestBut(out, n) \cup VarsOf(an.stack))
      /\ \A m \in DOMAIN an.stack :
            /\ var(an.stack[m]) \in an.seen
            /\ \E i \in DOMAIN trail : /\ trail[i].lit = -an.stack[m] /\ trail[i].level > 0
                                       /\ trail[i].reason # CRef_Undef
  BY <1>1 DEF RedundantGood
<1>4. CASE an.stack = <<>>
  <2>. DEFINE t == RemoveAt(out, n)
  <2>1. an' = [an EXCEPT !.out = t] /\ pc' = "minimise"
    BY <1>4 DEF litRedundant
  <2>2. /\ t \in Seq(Lits) /\ Len(t) = Len(out) - 1
        /\ Picked(t, out) /\ ToSet(t) = But(out, n)
        /\ Rest(t) = RestBut(out, n)
    BY <1>2, <1>3, RemoveAtFacts
  <2>. HIDE DEF t
  <2>3. an'.out = t /\ an'.next = n /\ an'.seen = an.seen /\ an' \in AnType
    BY <1>1, <2>1, <2>2 DEF AnType
  <2>4. VarsOf(an.stack) = {}
    BY <1>4 DEF VarsOf
  <2>5. AllClosed(an.seen, RestBut(out, n)) /\ Rest(out) \subseteq an.seen
    BY <1>3, <2>4
  <2>6. Implies(formula, But(out, n))
    BY <1>1, <1>2, <1>3, <2>5, RedundantFollows
  <2>7. OutGood(t)
    BY <1>1, <1>2, <2>2, <2>6, PickedGood
  <2>8. n \in 2 .. Len(t) + 1
    <3>1. Len(out) \in Nat
      BY <1>2
    <3>. QED
      BY <1>3, <2>2, <3>1
  <2>9. RestBut(out, n) \subseteq Rest(out)
    BY DEF RestBut, Rest
  <2>10. MinimiseGood(an')
    BY <1>3, <2>2, <2>3, <2>5, <2>8, <2>9 DEF MinimiseGood
  <2>. QED
    BY <1>0, <1>1, <2>1, <2>3, <2>7, <2>10
<1>5. CASE an.stack # <<>>
  <2>. DEFINE q == Last(an.stack)
              new == Unmarked(TrueFirst(lits(reason(q))), 2, an.seen)
              st == Front(an.stack) \o new
              sn == an.seen \cup VarsOf(new)
  <2>1. \/ /\ \A p \in ToSet(new) : Followed(p)
           /\ an' = [an EXCEPT !.stack = st, !.seen = sn] /\ pc' = pc
        \/ an' = [an EXCEPT !.seen = an.saved, !.stack = <<>>, !.next = n + 1] /\ pc' = "minimise"
    BY <1>5 DEF litRedundant
  <2>2. /\ new \in Seq(Lits)
        /\ Closed(var(q), sn)
        /\ \A m \in DOMAIN new : \E j \in DOMAIN trail :
              /\ trail[j].lit = -new[m] /\ trail[j].level \in Above0
              /\ var(trail[j].lit) = var(new[m]) /\ reason(new[m]) = trail[j].reason
    BY <1>0, <1>5, FollowGood
  <2>. HIDE DEF new, q
  <2>3. CASE an' = [an EXCEPT !.seen = an.saved, !.stack = <<>>, !.next = n + 1] /\ pc' = "minimise"
    <3>1. an'.out = out /\ an'.next = n + 1 /\ an'.seen = an.saved /\ an' \in AnType
      <4>1. <<>> \in Seq(Lits) /\ n + 1 \in Nat
        BY <1>2
      <4>. QED
        BY <1>1, <2>3, <4>1 DEF AnType
    <3>2. n + 1 \in 2 .. Len(out) + 1
      <4>1. Len(out) \in Nat
        BY <1>2
      <4>. QED
        BY <1>3, <4>1
    <3>3. MinimiseGood(an')
      BY <1>3, <3>1, <3>2 DEF MinimiseGood
    <3>. QED
      BY <1>0, <1>1, <2>3, <3>1, <3>3
  <2>4. CASE /\ \A p \in ToSet(new) : Followed(p)
             /\ an' = [an EXCEPT !.stack = st, !.seen = sn] /\ pc' = pc
    <3>1. /\ st \in Seq(Lits)
          /\ \A k \in DOMAIN st : \/ \E m \in DOMAIN an.stack : st[k] = an.stack[m]
                                  \/ \E m \in DOMAIN new : st[k] = new[m]
          /\ \A m \in DOMAIN an.stack : an.stack[m] = q \/ \E k \in DOMAIN st : st[k] = an.stack[m]
          /\ \A m \in DOMAIN new : \E k \in DOMAIN st : st[k] = new[m]
      <4>1. an.stack \in Seq(Lits) /\ an.stack # <<>> /\ new \in Seq(Lits)
        BY <1>2, <1>5, <2>2
      <4>2. q = Last(an.stack)
        BY DEF q
      <4>. DEFINE stk == an.stack
      <4>3. stk \in Seq(Lits) /\ stk # <<>> /\ st = Stacked(stk, new)
        BY <4>1 DEF Stacked
      <4>. HIDE DEF st, stk
      <4>4. /\ st \in Seq(Lits)
            /\ \A k \in DOMAIN st : (\E m \in DOMAIN stk : st[k] = stk[m]) \/ (\E m \in DOMAIN new : st[k] = new[m])
            /\ \A m \in DOMAIN stk : stk[m] = Last(stk) \/ \E k \in DOMAIN st : st[k] = stk[m]
            /\ \A m \in DOMAIN new : \E k \in DOMAIN st : st[k] = new[m]
        BY <4>1, <4>3, StackFacts
      <4>. QED
        BY <4>2, <4>4 DEF stk
    <3>. HIDE DEF st
    <3>2. sn \subseteq Vars
      <4>1. \A m \in DOMAIN new : new[m] \in Lits
        BY <2>2
      <4>. QED
        BY <1>2, <4>1, LitsFacts DEF VarsOf
    <3>3. \A v \in sn : SeenAt(v, Above0)
      BY <1>3, <2>2 DEF VarsOf, SeenAt
    <3>4. AllClosed(sn, RestBut(out, n) \cup VarsOf(st))
      <4>1. SUFFICES ASSUME NEW v \in sn, v \notin RestBut(out, n), v \notin VarsOf(st)
                     PROVE  Closed(v, sn)
        BY DEF AllClosed
      <4>2. v \notin VarsOf(new)
        BY <3>1, <4>1 DEF VarsOf
      <4>3. v \in an.seen
        BY <4>1, <4>2
      <4>4. CASE v \in VarsOf(an.stack)
        <5>1. v = var(q)
          BY <3>1, <4>1, <4>4 DEF VarsOf
        <5>. QED
          BY <2>2, <5>1
      <4>5. CASE v \notin VarsOf(an.stack)
        <5>1. Closed(v, an.seen)
          BY <1>3, <4>1, <4>3, <4>5 DEF AllClosed
        <5>. HIDE DEF sn
        <5>2. an.seen \subseteq sn
          BY DEF sn
        <5>. QED
          BY <5>1, <5>2, ClosedMore
      <4>. QED
        BY <4>4, <4>5
    <3>5. ASSUME NEW k \in DOMAIN st
          PROVE  /\ var(st[k]) \in sn
                 /\ \E i \in DOMAIN trail : /\ trail[i].lit = -st[k] /\ trail[i].level > 0
                                            /\ trail[i].reason # CRef_Undef
      <4>1. CASE \E m \in DOMAIN an.stack : st[k] = an.stack[m]
        BY <1>3, <4>1
      <4>2. CASE \E m \in DOMAIN new : st[k] = new[m]
        <5>1. PICK m \in DOMAIN new : st[k] = new[m]
          BY <4>2
        <5>2. PICK j \in DOMAIN trail :
              /\ trail[j].lit = -new[m] /\ trail[j].level \in Above0
              /\ reason(new[m]) = trail[j].reason
          BY <2>2
        <5>3. reason(new[m]) # CRef_Undef
          BY <2>4 DEF ToSet, Followed
        <5>4. trail[j].level > 0
          BY <5>2, TrailFacts DEF IInv, Above0
        <5>. QED
          BY <5>1, <5>2, <5>3, <5>4 DEF VarsOf
      <4>. QED
        BY <3>1, <4>1, <4>2
    <3>. HIDE DEF sn
    <3>6. an'.out = out /\ an'.next = n /\ an'.seen = sn /\ an'.saved = an.saved /\ an'.stack = st /\ an' \in AnType
      BY <1>1, <2>4, <3>1, <3>2 DEF AnType
    <3>7. an.seen \subseteq sn
      BY DEF sn
    <3>8. RedundantGood(an')
      <4>1. /\ an'.next \in 2 .. Len(an'.out) /\ Rest(an'.out) \subseteq an'.saved /\ an'.saved \subseteq an'.seen
            /\ AllClosed(an'.saved, Rest(an'.out))
        BY <1>3, <3>6, <3>7
      <4>2. AllClosed(an'.seen, RestBut(an'.out, an'.next) \cup VarsOf(an'.stack))
        BY <3>4, <3>6
      <4>3. \A v \in an'.seen : SeenAt(v, Above0)
        BY <3>3, <3>6
      <4>4. \A k \in DOMAIN an'.stack :
                 /\ var(an'.stack[k]) \in an'.seen
                 /\ \E i \in DOMAIN trail : /\ trail[i].lit = -an'.stack[k] /\ trail[i].level > 0
                                            /\ trail[i].reason # CRef_Undef
        BY <3>5, <3>6
      <4>. QED
        BY <4>1, <4>2, <4>3, <4>4 DEF RedundantGood
    <3>. QED
      BY <1>0, <1>1, <2>4, <3>6, <3>8
  <2>. QED
    BY <2>1, <2>3, <2>4
<1>. QED
  BY <1>4, <1>5

\* A literal put first.
LEMMA FirstThen ==
    ASSUME NEW S, NEW l \in S, NEW out \in Seq(S)
    PROVE  LET u == <<l>> \o out IN
           /\ u \in Seq(S) /\ DOMAIN u = 1 .. Len(out) + 1 /\ u[1] = l
           /\ \A k \in 2 .. Len(out) + 1 : u[k] = out[k - 1]
<1>. DEFINE a == <<l>>
            m == Len(a)
            N == Len(out)
            u == a \o out
<1>1. a \in Seq(S) /\ m = Len(a) /\ m = 1 /\ a[1] = l
  OBVIOUS
<1>2. out \in Seq(S) /\ N = Len(out) /\ N \in Nat
  OBVIOUS
<1>. HIDE DEF a, m, N
<1>3. /\ u \in Seq(S) /\ DOMAIN u = 1 .. m + N
      /\ \A i \in 1 .. m : u[i] = a[i]
      /\ \A i \in m + 1 .. m + N : u[i] = out[i - m]
  <2>1. a \in Seq(S) /\ out \in Seq(S) /\ m = Len(a) /\ N = Len(out)
    BY <1>1, <1>2
  <2>. QED
    BY <2>1, ConcatFacts
<1>. HIDE DEF u
<1>4. 1 \in 1 .. m /\ 1 .. m + N = 1 .. N + 1 /\ m + 1 .. m + N = 2 .. N + 1
  BY <1>1, <1>2
<1>5. u[1] = l
  BY <1>1, <1>3, <1>4
<1>6. \A k \in 2 .. N + 1 : u[k] = out[k - 1]
  BY <1>1, <1>3, <1>4
<1>7. u \in Seq(S) /\ DOMAIN u = 1 .. N + 1
  BY <1>3, <1>4
<1>. QED
  BY <1>5, <1>6, <1>7 DEF u, a, N

\* The end of conflict analysis: the literal of the unique implication point
\* first, then those below; what the formula implies.
LEMMA AnalyzeMinimises ==
    ASSUME IInv, Analyze, pc' = "minimise"
    PROVE  decisionLevel > 0 /\ OutGood(an'.out) /\ MinimiseGood(an')
<1>. DEFINE i == AnLast
            l == -trail[i].lit
            t == <<l>> \o AnOut
<1>0. /\ pc = "analyze" /\ an'.next = 2 /\ an'.seen = AnLeft /\ an'.out = t
      /\ ~ \E v \in AnLeft : SeenAt(v, Top)
  BY AnalyzeDoes
<1>1. OrderInv /\ LevelsInv /\ decisionLevel > 0
  BY <1>0 DEF IInv, AnalyzeInv
<1>2. i \in DOMAIN trail /\ trail[i].level = decisionLevel
  BY <1>0, AnalyzeLast
<1>3. l \in Lits /\ -l = trail[i].lit /\ var(l) = var(trail[i].lit)
  <2>1. trail[i].lit \in Lits
    BY <1>1, <1>2 DEF LevelsInv, NLits
  <2>. QED
    BY <2>1, LitsFacts
<1>4. /\ \A v \in AnLeft : SeenAt(v, Above0)
      /\ Implies(formula, NegOf(AnLeft) \cup {l})
  BY <1>0, AnalyzeLeft
<1>5. /\ AnOut \in Seq(Lits) /\ VarInjective(AnOut)
      /\ \A k \in DOMAIN AnOut : var(AnOut[k]) \in AnLeft /\ TrueAt(-AnOut[k], BelowTop)
      /\ \A v \in AnLeft : v \in VarsOf(AnOut)
  BY <1>0, AnalyzeOut
<1>6. var(l) \notin AnLeft
  BY <1>3 DEF AnLeft
<1>. DEFINE out == AnOut
            N == Len(out)
<1>. HIDE DEF l, i, out
<1>7. out \in Seq(Lits) /\ N \in Nat /\ DOMAIN out = 1 .. N
  BY <1>5 DEF out
<1>. DEFINE u == <<l>> \o out
<1>8. /\ DOMAIN u = 1 .. N + 1 /\ u \in Seq(Lits) /\ u[1] = l
      /\ \A k \in 2 .. N + 1 : u[k] = out[k - 1]
  <2>1. l \in Lits /\ out \in Seq(Lits)
    BY <1>3, <1>7
  <2>. HIDE DEF N
  <2>2. /\ u \in Seq(Lits) /\ DOMAIN u = 1 .. Len(out) + 1 /\ u[1] = l
        /\ \A k \in 2 .. Len(out) + 1 : u[k] = out[k - 1]
    BY <2>1, FirstThen
  <2>. QED
    BY <2>2 DEF N
<1>9. t = u
  BY DEF out
<1>. HIDE DEF t, u, N
<1>10. Len(u) = N + 1
  <2>1. Len(u) \in Nat /\ DOMAIN u = 1 .. Len(u)
    BY <1>8
  <2>. DEFINE L == Len(u)
  <2>. HIDE DEF L
  <2>2. L \in Nat /\ 1 .. L = 1 .. N + 1
    BY <1>8, <2>1 DEF L
  <2>. QED
    BY <1>7, <2>2 DEF L
<1>11. /\ \A k \in DOMAIN out : var(out[k]) \in AnLeft /\ TrueAt(-out[k], BelowTop)
       /\ \A v \in AnLeft : \E k \in DOMAIN out : v = var(out[k])
       /\ VarInjective(out)
  BY <1>5 DEF out, VarsOf
<1>12. ASSUME NEW k \in 2 .. N + 1
       PROVE  k - 1 \in DOMAIN out /\ u[k] = out[k - 1] /\ var(u[k]) \in AnLeft /\ TrueAt(-u[k], BelowTop)
  <2>1. k - 1 \in DOMAIN out
    BY <1>7
  <2>. QED
    BY <1>8, <1>11, <2>1
<1>13. VarInjective(u)
  <2>1. SUFFICES ASSUME NEW j \in DOMAIN u, NEW k \in DOMAIN u, var(u[j]) = var(u[k])  PROVE j = k
    BY DEF VarInjective
  <2>2. \A x \in DOMAIN u : x = 1 \/ x \in 2 .. N + 1
    BY <1>7, <1>8
  <2>3. CASE j = 1
    BY <1>6, <1>8, <1>12, <2>1, <2>2, <2>3
  <2>4. CASE k = 1
    BY <1>6, <1>8, <1>12, <2>1, <2>2, <2>4
  <2>5. CASE j \in 2 .. N + 1 /\ k \in 2 .. N + 1
    <3>1. j - 1 = k - 1
      BY <1>11, <1>12, <2>1, <2>5 DEF VarInjective
    <3>. QED
      BY <1>7, <2>5, <3>1
  <2>. QED
    BY <2>2, <2>3, <2>4, <2>5
<1>14. TrueAt(-u[1], Top)
  BY <1>2, <1>3, <1>8 DEF TrueAt, Top, i
<1>15. Implies(formula, ToSet(u))
  <2>1. l \in ToSet(u)
    <3>1. 1 \in DOMAIN u
      BY <1>7, <1>8
    <3>. QED
      BY <1>8, <3>1 DEF ToSet
  <2>2. NegOf(AnLeft) \subseteq ToSet(u)
    <3>1. SUFFICES ASSUME NEW j \in DOMAIN trail, var(trail[j].lit) \in AnLeft
                   PROVE  -trail[j].lit \in ToSet(u)
      BY DEF NegOf
    <3>2. PICK k \in DOMAIN out : var(trail[j].lit) = var(out[k])
      BY <1>11, <3>1
    <3>3. PICK x \in DOMAIN trail : trail[x].lit = -out[k]
      BY <1>11 DEF TrueAt
    <3>4. out[k] \in Lits /\ var(trail[x].lit) = var(out[k]) /\ -trail[x].lit = out[k]
      BY <1>7, <3>3, LitsFacts
    <3>5. x = j
      BY <1>1, <3>2, <3>4 DEF LevelsInv
    <3>6. k + 1 \in 2 .. N + 1 /\ (k + 1) - 1 = k /\ k + 1 \in DOMAIN u
      BY <1>7, <1>8
    <3>7. u[k + 1] = out[k]
      BY <1>8, <3>6
    <3>. QED
      BY <3>4, <3>5, <3>6, <3>7 DEF ToSet
  <2>3. NegOf(AnLeft) \cup {l} \subseteq ToSet(u)
    BY <2>1, <2>2
  <2>. QED
    BY <1>4, <2>3, ImpliesWeaker
<1>16. OutGood(u)
  <2>1. Len(u) >= 1 /\ \A k \in 2 .. Len(u) : TrueAt(-u[k], BelowTop)
    BY <1>7, <1>10, <1>12
  <2>. QED
    BY <1>13, <1>14, <1>15, <2>1 DEF OutGood
<1>17. Rest(u) = AnLeft
  <2>1. \A k \in 2 .. N + 1 : var(u[k]) \in AnLeft
    BY <1>12
  <2>2. ASSUME NEW v \in AnLeft  PROVE \E k \in 2 .. N + 1 : v = var(u[k])
    <3>1. PICK k \in DOMAIN out : v = var(out[k])
      BY <1>11
    <3>2. k + 1 \in 2 .. N + 1 /\ (k + 1) - 1 = k
      BY <1>7
    <3>. QED
      BY <1>8, <3>1, <3>2
  <2>3. Rest(u) = {var(u[k]) : k \in 2 .. N + 1}
    BY <1>10 DEF Rest
  <2>. QED
    BY <2>1, <2>2, <2>3
<1>18. MinimiseGood(an')
  <2>1. 2 \in 2 .. Len(u) + 1
    BY <1>7, <1>10
  <2>. QED
    BY <1>0, <1>4, <1>9, <1>17, <2>1 DEF MinimiseGood, AllClosed
<1>. QED
  BY <1>0, <1>1, <1>9, <1>16, <1>18

\* Minimise drops a literal only if its reason is covered by the others.
LEMMA MinimiseDoes ==
    ASSUME IInv, Minimise
    PROVE  /\ UNCHANGED <<trail, trail_lim, formula, nVars, conflict, model, assumptions, confl, ca>>
           /\ decisionLevel > 0 /\ OutGood(an'.out) /\ an' \in AnType
           /\ \/ pc' = "minimise" /\ MinimiseGood(an')
              \/ pc' = "redundant" /\ RedundantGood(an')
              \/ pc' = "shorten"
<1>. DEFINE out == an.out
            n == an.next
<1>0. /\ UNCHANGED <<trail, trail_lim, formula, nVars, conflict, model, assumptions, confl, ca>>
      /\ pc = "minimise"
  BY DEF Minimise, UnchangedByAnalyze, assignment, user, result
<1>1. decisionLevel > 0 /\ OutGood(out) /\ MinimiseGood(an) /\ an \in AnType
  BY <1>0, MinimiseParts DEF IInv, ValuesInv
<1>2. out \in Seq(Lits) /\ n \in Nat /\ Len(out) \in Nat /\ an.seen \subseteq Vars
  BY <1>1 DEF AnType
<1>3. /\ n \in 2 .. Len(out) + 1
      /\ \A v \in an.seen : SeenAt(v, Above0)
      /\ Rest(out) \subseteq an.seen /\ AllClosed(an.seen, Rest(out))
  BY <1>1 DEF MinimiseGood
<1>4. CASE an' = an /\ pc' = "shorten"
  BY <1>0, <1>1, <1>4
<1>5. CASE n <= Len(out) /\ an' = [an EXCEPT !.next = n + 1] /\ pc' = "minimise"
  <2>1. an'.out = out /\ an'.next = n + 1 /\ an'.seen = an.seen /\ an' \in AnType
    <3>1. n + 1 \in Nat
      BY <1>2
    <3>. QED
      BY <1>1, <1>5, <3>1 DEF AnType
  <2>2. n + 1 \in 2 .. Len(out) + 1
    BY <1>2, <1>3, <1>5
  <2>. QED
    BY <1>0, <1>1, <1>3, <1>5, <2>1, <2>2 DEF MinimiseGood
<1>6. CASE /\ n <= Len(out) /\ reason(out[n]) # CRef_Undef
           /\ an' = [an EXCEPT !.stack = <<out[n]>>, !.saved = an.seen] /\ pc' = "redundant"
  <2>. DEFINE q == out[n]
              st == <<q>>
  <2>1. n \in 2 .. Len(out) /\ n \in DOMAIN out /\ q \in Lits
    BY <1>2, <1>3, <1>6
  <2>2. st \in Seq(Lits) /\ DOMAIN st = {1} /\ st[1] = q
    BY <2>1
  <2>. HIDE DEF st, q
  <2>3. an'.out = out /\ an'.next = n /\ an'.seen = an.seen /\ an'.saved = an.seen /\ an'.stack = st /\ an' \in AnType
    BY <1>1, <1>2, <1>6, <2>2 DEF AnType, st, q
  <2>4. PICK j \in DOMAIN trail : trail[j].lit = -q /\ trail[j].level \in BelowTop
    BY <1>1, <2>1 DEF OutGood, TrueAt, q
  <2>5. reason(q) = trail[j].reason
    BY <2>1, <2>4, FalseFacts DEF IInv
  <2>6. trail[j].level > 0 /\ trail[j].reason # CRef_Undef
    BY <1>6, <2>4, <2>5, TrailFacts DEF IInv, BelowTop, q
  <2>7. var(q) \in an.seen
    BY <1>3, <2>1 DEF Rest, q
  <2>8. AllClosed(an.seen, RestBut(out, n) \cup VarsOf(st))
    <3>1. VarsOf(st) = {var(q)}
      BY <2>2 DEF VarsOf
    <3>2. Rest(out) \subseteq RestBut(out, n) \cup {var(q)}
      BY DEF Rest, RestBut, q
    <3>. QED
      BY <1>3, <3>1, <3>2 DEF AllClosed
  <2>9. \A m \in DOMAIN st :
            /\ var(st[m]) \in an.seen
            /\ \E i \in DOMAIN trail : /\ trail[i].lit = -st[m] /\ trail[i].level > 0
                                       /\ trail[i].reason # CRef_Undef
    BY <2>2, <2>4, <2>6, <2>7
  <2>10. RedundantGood(an')
    BY <1>3, <2>1, <2>3, <2>8, <2>9 DEF RedundantGood
  <2>. QED
    BY <1>0, <1>1, <1>6, <2>3, <2>10
<1>. QED
  BY <1>0, <1>4, <1>5, <1>6 DEF Minimise

\* analyzeFinal looks at literals of the trail only.
LEMMA FinalDoes ==
    ASSUME IInv, AnalyzeFinal
    PROVE  /\ UNCHANGED <<trail, trail_lim, formula, nVars, model, assumptions, confl, ca>>
           /\ pc' = pc /\ an' = [an EXCEPT !.seen = an'.seen] /\ an'.seen \subseteq Vars
           /\ \A v \in an'.seen : SeenAt(v, 0 .. decisionLevel)
           /\ conflict \subseteq conflict' /\ (conflict \subseteq Lits => conflict' \subseteq Lits)
<1>. DEFINE i == LastSeen(an.seen)
            cr == trail[i].reason
            ps == IF cr = CRef_Undef THEN <<>> ELSE lits(cr)
            new == {q \in ToSet(SubSeq(ps, FinalFrom(ps), Len(ps))) : level(q) > 0}
            sn == (an.seen \cup {var(q) : q \in new}) \ {var(trail[i].lit)}
<1>0. /\ UNCHANGED <<trail, trail_lim, formula, nVars, model, assumptions, confl, ca>>
      /\ pc = "final" /\ pc' = pc /\ SeenAbove # {}
      /\ an' = [an EXCEPT !.seen = sn]
      /\ conflict' = IF cr = CRef_Undef THEN conflict \cup {-trail[i].lit} ELSE conflict
  BY DEF AnalyzeFinal, UnchangedByDecide, user, database
<1>1. OrderInv /\ LevelsInv /\ ClausesInv /\ decisionLevel \in Nat /\ an \in AnType /\ DOMAIN trail = 1 .. Len(trail)
  BY TrailFacts DEF IInv, ValuesInv
<1>2. \A v \in an.seen : SeenAt(v, 0 .. decisionLevel)
  BY <1>0 DEF IInv, MinimiseInv
<1>3. PICK v \in an.seen : level(v) > 0
  BY <1>0 DEF SeenAbove
<1>4. i \in DOMAIN trail /\ \A j \in DOMAIN trail : var(trail[j].lit) \in an.seen => j <= i
  <2>. DEFINE S == an.seen
  <2>1. v \in S /\ \A u \in S : \E j \in DOMAIN trail : var(trail[j].lit) = u
    BY <1>2 DEF SeenAt
  <2>. HIDE DEF S
  <2>2. LastSeen(S) \in DOMAIN trail /\ \A j \in DOMAIN trail : var(trail[j].lit) \in S => j <= LastSeen(S)
    BY <1>1, <2>1, LastSeenFacts
  <2>. QED
    BY <2>2 DEF S
<1>. HIDE DEF i
<1>5. trail[i].level > 0 /\ trail[i].lit \in Lits
  <2>1. PICK j \in DOMAIN trail : var(trail[j].lit) = v
    BY <1>2 DEF SeenAt
  <2>2. v \in Vars /\ var(v) = v
    BY <1>1, <1>3, LitsFacts DEF AnType
  <2>3. level(v) = trail[j].level
    BY <1>1, <2>1, <2>2, PlaceOf
  <2>4. j <= i
    BY <1>4, <2>1
  <2>5. trail[j].level <= trail[i].level /\ trail[j].level \in 0 .. decisionLevel /\ trail[i].level \in 0 .. decisionLevel
    BY <1>1, <1>4, <2>4, LevelsOrdered DEF LevelsInv
  <2>. QED
    BY <1>1, <1>3, <1>4, <2>3, <2>5 DEF LevelsInv, NLits
<1>6. ASSUME NEW k \in DOMAIN ps
      PROVE  ps[k] \in Lits /\ SeenAt(var(ps[k]), 0 .. decisionLevel)
  <2>1. cr # CRef_Undef /\ ps = lits(cr)
    BY <1>6
  <2>2. Given(cr, i) /\ cr \in DOMAIN ca
    BY <1>4, <1>5, <2>1, ReasonFacts
  <2>3. ps[k] \in Lits
    BY <1>1, <2>1, <2>2, ClauseFacts DEF GoodClause, NLits
  <2>4. ps[k] = trail[i].lit \/ \E j \in 1 .. i - 1 : trail[j].lit = -ps[k]
    BY <2>1, <2>2 DEF Given
  <2>5. \A j \in 1 .. i - 1 : j \in DOMAIN trail
    BY <1>1, <1>4
  <2>6. \E j \in DOMAIN trail : var(trail[j].lit) = var(ps[k])
    BY <1>4, <2>3, <2>4, <2>5, LitsFacts
  <2>. QED
    BY <1>1, <2>3, <2>6 DEF SeenAt, LevelsInv
<1>7. \A q \in new : \E k \in DOMAIN ps : q = ps[k]
  <2>1. ps \in Seq(Lits)
    <3>1. CASE cr = CRef_Undef
      BY <3>1
    <3>2. CASE cr # CRef_Undef
      <4>1. cr \in DOMAIN ca
        BY <1>4, <1>5, <3>2, ReasonFacts
      <4>. QED
        BY <1>1, <3>2, <4>1, ClauseFacts
    <3>. QED
      BY <3>1, <3>2
  <2>. HIDE DEF ps
  <2>2. FinalFrom(ps) \in {1, 2}
    BY DEF FinalFrom
  <2>. DEFINE a == FinalFrom(ps)
              N == Len(ps)
              t == SubSeq(ps, a, N)
  <2>3. N \in Nat /\ DOMAIN ps = 1 .. N
    BY <2>1
  <2>4. \A k \in DOMAIN t : k + a - 1 \in 1 .. N /\ t[k] = ps[k + a - 1]
    <3>1. CASE a = 1
      <4>1. t = SubSeq(ps, 1, N)
        BY <3>1
      <4>. QED
        BY <2>1, <2>3, <3>1, <4>1
    <3>2. CASE a = 2
      <4>1. t = SubSeq(ps, 2, N)
        BY <3>2
      <4>. QED
        BY <2>1, <2>3, <3>2, <4>1
    <3>. QED
      BY <2>2, <3>1, <3>2
  <2>5. \A q \in ToSet(t) : \E k \in DOMAIN ps : q = ps[k]
    BY <2>3, <2>4 DEF ToSet
  <2>. QED
    BY <2>5
<1>8. sn \subseteq Vars /\ \A u \in sn : SeenAt(u, 0 .. decisionLevel)
  <2>1. \A q \in new : var(q) \in Vars /\ SeenAt(var(q), 0 .. decisionLevel)
    <3>. HIDE DEF new, ps
    <3>. QED
      BY <1>6, <1>7, LitsFacts
  <2>2. an.seen \subseteq Vars
    BY <1>1 DEF AnType
  <2>. HIDE DEF new
  <2>. QED
    BY <1>2, <2>1, <2>2
<1>. HIDE DEF sn
<1>9. an'.seen = sn
  BY <1>0, <1>1 DEF AnType
<1>10. conflict \subseteq conflict' /\ (conflict \subseteq Lits => conflict' \subseteq Lits)
  BY <1>0, <1>5, LitsFacts
<1>. QED
  BY <1>0, <1>8, <1>9, <1>10

\* analyzeFinal starts from a failed assumption.
LEMMA FailsDoes ==
    ASSUME IInv, AssumptionFails
    PROVE  /\ UNCHANGED <<trail, trail_lim, formula, nVars, model, assumptions, confl, ca>>
           /\ pc' = "final" /\ an' = [NoAnalysis EXCEPT !.seen = an'.seen] /\ an'.seen \subseteq Vars
           /\ \A v \in an'.seen : SeenAt(v, 0 .. decisionLevel)
           /\ conflict' # {} /\ conflict' \subseteq Lits
<1>1. /\ UNCHANGED <<trail, trail_lim, formula, nVars, model, assumptions, confl, ca>>
      /\ pc' = "final" /\ isFalse(Assumed) /\ conflict' = {-Assumed} /\ decisionLevel < Len(assumptions)
      /\ an' = [NoAnalysis EXCEPT !.seen = IF decisionLevel = 0 THEN {} ELSE {var(Assumed)}]
  BY DEF AssumptionFails, UnchangedByDecide, user, database
<1>2. OrderInv /\ LevelsInv /\ decisionLevel \in Nat /\ assumptions \in Seq(Lits)
  BY TrailFacts DEF IInv, ValuesInv
<1>3. Assumed \in Lits
  <2>1. decisionLevel + 1 \in DOMAIN assumptions
    BY <1>1, <1>2
  <2>. QED
    BY <1>2, <2>1 DEF Assumed
<1>4. PICK j \in DOMAIN trail : trail[j].lit = -Assumed
  BY <1>1 DEF isFalse, isTrue
<1>5. SeenAt(var(Assumed), 0 .. decisionLevel)
  BY <1>2, <1>3, <1>4, LitsFacts DEF SeenAt, LevelsInv
<1>6. an'.seen = IF decisionLevel = 0 THEN {} ELSE {var(Assumed)}
  BY <1>1 DEF NoAnalysis
<1>. QED
  BY <1>1, <1>3, <1>5, <1>6, LitsFacts

\* Every step keeps the invariant of minimisation.
LEMMA MinimiseStep ==
    ASSUME IInv, [Next]_svars
    PROVE  MinimiseInv'
<1>1. SUFFICES ASSUME pc' \in {"minimise", "redundant", "shorten", "learn", "final"}  PROVE MinimiseInv'
  BY NextMinimiseParts
<1>2. CASE Analyze
  <2>1. pc' = "minimise" /\ UNCHANGED <<trail, trail_lim, formula>>
    BY <1>1, <1>2, AnalyzeDoes
  <2>2. decisionLevel > 0 /\ OutGood(an'.out) /\ MinimiseGood(an')
    BY <1>2, <2>1, AnalyzeMinimises
  <2>. QED
    BY <2>1, <2>2, GoodStays, NextMinimiseParts
<1>3. CASE Minimise
  BY <1>3, MinimiseDoes, GoodStays, NextMinimiseParts
<1>4. CASE litRedundant
  BY <1>4, RedundantDoes, GoodStays, NextMinimiseParts
<1>5. CASE Shorten
  <2>1. decisionLevel > 0
    BY <1>5 DEF Shorten, IInv, MinimiseInv
  <2>. QED
    BY <1>5, <2>1, ShortenDoes, GoodStays, NextMinimiseParts
<1>6. CASE AssumptionFails
  BY <1>6, FailsDoes, GoodStays, NextMinimiseParts
<1>7. CASE AnalyzeFinal
  <2>1. pc' = "final"
    BY <1>7, FinalDoes DEF AnalyzeFinal
  <2>. QED
    BY <1>7, <2>1, FinalDoes, GoodStays, NextMinimiseParts
<1>8. CASE pc' = pc /\ UNCHANGED <<trail, trail_lim, formula, an>>
  <2>1. MinimiseInv
    BY DEF IInv
  <2>. QED
    BY <1>8, <2>1, MinimiseParts, GoodStays, NextMinimiseParts
<1>. QED
  BY <1>1, <1>2, <1>3, <1>4, <1>5, <1>6, <1>7, <1>8, MinimisePlacesOf

-----------------------------------------------------------------------------
(***************************************************************************)
(* Conflicts.                                                              *)
(***************************************************************************)

\* Conflicting, in terms of the clauses and the trail.
ConflictingIn(mem, tr, L, cr) ==
    /\ cr \in DOMAIN mem
    /\ \A k \in DOMAIN mem[cr].lits : \E i \in DOMAIN tr : tr[i].lit = -mem[cr].lits[k]
    /\ \E k \in DOMAIN mem[cr].lits : \E i \in DOMAIN tr : tr[i].lit = -mem[cr].lits[k] /\ tr[i].level = L
\* A conflicting clause in terms of memory, trail and level,
LEMMA ConflictingNow ==
    ASSUME NEW cr
    PROVE  Conflicting(cr) <=> ConflictingIn(ca, trail, Len(trail_lim), cr)
  BY DEF Conflicting, ConflictingIn, isTrue, TrueAt, Top, lits, decisionLevel
\* and the same after a step.
LEMMA ConflictingNext ==
    (ConflictingIn(ca, trail, Len(trail_lim), confl))' => Conflicting(confl)'
  BY DEF Conflicting, ConflictingIn, isTrue, TrueAt, Top, lits, decisionLevel

\* How a call of propagate comes to an end.
LEMMA PropagateReturns ==
    ASSUME IInv, [Next]_svars, pc' \in {"added", "search", "simplify"}
    PROVE  \/ Propagated
           \/ VisitBinary /\ pc' = caller
           \/ KeepWatch /\ pc' = caller
           \/ pc = pc' /\ UNCHANGED <<trail, trail_lim, confl, ca>>
<1>1. CASE interrupt \/ UNCHANGED svars
  BY <1>1 DEF interrupt, svars, database, assignment, user
<1>2. /\ pc \in Places /\ caller \in {"added", "search", "simplify"} /\ after \in {"idle", "reduce", "decide"}
  BY DEF IInv, ControlInv
<1>3. CASE newVar \/ callSimplify \/ solve \/ Added
  BY <1>2, <1>3 DEF newVar, callSimplify, solve, solve_, Added
<1>4. CASE addClause
  <2>1. pc = "idle" /\ pc' \in {"idle", "propagate"}
    BY <1>4 DEF addClause, addClauseThen, addClause_
  <2>. QED
    BY <2>1
<1>5. CASE Dequeue \/ StartLong \/ SkipClause \/ MoveWatch \/ EndLong
  BY <1>2, <1>5 DEF Dequeue, StartLong, SkipClause, MoveWatch, EndLong
<1>6. CASE VisitBinary
  BY <1>2, <1>6 DEF VisitBinary
<1>7. CASE KeepWatch
  BY <1>2, <1>7 DEF KeepWatch
<1>8. CASE Restart \/ NoConflict \/ SimplifyReturns \/ Simplify \/ KeepLearnts \/ NothingToReduce \/ reduceDB
           \/ CheckGarbage \/ Return
  BY <1>2, <1>8 DEF Restart, NoConflict, SimplifyReturns, Simplify, KeepLearnts, NothingToReduce, reduceDB,
     CheckGarbage, Return, Returned, Leave
<1>9. CASE DummyLevel \/ Assume \/ AssumptionFails \/ AnalyzeFinal \/ FinalAnalyzed \/ PickBranchLit \/ ModelFound
  BY <1>2, <1>9 DEF DummyLevel, Assume, AssumptionFails, AnalyzeFinal, FinalAnalyzed, PickBranchLit, ModelFound,
     Decided, Leave
<1>10. CASE SearchConflict \/ Analyze \/ Minimise \/ litRedundant \/ Shorten \/ Learn
  BY <1>10 DEF SearchConflict, Analyze, Minimise, litRedundant, Shorten, Learn, Leave
<1>. QED
  BY <1>1, <1>3, <1>4, <1>5, <1>6, <1>7, <1>8, <1>9, <1>10 DEF Next, Step, User, Search, Propagate

\* The conflict a clause of two reports is one: all its literals are false, one
\* at the current level.
LEMMA BinaryConflict ==
    ASSUME IInv, VisitBinary, pc' = caller
    PROVE  confl' \in CRefs /\ ConflictingIn(ca', trail', Len(trail_lim'), confl')
<1>. DEFINE w == Head(visiting.todo)
            p == visiting.p
<1>1. /\ pc = "binary" /\ visiting.todo # <<>> /\ UNCHANGED <<trail_lim, ca>>
      /\ isFalse(w.blocker) /\ confl' = w.cref /\ UNCHANGED trail
  <2>1. caller # "binary"
    BY DEF IInv, ControlInv
  <2>. QED
    BY <2>1 DEF VisitBinary, UnchangedByPropagate
<1>2. /\ w.cref \in CRefs /\ w.blocker \in NLits
      /\ w.cref \in DOMAIN ca
      /\ lits(w.cref) = <<-p, w.blocker>> \/ lits(w.cref) = <<w.blocker, -p>>
  BY <1>1, VisitedBinary
<1>3. TrueAt(p, Top) /\ p \in Lits
  BY <1>1, VisitedTrue
<1>. HIDE DEF w, p
<1>. DEFINE ls == lits(w.cref)
<1>4. /\ \A k \in DOMAIN ls : ls[k] = w.blocker \/ ls[k] = -p
      /\ \E k \in DOMAIN ls : ls[k] = -p
  BY <1>2
<1>. HIDE DEF ls
<1>5. -(-p) = p
  BY <1>3, LitsFacts
<1>6. isTrue(p)
  BY <1>3 DEF TrueAt, isTrue
<1>7. \A k \in DOMAIN ls : isTrue(-ls[k])
  BY <1>1, <1>4, <1>5, <1>6 DEF isFalse
<1>8. \E k \in DOMAIN ls : TrueAt(-ls[k], Top)
  BY <1>3, <1>4, <1>5
<1>9. Conflicting(w.cref)
  BY <1>2, <1>7, <1>8 DEF Conflicting, ls
<1>. QED
  BY <1>1, <1>2, <1>9, ConflictingNow

\* So is the conflict a longer clause reports.
LEMMA LongConflict ==
    ASSUME IInv, KeepWatch, pc' = caller
    PROVE  confl' \in CRefs /\ ConflictingIn(ca', trail', Len(trail_lim'), confl')
<1>. DEFINE w == Head(visiting.todo)
            p == visiting.p
            ps == Turned(w.cref)
<1>1. /\ pc = "long" /\ visiting.todo # <<>> /\ UNCHANGED trail_lim
      /\ isTrue(ps[1]) \/ Replacements(ps) = {}
      /\ ca' = [ca EXCEPT ![w.cref].lits = ps]
      /\ isFalse(ps[1]) /\ confl' = w.cref /\ UNCHANGED trail
  <2>1. caller # "long"
    BY DEF IInv, ControlInv
  <2>. QED
    BY <2>1 DEF KeepWatch, UnchangedByPropagate
<1>2. /\ w \in [cref : CRefs, blocker : Lits]
      /\ w.cref \in DOMAIN ca /\ ca[w.cref].mark = 0
      /\ ps \in Seq(Lits) /\ DOMAIN ps = 1 .. Len(ps) /\ Len(ps) > 2
      /\ ps[1] \in NLits /\ ps[2] = -p
  BY <1>1, VisitedLong
<1>3. TrueAt(p, Top) /\ p \in Lits
  BY <1>1, VisitedTrue
<1>. HIDE DEF w, p, ps
<1>4. ~ isTrue(ps[1])
  BY <1>1, OneSign DEF isFalse, isTrue, IInv
<1>5. -(-p) = p /\ isTrue(p)
  BY <1>3, LitsFacts DEF TrueAt, isTrue
<1>6. \A k \in DOMAIN ps : isTrue(-ps[k])
  <2>1. TAKE k \in DOMAIN ps
  <2>2. CASE k = 1
    BY <1>1, <2>2 DEF isFalse
  <2>3. CASE k = 2
    BY <1>2, <1>5, <2>3
  <2>4. CASE k # 1 /\ k # 2
    <3>1. k \in 3 .. Len(ps)
      BY <1>2, <2>4
    <3>. QED
      BY <1>1, <1>4, <3>1 DEF Replacements, isFalse
  <2>. QED
    BY <2>2, <2>3, <2>4
<1>7. 2 \in DOMAIN ps /\ TrueAt(-ps[2], Top)
  BY <1>2, <1>3, <1>5
<1>8. w.cref \in DOMAIN ca' /\ ca'[w.cref].lits = ps
  <2>1. ca[w.cref] \in ClauseRecords
    BY <1>2 DEF IInv, ClausesInv
  <2>. QED
    BY <1>1, <1>2, <2>1 DEF ClauseRecords
<1>9. ConflictingIn(ca', trail, Len(trail_lim), w.cref)
  BY <1>6, <1>7, <1>8 DEF ConflictingIn, isTrue, TrueAt, Top, decisionLevel
<1>10. w.cref \in CRefs
  BY <1>2
<1>. QED
  BY <1>1, <1>9, <1>10

\* Every step keeps the conflicting clause conflicting until it is analysed.
LEMMA ConflictStep ==
    ASSUME IInv, [Next]_svars
    PROVE  ConflictInv'
<1>. DEFINE Good == ConflictingIn(ca', trail', Len(trail_lim'), confl')
<1>1. ConflictInv
  BY DEF IInv
<1>2. SUFFICES /\ confl' \in CRefs \cup {CRef_Undef}
               /\ pc' \in {"added", "search", "simplify"} /\ confl' # CRef_Undef => Good
               /\ pc' = "analyze" /\ an'.p = Undef => Good
  BY ConflictingNext DEF ConflictInv
<1>3. confl' \in CRefs \cup {CRef_Undef}
  <2>1. CASE UNCHANGED confl
    BY <1>1, <2>1 DEF ConflictInv
  <2>2. CASE Propagated
    BY <2>2 DEF Propagated
  <2>3. CASE VisitBinary \/ KeepWatch
    <3>1. CASE pc' = caller
      BY <2>3, <3>1, BinaryConflict, LongConflict
    <3>2. CASE pc' # caller
      <4>1. UNCHANGED confl
        BY <2>3, <3>2 DEF VisitBinary, KeepWatch
      <4>. QED
        BY <2>1, <4>1
    <3>. QED
      BY <3>1, <3>2
  <2>4. CASE Analyze
    <3>1. AnLast \in DOMAIN trail
      BY <2>4, AnalyzeLast DEF Analyze
    <3>2. confl' = trail[AnLast].reason
      BY <2>4, AnalyzeDoes
    <3>. QED
      BY <3>1, <3>2 DEF IInv, LevelsInv
  <2>5. Propagated \/ VisitBinary \/ KeepWatch \/ Analyze \/ UNCHANGED confl
    <3>1. CASE newVar \/ callSimplify \/ solve \/ interrupt \/ Added \/ UNCHANGED svars
      BY <3>1 DEF newVar, callSimplify, solve, interrupt, Added, svars
    <3>2. CASE addClause
      BY <3>2 DEF addClause, addClauseThen, UnchangedByAdd
    <3>3. CASE Dequeue \/ StartLong \/ SkipClause \/ MoveWatch \/ EndLong
      BY <3>3 DEF Dequeue, StartLong, SkipClause, MoveWatch, EndLong
    <3>4. CASE Restart \/ NoConflict \/ SimplifyReturns \/ Simplify \/ KeepLearnts \/ NothingToReduce \/ reduceDB
               \/ CheckGarbage \/ Return
      BY <3>4 DEF Restart, NoConflict, SimplifyReturns, Simplify, KeepLearnts, NothingToReduce, reduceDB,
         CheckGarbage, Return, Returned
    <3>5. CASE DummyLevel \/ Assume \/ AssumptionFails \/ AnalyzeFinal \/ FinalAnalyzed \/ PickBranchLit \/ ModelFound
      BY <3>5 DEF DummyLevel, Assume, AssumptionFails, AnalyzeFinal, FinalAnalyzed, PickBranchLit, ModelFound,
         UnchangedByDecide
    <3>6. CASE SearchConflict \/ Minimise \/ litRedundant \/ Shorten \/ Learn
      BY <3>6 DEF SearchConflict, Minimise, litRedundant, Shorten, Learn
    <3>. QED
      BY <3>1, <3>2, <3>3, <3>4, <3>5, <3>6 DEF Next, Step, User, Search, Propagate
  <2>. QED
    BY <2>1, <2>2, <2>3, <2>4, <2>5
<1>4. ASSUME pc' \in {"added", "search", "simplify"}, confl' # CRef_Undef  PROVE Good
  <2>1. CASE Propagated
    BY <1>4, <2>1 DEF Propagated
  <2>2. CASE VisitBinary /\ pc' = caller
    BY <2>2, BinaryConflict
  <2>3. CASE KeepWatch /\ pc' = caller
    BY <2>3, LongConflict
  <2>4. CASE pc = pc' /\ UNCHANGED <<trail, trail_lim, confl, ca>>
    <3>1. Conflicting(confl)
      BY <1>1, <1>4, <2>4 DEF ConflictInv
    <3>2. ConflictingIn(ca, trail, Len(trail_lim), confl)
      BY <3>1, ConflictingNow
    <3>. QED
      BY <2>4, <3>2
  <2>. QED
    BY <1>4, <2>1, <2>2, <2>3, <2>4, PropagateReturns
<1>5. ASSUME pc' = "analyze", an'.p = Undef  PROVE Good
  <2>1. CASE Analyze
    <3>1. AnLast \in DOMAIN trail /\ an'.p = trail[AnLast].lit
      BY <2>1, AnalyzeLast, AnalyzeDoes DEF Analyze
    <3>2. trail[AnLast].lit \in Lits
      BY <3>1 DEF IInv, LevelsInv, NLits
    <3>. QED
      BY <1>5, <3>1, <3>2, LitsFacts DEF Undef
  <2>2. CASE SearchConflict
    <3>1. pc = "search" /\ confl # CRef_Undef /\ UNCHANGED <<trail, trail_lim, confl, ca>>
      BY <2>2 DEF SearchConflict, assignment, database
    <3>2. Conflicting(confl)
      BY <1>1, <3>1 DEF ConflictInv
    <3>3. ConflictingIn(ca, trail, Len(trail_lim), confl)
      BY <3>2, ConflictingNow
    <3>. QED
      BY <3>1, <3>3
  <2>3. CASE pc = "analyze" /\ UNCHANGED <<trail, trail_lim, formula, an, confl, ca>>
    <3>1. Conflicting(confl)
      BY <1>1, <1>5, <2>3 DEF ConflictInv
    <3>2. ConflictingIn(ca, trail, Len(trail_lim), confl)
      BY <3>1, ConflictingNow
    <3>. QED
      BY <2>3, <3>2
  <2>. QED
    BY <1>5, <2>1, <2>2, <2>3, AnalyzePlacesOf
<1>. QED
  BY <1>3, <1>4, <1>5

-----------------------------------------------------------------------------
(***************************************************************************)
(* Level 0, and what the formula implies.                                  *)
(***************************************************************************)

\* A conflict at level 0 contradicts the clauses of the user.
LEMMA ConflictAtZero ==
    ASSUME IInv, NEW cr, Conflicting(cr), decisionLevel = 0
    PROVE  Models(formula) = {}
<1>1. SUFFICES ASSUME NEW m \in Models(formula)  PROVE FALSE
  OBVIOUS
<1>2. MeaningInv /\ LevelsInv /\ m \in Assignments
  BY DEF IInv, Models
<1>3. cr \in DOMAIN ca /\ Implies(formula, ToSet(lits(cr)))
  BY <1>2 DEF Conflicting, MeaningInv
<1>4. PICK l \in ToSet(lits(cr)) : Holds(m, l)
  BY <1>3 DEF Implies, Satisfies
<1>5. PICK k \in DOMAIN lits(cr) : l = lits(cr)[k]
  BY DEF ToSet
<1>6. l \in Lits
  BY <1>3, <1>5 DEF IInv, ClausesInv, NLits
<1>7. PICK i \in DOMAIN trail : trail[i].lit = -l
  BY <1>5 DEF Conflicting, isTrue
<1>8. trail[i].level = 0
  BY <1>2 DEF LevelsInv
<1>9. Holds(m, -l)
  BY <1>2, <1>7, <1>8, LevelZero
<1>. QED
  BY <1>2, <1>4, <1>6, <1>9, HoldsNot

\* After a step the clauses in memory follow from the formula, and what followed
\* still does.
LEMMA NextImplied ==
    ASSUME IInv, [Next]_svars
    PROVE  /\ \A cr \in DOMAIN ca' : Implies(formula', ToSet(ca'[cr].lits))
           /\ \A c : Implies(formula, c) => Implies(formula', c)
           /\ Models(formula') \subseteq Models(formula)
<1>1. /\ \A c : Implies(formula, c) => Implies(formula', c)
      /\ Models(formula') \subseteq Models(formula)
  BY FormulaGrows, ImpliesMore
<1>2. ASSUME NEW cr \in DOMAIN ca'  PROVE Implies(formula', ToSet(ca'[cr].lits))
  <2>1. CASE cr \in DOMAIN ca /\ Rearranged(ca'[cr].lits, lits(cr))
    <3>1. ToSet(ca'[cr].lits) = ToSet(lits(cr))
      BY <2>1, RearrangedFacts
    <3>2. Implies(formula, ToSet(lits(cr)))
      BY <2>1 DEF IInv, MeaningInv
    <3>. QED
      BY <1>1, <3>1, <3>2
  <2>. QED
    BY <2>1, ClauseSteps
<1>. QED
  BY <1>1, <1>2

\* A literal that is forced at level 0.
LEMMA ForcedAtZero ==
    ASSUME IInv, [Next]_svars, NEW cr, NEW l, Forces(cr, l), decisionLevel = 0
    PROVE  Implies(formula', {l})
<1>1. SUFFICES ASSUME NEW m \in Models(formula')  PROVE Holds(m, l)
  BY DEF Implies, Satisfies
<1>. DEFINE ls == ca'[cr].lits
<1>2. /\ cr \in DOMAIN ca'
      /\ \A k \in DOMAIN ls : ls[k] = l \/ isTrue(-ls[k])
  BY DEF Forces
<1>3. Satisfies(m, ToSet(ls)) /\ m \in Models(formula) /\ m \in Assignments
  BY <1>2, NextImplied DEF Implies, Models
<1>4. PICK q \in ToSet(ls) : Holds(m, q)
  BY <1>3 DEF Satisfies
<1>5. PICK k \in DOMAIN ls : q = ls[k]
  BY DEF ToSet
<1>6. q \in Lits
  <2>1. ca'[cr] \in ClauseRecords
    BY <1>2, ClauseSteps
  <2>2. ls \in Seq(Lits)
    BY <2>1 DEF ClauseRecords
  <2>. HIDE DEF ls
  <2>. QED
    BY <1>5, <2>2
<1>7. SUFFICES ASSUME isTrue(-q)  PROVE FALSE
  BY <1>2, <1>4, <1>5
<1>8. PICK i \in DOMAIN trail : trail[i].lit = -q
  BY <1>7 DEF isTrue
<1>9. MeaningInv /\ LevelsInv /\ trail[i].level = 0
  BY DEF IInv, LevelsInv
<1>10. Holds(m, -q)
  BY <1>3, <1>8, <1>9, LevelZero
<1>. QED
  BY <1>3, <1>4, <1>6, <1>10, HoldsNot

\* What is learnt at level 0.
LEMMA LearntAtZero ==
    ASSUME IInv, LearnStep, NEW i \in DOMAIN trail', trail'[i].level = 0
    PROVE  \/ \E j \in DOMAIN trail : trail'[i] = trail[j]
           \/ Implies(formula, {trail'[i].lit})
<1>0. OrderInv /\ LevelsInv
  BY DEF IInv
<1>1. PICK lev \in Nat, from \in CRefs \cup {CRef_Undef} :
         /\ pc = "learn" /\ lev < decisionLevel /\ Learns(lev, an.out[1], from) /\ UNCHANGED nVars
         /\ \/ from = CRef_Undef /\ Len(an.out) = 1 /\ lev = 0
            \/ /\ from # CRef_Undef /\ Fresh(from) /\ ca' = alloc(from, an.out, TRUE, an.lbd)
               /\ Len(an.out) > 1 /\ lev = level(an.out[2])
  BY DEF LearnStep
<1>2. an.out \in Seq(Lits) /\ OutGood(an.out)
  BY <1>1 DEF IInv, ValuesInv, AnType, MinimiseInv
<1>3. /\ LimitOf(lev) \in 0 .. Len(trail)
      /\ DOMAIN trail' = 1 .. LimitOf(lev) + 1
      /\ \A k \in 1 .. LimitOf(lev) : k \in DOMAIN trail /\ trail'[k] = trail[k]
      /\ trail'[LimitOf(lev) + 1].lit = an.out[1]
      /\ trail'[LimitOf(lev) + 1].level = lev
  BY <1>0, <1>1, LearnsFacts
<1>. DEFINE x == LimitOf(lev)
<1>4. x \in Nat
  BY <1>0, <1>3, TrailFacts
<1>. HIDE DEF x
<1>5. CASE i = x + 1
  <2>1. lev = 0 /\ trail'[i].lit = an.out[1]
    BY <1>3, <1>5 DEF x
  <2>2. Len(an.out) = 1
    <3>1. SUFFICES ASSUME Len(an.out) > 1, lev = level(an.out[2])  PROVE FALSE
      BY <1>1
    <3>2. 2 \in 2 .. Len(an.out) /\ 2 \in DOMAIN an.out /\ an.out[2] \in Lits
      BY <1>2, <3>1
    <3>3. TrueAt(-an.out[2], BelowTop)
      BY <1>2, <3>2 DEF OutGood
    <3>4. PICK j \in DOMAIN trail : trail[j].lit = -an.out[2] /\ trail[j].level \in BelowTop
      BY <3>3 DEF TrueAt
    <3>5. level(an.out[2]) = trail[j].level
      BY <1>0, <3>2, <3>4, FalseFacts
    <3>. QED
      BY <2>1, <3>1, <3>4, <3>5 DEF BelowTop
  <2>3. ToSet(an.out) = {an.out[1]}
    BY <1>2, <2>2 DEF ToSet
  <2>. QED
    BY <1>2, <2>1, <2>3 DEF OutGood
<1>6. CASE i # x + 1
  <2>1. i \in 1 .. x
    BY <1>3, <1>4, <1>6 DEF x
  <2>. QED
    BY <1>3, <2>1 DEF x
<1>. QED
  BY <1>5, <1>6

\* After a step what is true at level 0 follows from the formula.
LEMMA ZeroStep ==
    ASSUME IInv, [Next]_svars, NEW i \in DOMAIN trail', trail'[i].level = 0
    PROVE  Implies(formula', {trail'[i].lit})
<1>0. OrderInv /\ LevelsInv /\ MeaningInv /\ Len(trail) \in Nat /\ DOMAIN trail = 1 .. Len(trail)
      /\ decisionLevel \in Nat
  BY TrailFacts DEF IInv
<1>1. ASSUME NEW j \in DOMAIN trail, trail'[i].lit = trail[j].lit, trail'[i].level = trail[j].level
      PROVE  Implies(formula', {trail'[i].lit})
  BY <1>0, <1>1, NextImplied DEF MeaningInv
<1>2. CASE Quiet \/ DummyStep
  BY <1>1, <1>2 DEF Quiet, DummyStep
<1>3. CASE EnqueueStep
  <2>1. PICK l \in NLits, from \in CRefs \cup {CRef_Undef} :
          /\ isUndef(l) /\ Enqueues(l, from) /\ UNCHANGED nVars
          /\ \/ /\ from = CRef_Undef /\ trail_lim' = trail_lim /\ trail_lim = <<>> /\ pc = "idle"
                /\ Sorted(Unassigned(call.lits)) = <<l>> /\ script # <<>> /\ call.op = "clause"
                /\ ~ Superfluous(call.lits) /\ formula' = formula \cup {ToSet(call.lits)}
             \/ from = CRef_Undef /\ trail_lim' = Append(trail_lim, Len(trail)) /\ pc = "decide"
             \/ /\ from # CRef_Undef /\ trail_lim' = trail_lim /\ pc \in {"binary", "long"}
                /\ Forces(from, l)
    BY <1>3 DEF EnqueueStep
  <2>2. /\ DOMAIN trail' = 1 .. Len(trail) + 1
        /\ \A j \in DOMAIN trail : trail'[j] = trail[j]
        /\ trail'[Len(trail) + 1].lit = l
        /\ trail'[Len(trail) + 1].level = decisionLevel'
    BY <1>0, <2>1, EnqueueFacts
  <2>. DEFINE N == Len(trail)
  <2>. HIDE DEF N
  <2>3. CASE i # N + 1
    <3>1. i \in DOMAIN trail
      BY <1>0, <2>2, <2>3 DEF N
    <3>. QED
      BY <1>1, <2>2, <3>1
  <2>4. CASE i = N + 1
    <3>0. trail'[i].lit = l /\ decisionLevel' = 0
      BY <2>2, <2>4 DEF N
    <3>1. CASE /\ from = CRef_Undef /\ trail_lim' = trail_lim /\ trail_lim = <<>> /\ pc = "idle"
               /\ Sorted(Unassigned(call.lits)) = <<l>> /\ script # <<>> /\ call.op = "clause"
               /\ ~ Superfluous(call.lits) /\ formula' = formula \cup {ToSet(call.lits)}
      <4>1. Implies(formula', ToSet(<<l>>))
        BY <3>1, AddedFollows
      <4>2. ToSet(<<l>>) = {l}
        BY DEF ToSet
      <4>. QED
        BY <3>0, <4>1, <4>2
    <3>2. CASE from = CRef_Undef /\ trail_lim' = Append(trail_lim, Len(trail)) /\ pc = "decide"
      <4>1. trail_lim \in Seq(Nat) /\ N \in Nat
        BY <1>0, TrailFacts DEF N
      <4>2. Append(trail_lim, N) # <<>>
        BY <4>1
      <4>3. trail_lim' \in Seq(Nat) /\ trail_lim' # <<>>
        BY <3>2, <4>1, <4>2 DEF N
      <4>. QED
        BY <3>0, <4>3 DEF decisionLevel
    <3>3. CASE /\ from # CRef_Undef /\ trail_lim' = trail_lim /\ pc \in {"binary", "long"}
               /\ Forces(from, l)
      <4>1. decisionLevel = 0
        BY <3>0, <3>3 DEF decisionLevel
      <4>. QED
        BY <3>0, <3>3, <4>1, ForcedAtZero
    <3>. QED
      BY <2>1, <3>1, <3>2, <3>3
  <2>. QED
    BY <2>3, <2>4
<1>4. CASE LearnStep
  BY <1>1, <1>4, LearntAtZero, NextImplied
<1>5. CASE TakeOffStep
  <2>1. i \in DOMAIN trail /\ trail'[i] = trail[i]
    BY <1>0, <1>5, TakesOffFacts DEF TakeOffStep
  <2>. QED
    BY <1>1, <2>1
<1>6. CASE UnreasonStep
  <2>1. i \in DOMAIN trail /\ trail'[i].lit = trail[i].lit /\ trail'[i].level = trail[i].level
    BY <1>0, <1>6, UnreasonedFacts DEF UnreasonStep
  <2>. QED
    BY <1>1, <2>1
<1>. QED
  BY <1>2, <1>3, <1>4, <1>5, <1>6, TrailSteps

\* When the clauses of the user contradict each other.
LEMMA NotOkStep ==
    ASSUME IInv, [Next]_svars, ~ ok'
    PROVE  Models(formula') = {}
<1>1. MeaningInv /\ ConflictInv /\ ControlInv
  BY DEF IInv
<1>2. SUFFICES ASSUME ok  PROVE Models(formula') = {}
  <2>1. Models(formula') \subseteq Models(formula)
    BY NextImplied
  <2>. QED
    BY <1>1, <2>1 DEF MeaningInv
<1>a. ASSUME pc \in {"added", "simplify"}, confl # CRef_Undef, UNCHANGED formula  PROVE Models(formula') = {}
  <2>1. Conflicting(confl)
    BY <1>1, <1>a DEF ConflictInv
  <2>2. decisionLevel = 0
    BY <1>1, <1>a DEF ControlInv, decisionLevel
  <2>. QED
    BY <1>a, <2>1, <2>2, ConflictAtZero
<1>3. CASE Added
  BY <1>a, <1>3 DEF Added
<1>4. CASE SimplifyReturns
  BY <1>a, <1>4 DEF SimplifyReturns
<1>5. CASE Return
  <2>1. pc = "return" /\ status = "false" /\ conflict = {} /\ UNCHANGED formula
    BY <1>2, <1>5 DEF Return, Returned
  <2>. QED
    BY <1>1, <2>1 DEF MeaningInv
<1>6. CASE addClause
  <2>. DEFINE qs == Sorted(Unassigned(call.lits))
  <2>1. /\ pc = "idle" /\ script # <<>> /\ call.op = "clause"
        /\ formula' = formula \cup {ToSet(call.lits)}
        /\ ~ Superfluous(call.lits) /\ Len(qs) = 0
    BY <1>2, <1>6 DEF addClause, addClauseThen, addClause_, Called, call
  <2>2. Implies(formula', ToSet(qs))
    BY <2>1, AddedFollows
  <2>3. qs \in Seq(Lits)
    BY <2>1, AddedLits
  <2>4. ToSet(qs) = {}
    <3>. HIDE DEF qs
    <3>. QED
      BY <2>1, <2>3 DEF ToSet
  <2>. QED
    BY <2>2, <2>4 DEF Implies, Satisfies
<1>7. \/ Added \/ SimplifyReturns \/ Return \/ addClause \/ UNCHANGED ok
  <2>. USE DEF user
  <2>1. CASE newVar \/ callSimplify \/ solve \/ interrupt \/ UNCHANGED svars
    BY <2>1 DEF newVar, callSimplify, solve, interrupt, svars
  <2>2. CASE Propagate
    BY <2>2 DEF Propagate, Dequeue, Propagated, VisitBinary, StartLong, SkipClause, MoveWatch, KeepWatch,
                EndLong, UnchangedByPropagate
  <2>3. CASE \/ SearchConflict \/ Restart \/ NoConflict \/ Simplify
             \/ KeepLearnts \/ NothingToReduce \/ reduceDB \/ Learn \/ CheckGarbage
    BY <2>3 DEF SearchConflict, Restart, NoConflict, Simplify,
                      KeepLearnts, NothingToReduce, reduceDB, Learn, CheckGarbage
  <2>4. CASE Analyze \/ Minimise \/ litRedundant \/ Shorten
    BY <2>4 DEF Analyze, Minimise, litRedundant, Shorten, UnchangedByAnalyze
  <2>5. CASE DummyLevel \/ Assume \/ AssumptionFails \/ AnalyzeFinal \/ FinalAnalyzed
             \/ PickBranchLit \/ ModelFound
    BY <2>5 DEF DummyLevel, Assume, AssumptionFails, AnalyzeFinal, FinalAnalyzed, PickBranchLit,
                      ModelFound, UnchangedByDecide
  <2>. HIDE DEF user
  <2>. QED
    BY <2>1, <2>2, <2>3, <2>4, <2>5 DEF Next, Step, User, Search
<1>. QED
  BY <1>2, <1>3, <1>4, <1>5, <1>6, <1>7

\* How a call of solve_ comes to an end.
LEMMA ReturnPlaces ==
    ASSUME IInv, [Next]_svars, pc' = "return"
    PROVE  \/ pc = "return" /\ UNCHANGED <<status, conflict, formula>>
           \/ pc = "idle" /\ ~ ok /\ UNCHANGED formula
           \/ pc = "search" /\ decisionLevel = 0 /\ confl # CRef_Undef /\ UNCHANGED formula
           \/ pc = "simplify" /\ confl # CRef_Undef /\ UNCHANGED formula
           \/ pc = "final" /\ UNCHANGED <<conflict, formula>>
           \/ status' # "false"
<1>. USE DEF user, result
<1>1. CASE interrupt \/ UNCHANGED svars
  BY <1>1 DEF interrupt, svars
<1>2. pc \in Places /\ caller \in {"added", "search", "simplify"} /\ after \in {"idle", "reduce", "decide"}
  BY DEF IInv, ControlInv
<1>3. CASE newVar \/ callSimplify \/ solve \/ Added
  BY <1>2, <1>3 DEF newVar, callSimplify, solve, solve_, Added
<1>4. CASE addClause
  <2>1. pc = "idle" /\ pc' \in {"idle", "propagate"}
    BY <1>4 DEF addClause, addClauseThen, addClause_
  <2>. QED
    BY <2>1
<1>5. CASE Propagate
  BY <1>2, <1>5 DEF Propagate, Dequeue, Propagated, VisitBinary, StartLong, SkipClause, MoveWatch, KeepWatch, EndLong
<1>6. CASE NoConflict \/ Simplify \/ KeepLearnts \/ NothingToReduce \/ reduceDB \/ CheckGarbage \/ Return
  BY <1>2, <1>6 DEF NoConflict, Simplify, KeepLearnts, NothingToReduce, reduceDB, CheckGarbage, Return, Returned
<1>7. CASE SearchConflict
  BY <1>7 DEF SearchConflict, Leave
<1>8. CASE Restart
  BY <1>8 DEF Restart, Leave
<1>9. CASE SimplifyReturns
  BY <1>2, <1>9 DEF SimplifyReturns, Leave
<1>10. CASE FinalAnalyzed \/ ModelFound
  BY <1>10 DEF FinalAnalyzed, ModelFound, Leave, UnchangedByDecide
<1>11. CASE DummyLevel \/ Assume \/ AssumptionFails \/ AnalyzeFinal \/ PickBranchLit
  BY <1>2, <1>11 DEF DummyLevel, Assume, AssumptionFails, AnalyzeFinal, PickBranchLit, Decided
<1>12. CASE Analyze \/ Minimise \/ litRedundant \/ Shorten \/ Learn
  BY <1>12 DEF Analyze, Minimise, litRedundant, Shorten, Learn
<1>. HIDE DEF user, result
<1>. QED
  BY <1>1, <1>3, <1>4, <1>5, <1>6, <1>7, <1>8, <1>9, <1>10, <1>11, <1>12 DEF Next, Step, User, Search

\* The answer that nothing is possible without assumptions is right.
LEMMA ReturnStep ==
    ASSUME IInv, [Next]_svars, pc' = "return", status' = "false", conflict' = {}
    PROVE  Models(formula') = {}
<1>1. MeaningInv /\ ConflictInv /\ ControlInv
  BY DEF IInv
<1>2. CASE pc = "return" /\ UNCHANGED <<status, conflict, formula>>
  BY <1>1, <1>2 DEF MeaningInv
<1>3. CASE pc = "idle" /\ ~ ok /\ UNCHANGED formula
  BY <1>1, <1>3 DEF MeaningInv
<1>4. CASE pc \in {"search", "simplify"} /\ (pc = "search" => decisionLevel = 0) /\ confl # CRef_Undef /\ UNCHANGED formula
  <2>1. Conflicting(confl)
    BY <1>1, <1>4 DEF ConflictInv
  <2>2. decisionLevel = 0
    BY <1>1, <1>4 DEF ControlInv, decisionLevel
  <2>. QED
    BY <1>4, <2>1, <2>2, ConflictAtZero
<1>5. CASE pc = "final" /\ UNCHANGED <<conflict, formula>>
  BY <1>1, <1>5 DEF MeaningInv
<1>. QED
  BY <1>2, <1>3, <1>4, <1>5, ReturnPlaces

\* analyzeFinal never ends with an empty conflict.
LEMMA FinalStep ==
    ASSUME IInv, [Next]_svars, pc' = "final"
    PROVE  conflict' # {}
<1>1. MeaningInv
  BY DEF IInv
<1>. USE DEF user, result
<1>2. CASE interrupt \/ UNCHANGED svars
  BY <1>1, <1>2 DEF interrupt, svars, MeaningInv
<1>3. pc \in Places /\ caller \in {"added", "search", "simplify"} /\ after \in {"idle", "reduce", "decide"}
  BY DEF IInv, ControlInv
<1>4. CASE newVar \/ callSimplify \/ solve \/ Added
  BY <1>3, <1>4 DEF newVar, callSimplify, solve, solve_, Added
<1>5. CASE addClause
  <2>1. pc = "idle" /\ pc' \in {"idle", "propagate"}
    BY <1>5 DEF addClause, addClauseThen, addClause_
  <2>. QED
    BY <2>1
<1>6. CASE Propagate
  BY <1>3, <1>6 DEF Propagate, Dequeue, Propagated, VisitBinary, StartLong, SkipClause, MoveWatch, KeepWatch, EndLong
<1>7. CASE NoConflict \/ Simplify \/ KeepLearnts \/ NothingToReduce \/ reduceDB \/ CheckGarbage \/ Return
           \/ SearchConflict \/ Restart \/ SimplifyReturns
  BY <1>3, <1>7 DEF NoConflict, Simplify, KeepLearnts, NothingToReduce, reduceDB, CheckGarbage, Return, Returned,
     SearchConflict, Restart, SimplifyReturns, Leave
<1>8. CASE DummyLevel \/ Assume \/ FinalAnalyzed \/ PickBranchLit \/ ModelFound
  BY <1>3, <1>8 DEF DummyLevel, Assume, FinalAnalyzed, PickBranchLit, ModelFound, Decided, Leave
<1>9. CASE Analyze \/ Minimise \/ litRedundant \/ Shorten \/ Learn
  BY <1>9 DEF Analyze, Minimise, litRedundant, Shorten, Learn
<1>10. CASE AssumptionFails
  BY <1>10, FailsDoes
<1>11. CASE AnalyzeFinal
  <2>1. pc = "final" /\ conflict \subseteq conflict'
    BY <1>11, FinalDoes DEF AnalyzeFinal
  <2>. QED
    BY <1>1, <2>1 DEF MeaningInv
<1>. HIDE DEF user, result
<1>. QED
  BY <1>2, <1>4, <1>5, <1>6, <1>7, <1>8, <1>9, <1>10, <1>11 DEF Next, Step, User, Search

\* Every step keeps what is learnt, forced and answered a consequence of the
\* formula.
LEMMA MeaningStep ==
    ASSUME IInv, [Next]_svars
    PROVE  MeaningInv'
<1>1. \A cr \in DOMAIN ca' : Implies(formula', ToSet(ca'[cr].lits))
  BY NextImplied
<1>2. \A i \in DOMAIN trail' : trail'[i].level = 0 => Implies(formula', {trail'[i].lit})
  BY ZeroStep
<1>3. ~ ok' => Models(formula') = {}
  BY NotOkStep
<1>4. pc' = "return" /\ status' = "false" /\ conflict' = {} => Models(formula') = {}
  BY ReturnStep
<1>5. pc' = "final" => conflict' # {}
  BY FinalStep
<1>. QED
  BY <1>1, <1>2, <1>3, <1>4, <1>5 DEF MeaningInv, lits

-----------------------------------------------------------------------------
(***************************************************************************)
(* Types.                                                                  *)
(***************************************************************************)

(* The types. *)
\* The levels that analyze counts are levels.
LEMMA AnalyzeLevels ==
    ASSUME IInv, Analyze
    PROVE  an'.levels \in SUBSET Int
<1>0. pc = "analyze" /\ an \in AnType
  BY DEF Analyze, IInv, ValuesInv
<1>. DEFINE ls == {level(q) % 32 : q \in ToSet(AnOut)}
<1>1. \/ an' = [an EXCEPT !.p = trail[AnLast].lit, !.seen = AnLeft, !.out = AnOut]
      \/ an' = [an EXCEPT !.p = trail[AnLast].lit, !.seen = AnLeft,
                          !.out = <<-trail[AnLast].lit>> \o AnOut, !.levels = ls]
  BY DEF Analyze, AnPs, AnNew, AnSeen, AnLast, AnLeft, AnOut
<1>2. ls \subseteq Int
  <2>1. SUFFICES ASSUME NEW q \in ToSet(AnOut)  PROVE level(q) % 32 \in Int
    OBVIOUS
  <2>2. PICK k \in DOMAIN AnOut : q = AnOut[k]
    BY DEF ToSet
  <2>3. AnOut \in Seq(Lits) /\ TrueAt(-q, BelowTop)
    BY <1>0, <2>2, AnalyzeOut
  <2>4. q \in Lits
    BY <2>2, <2>3
  <2>5. PICK j \in DOMAIN trail : trail[j].lit = -q /\ trail[j].level \in BelowTop
    BY <2>3 DEF TrueAt
  <2>6. level(q) = trail[j].level /\ trail[j].level \in Int
    BY <2>4, <2>5, FalseFacts DEF IInv, BelowTop
  <2>. QED
    BY <2>6
<1>. HIDE DEF ls
<1>3. CASE an' = [an EXCEPT !.p = trail[AnLast].lit, !.seen = AnLeft, !.out = AnOut]
  <2>1. an'.levels = an.levels
    BY <1>0, <1>3 DEF AnType
  <2>. QED
    BY <1>0, <2>1 DEF AnType
<1>4. CASE an' = [an EXCEPT !.p = trail[AnLast].lit, !.seen = AnLeft,
                            !.out = <<-trail[AnLast].lit>> \o AnOut, !.levels = ls]
  <2>. DEFINE u == <<-trail[AnLast].lit>> \o AnOut
  <2>. HIDE DEF u
  <2>1. an' = [an EXCEPT !.p = trail[AnLast].lit, !.seen = AnLeft, !.out = u, !.levels = ls]
    BY <1>4 DEF u
  <2>2. an'.levels = ls
    BY <1>0, <2>1 DEF AnType
  <2>. QED
    BY <1>2, <2>2
<1>. QED
  BY <1>1, <1>3, <1>4

\* The record of the analysis keeps its type through analyze,
LEMMA AnalyzeType ==
    ASSUME IInv, Analyze
    PROVE  an' \in AnType
<1>0. pc = "analyze" /\ an \in AnType /\ OrderInv /\ LevelsInv
  BY DEF Analyze, IInv, ValuesInv
<1>1. /\ an' = [an EXCEPT !.p = an'.p, !.seen = an'.seen, !.out = an'.out, !.levels = an'.levels]
      /\ an'.p = trail[AnLast].lit /\ an'.seen = AnLeft
      /\ an'.out = AnOut \/ an'.out = <<-trail[AnLast].lit>> \o AnOut
  BY AnalyzeDoes
<1>2. trail[AnLast].lit \in Lits /\ -trail[AnLast].lit \in Lits
  <2>1. AnLast \in DOMAIN trail
    BY <1>0, AnalyzeLast
  <2>. QED
    BY <1>0, <2>1, LitsFacts DEF LevelsInv, NLits
<1>3. AnOut \in Seq(Lits)
  BY <1>0, AnalyzeOut
<1>4. AnLeft \subseteq Vars
  <2>1. SUFFICES ASSUME NEW v \in AnLeft  PROVE v \in Vars
    OBVIOUS
  <2>2. PICK j \in DOMAIN trail : var(trail[j].lit) = v
    BY <1>0, AnalyzeLeft DEF SeenAt
  <2>3. trail[j].lit \in Lits
    BY <1>0 DEF LevelsInv, NLits
  <2>. QED
    BY <2>2, <2>3, LitsFacts
<1>5. <<-trail[AnLast].lit>> \o AnOut \in Seq(Lits)
  <2>. DEFINE l == -trail[AnLast].lit
              out == AnOut
  <2>1. l \in Lits /\ out \in Seq(Lits)
    BY <1>2, <1>3
  <2>. HIDE DEF l, out
  <2>2. <<l>> \o out \in Seq(Lits)
    BY <2>1, FirstThen
  <2>. QED
    BY <2>2 DEF l, out
<1>6. an'.p \in Lits /\ an'.seen \in SUBSET Vars /\ an'.out \in Seq(Lits) /\ an'.levels \in SUBSET Int
  BY <1>1, <1>2, <1>3, <1>4, <1>5, AnalyzeLevels
<1>. DEFINE p == an'.p
            seen == an'.seen
            out == an'.out
            levels == an'.levels
<1>7. an' = [an EXCEPT !.p = p, !.seen = seen, !.out = out, !.levels = levels]
  BY <1>1
<1>8. p \in Lits /\ seen \in SUBSET Vars /\ out \in Seq(Lits) /\ levels \in SUBSET Int
  BY <1>6
<1>. HIDE DEF p, seen, out, levels
<1>. QED
  BY <1>0, <1>7, <1>8 DEF AnType

\* the empty one has it,
LEMMA NoAnalysisType ==
    /\ NoAnalysis \in AnType
    /\ \A s \in SUBSET Vars : [NoAnalysis EXCEPT !.seen = s] \in AnType
<1>. DEFINE e == <<>>
<1>1. e \in Seq(Lits)
  OBVIOUS
<1>2. NoAnalysis = [p |-> Undef, seen |-> {}, out |-> e, next |-> 2, levels |-> {},
                    stack |-> e, saved |-> {}, lbd |-> 0]
  BY DEF NoAnalysis
<1>. HIDE DEF e
<1>3. NoAnalysis \in AnType
  BY <1>1, <1>2 DEF AnType
<1>. QED
  BY <1>3 DEF AnType

\* and every step keeps it.
LEMMA AnStep ==
    ASSUME IInv, [Next]_svars
    PROVE  an' \in AnType
<1>0. an \in AnType
  BY DEF IInv, ValuesInv
<1>1. CASE UNCHANGED an
  BY <1>0, <1>1
<1>2. CASE Analyze
  BY <1>2, AnalyzeType
<1>3. CASE Minimise
  BY <1>3, MinimiseDoes
<1>4. CASE litRedundant
  BY <1>4, RedundantDoes
<1>5. CASE Shorten
  <2>1. an'.out \in Seq(Lits) /\ \E n \in Nat : an' = [an EXCEPT !.out = an'.out, !.lbd = n, !.seen = {}]
    BY <1>5, ShortenDoes
  <2>2. \A o \in Seq(Lits), n \in Nat : [an EXCEPT !.out = o, !.lbd = n, !.seen = {}] \in AnType
    BY <1>0 DEF AnType
  <2>. QED
    BY <2>1, <2>2
<1>6. CASE Learn
  BY <1>6, NoAnalysisType DEF Learn
<1>7. CASE SearchConflict
  BY <1>0, <1>7, NoAnalysisType DEF SearchConflict
<1>8. CASE AssumptionFails
  BY <1>8, FailsDoes, NoAnalysisType
<1>9. CASE AnalyzeFinal
  <2>1. an' = [an EXCEPT !.seen = an'.seen] /\ an'.seen \subseteq Vars
    BY <1>9, FinalDoes
  <2>2. \A s \in SUBSET Vars : [an EXCEPT !.seen = s] \in AnType
    BY <1>0 DEF AnType
  <2>. QED
    BY <2>1, <2>2
<1>10. CASE User \/ Added \/ CheckGarbage \/ Return \/ UNCHANGED svars
  BY <1>1, <1>10 DEF User, newVar, addClause, addClauseThen, UnchangedByAdd, callSimplify, solve, interrupt,
     Added, CheckGarbage, Return, Returned, svars
<1>11. CASE Propagate
  BY <1>1, <1>11 DEF Propagate, Dequeue, Propagated, VisitBinary, StartLong, SkipClause, MoveWatch, KeepWatch,
                    EndLong, UnchangedByPropagate
<1>12. CASE Restart \/ NoConflict \/ SimplifyReturns \/ Simplify \/ KeepLearnts \/ NothingToReduce \/ reduceDB
  BY <1>1, <1>12 DEF Restart, NoConflict, SimplifyReturns, Simplify, KeepLearnts, NothingToReduce, reduceDB
<1>13. CASE DummyLevel \/ Assume \/ FinalAnalyzed \/ PickBranchLit \/ ModelFound
  BY <1>1, <1>13 DEF DummyLevel, Assume, FinalAnalyzed, PickBranchLit, ModelFound
<1>. QED
  BY <1>2, <1>3, <1>4, <1>5, <1>6, <1>7, <1>8, <1>9, <1>10, <1>11, <1>12, <1>13 DEF Next, Step, Search

HeapType == /\ polarity \in [Vars -> BOOLEAN] /\ decision \in [Vars -> BOOLEAN]
            /\ order_heap \subseteq 1 .. nVars

\* A jump back keeps the heap within the variables.
LEMMA BacktrackHeap ==
    ASSUME IInv, NEW lev \in Nat, Backtrack(lev), UNCHANGED <<decision, nVars>>
    PROVE  HeapType'
<1>0. OrderInv /\ LevelsInv /\ ValuesInv
  BY DEF IInv
<1>1. /\ polarity' = [v \in Vars |-> IF v \in Cancelled(lev) THEN FALSE
                                     ELSE IF -v \in Cancelled(lev) THEN TRUE ELSE polarity[v]]
      /\ order_heap' = order_heap \cup {v \in {var(l) : l \in Cancelled(lev)} : decision[v]}
  BY DEF Backtrack
<1>2. \A l \in Cancelled(lev) : var(l) \in 1 .. nVars
  <2>1. TAKE l \in Cancelled(lev)
  <2>2. LimitOf(lev) \in 0 .. Len(trail) /\ Len(trail) \in Nat /\ DOMAIN trail = 1 .. Len(trail)
    BY <1>0, BacktrackFacts, TrailFacts
  <2>3. PICK i \in LimitOf(lev) + 1 .. Len(trail) : trail[i].lit = l
    BY DEF Cancelled
  <2>4. i \in DOMAIN trail
    BY <2>2
  <2>5. l \in NLits
    BY <1>0, <2>3, <2>4 DEF LevelsInv
  <2>6. l \in Lits /\ var(l) \in Vars /\ var(l) <= nVars /\ nVars \in Nat
    BY <1>0, <2>5, LitsFacts DEF NLits, ValuesInv
  <2>. QED
    BY <2>6, MaxVarsAssumption DEF Vars
<1>3. polarity' \in [Vars -> BOOLEAN]
  <2>1. polarity \in [Vars -> BOOLEAN]
    BY <1>0 DEF ValuesInv
  <2>. QED
    BY <1>1, <2>1
<1>4. order_heap' \subseteq 1 .. nVars
  BY <1>0, <1>1, <1>2 DEF ValuesInv
<1>5. decision' \in [Vars -> BOOLEAN]
  BY <1>0 DEF ValuesInv
<1>. QED
  BY <1>3, <1>4, <1>5 DEF HeapType

\* Every step keeps the types of heap, polarities and decisions.
LEMMA HeapTypeStep ==
    ASSUME IInv, [Next]_svars
    PROVE  HeapType'
<1>0. OrderInv /\ LevelsInv /\ ValuesInv /\ ScriptInv
  BY DEF IInv
<1>1. CASE UNCHANGED <<polarity, decision, order_heap, nVars>>
  BY <1>0, <1>1 DEF HeapType, ValuesInv
<1>2. CASE newVar
  <2>1. /\ script # <<>> /\ call.op = "newVar" /\ nVars < MaxVars
        /\ nVars' = nVars + 1
        /\ polarity' = [polarity EXCEPT ![nVars + 1] = call.sign]
        /\ decision' = [decision EXCEPT ![nVars + 1] = call.dvar]
        /\ order_heap' = IF call.dvar THEN order_heap \cup {nVars + 1} ELSE order_heap
    BY <1>2 DEF newVar, Called, call
  <2>2. call \in Calls
    BY <1>0, <2>1, CallFacts
  <2>3. call.sign \in BOOLEAN /\ call.dvar \in BOOLEAN
    BY <2>1, <2>2 DEF Calls
  <2>4. nVars \in Nat /\ nVars + 1 \in 1 .. nVars + 1 /\ 1 .. nVars \subseteq 1 .. nVars + 1
    BY <1>0, MaxVarsAssumption DEF ValuesInv
  <2>5. order_heap' \subseteq 1 .. nVars'
    BY <1>0, <2>1, <2>4 DEF ValuesInv
  <2>6. polarity' \in [Vars -> BOOLEAN] /\ decision' \in [Vars -> BOOLEAN]
    BY <1>0, <2>1, <2>3 DEF ValuesInv
  <2>. QED
    BY <2>5, <2>6 DEF HeapType
<1>3. CASE Learn
  <2>1. (\E bt \in 0 .. decisionLevel : Backtrack(bt)) /\ UNCHANGED <<decision, nVars>>
    BY <1>3 DEF Learn, user
  <2>2. PICK bt \in 0 .. decisionLevel : Backtrack(bt)
    BY <2>1
  <2>3. bt \in Nat
    BY <1>0, TrailFacts
  <2>. QED
    BY <2>1, <2>2, <2>3, BacktrackHeap
<1>4. CASE Restart \/ Return
  <2>1. Backtrack(0) /\ UNCHANGED <<decision, nVars>>
    BY <1>4 DEF Restart, Return, Returned, cancelUntil, user
  <2>. QED
    BY <2>1, BacktrackHeap
<1>5. ASSUME UNCHANGED <<polarity, decision, nVars>>, order_heap' \subseteq 1 .. nVars  PROVE HeapType'
  BY <1>0, <1>5 DEF HeapType, ValuesInv
<1>6. CASE Simplify
  BY <1>5, <1>6 DEF Simplify, user
<1>7. CASE PickBranchLit \/ ModelFound
  <2>1. UNCHANGED <<polarity, decision, nVars>> /\ order_heap' \subseteq order_heap
    BY <1>7 DEF PickBranchLit, ModelFound, UnchangedByDecide, user
  <2>. QED
    BY <1>0, <1>5, <2>1 DEF ValuesInv
<1>. USE DEF user, assignment
<1>8. CASE addClause \/ callSimplify \/ solve \/ interrupt \/ Added \/ CheckGarbage \/ UNCHANGED svars
  BY <1>1, <1>8 DEF addClause, addClauseThen, UnchangedByAdd, callSimplify, solve, interrupt,
     Added, CheckGarbage, svars
<1>9. CASE Propagate
  BY <1>1, <1>9 DEF Propagate, Dequeue, Propagated, VisitBinary, StartLong, SkipClause, MoveWatch, KeepWatch,
                    EndLong, UnchangedByPropagate
<1>10. CASE SearchConflict \/ NoConflict \/ SimplifyReturns \/ KeepLearnts \/ NothingToReduce \/ reduceDB
  BY <1>1, <1>10 DEF SearchConflict, NoConflict, SimplifyReturns, KeepLearnts, NothingToReduce, reduceDB
<1>11. CASE DummyLevel \/ Assume \/ AssumptionFails \/ AnalyzeFinal \/ FinalAnalyzed
  BY <1>1, <1>11 DEF DummyLevel, Assume, AssumptionFails, AnalyzeFinal, FinalAnalyzed, UnchangedByDecide
<1>12. CASE Analyze \/ Minimise \/ litRedundant \/ Shorten
  BY <1>1, <1>12 DEF Analyze, Minimise, litRedundant, Shorten, UnchangedByAnalyze
<1>. HIDE DEF user, assignment
<1>. QED
  BY <1>2, <1>3, <1>4, <1>6, <1>7, <1>8, <1>9, <1>10, <1>11, <1>12 DEF Next, Step, User, Search

ResultType == /\ ok \in BOOLEAN /\ conflict \subseteq Lits /\ model \subseteq Lits
              /\ assumptions \in Seq(Lits) /\ \A i \in DOMAIN assumptions : assumptions[i] \in Lits /\ var(assumptions[i]) <= nVars

\* Every step keeps the types of the results.
LEMMA ResultTypeStep ==
    ASSUME IInv, [Next]_svars
    PROVE  ResultType'
<1>0. OrderInv /\ LevelsInv /\ ValuesInv /\ ScriptInv /\ nVars \in Nat
  BY MaxVarsAssumption DEF IInv, ValuesInv
<1>1. ASSUME ok' \in BOOLEAN, conflict' \subseteq Lits, model' \subseteq Lits, UNCHANGED assumptions,
             nVars' \in {nVars, nVars + 1}
      PROVE  ResultType'
  <2>1. assumptions \in Seq(Lits) /\ \A i \in DOMAIN assumptions : assumptions[i] \in Lits /\ var(assumptions[i]) <= nVars
    BY <1>0 DEF ValuesInv, NLits
  <2>2. \A i \in DOMAIN assumptions : assumptions[i] \in Lits /\ var(assumptions[i]) <= nVars'
    <3>1. TAKE i \in DOMAIN assumptions
    <3>2. var(assumptions[i]) \in Int
      BY <2>1, LitsFacts DEF Vars
    <3>. QED
      BY <1>0, <1>1, <2>1, <3>2
  <2>. QED
    BY <1>1, <2>1, <2>2 DEF ResultType
<1>2. ok \in BOOLEAN /\ conflict \subseteq Lits /\ model \subseteq Lits
  BY <1>0 DEF ValuesInv
<1>3. CASE UNCHANGED <<ok, conflict, model, assumptions>> /\ nVars' \in {nVars, nVars + 1}
  BY <1>1, <1>2, <1>3
<1>4. CASE solve
  <2>1. /\ script # <<>> /\ call.op = "solve" /\ assumptions' = call.assumps
        /\ model' = {} /\ conflict' = {} /\ UNCHANGED <<nVars, ok>>
    BY <1>4 DEF solve, solve_, Called, call
  <2>2. call.assumps \in Seq(Lits) /\ \A i \in DOMAIN call.assumps : call.assumps[i] \in NLits
    BY <1>0, <2>1, CalledLits
  <2>. QED
    BY <1>2, <2>1, <2>2 DEF ResultType, NLits
<1>5. CASE Added \/ SimplifyReturns
  <2>1. ok' \in BOOLEAN /\ UNCHANGED <<conflict, model, assumptions, nVars>>
    BY <1>5 DEF Added, SimplifyReturns, result, user
  <2>. QED
    BY <1>1, <1>2, <2>1
<1>6. CASE addClause
  <2>1. ok' \in BOOLEAN /\ UNCHANGED <<conflict, model, assumptions, nVars>>
    BY <1>2, <1>6 DEF addClause, addClauseThen, addClause_, UnchangedByAdd, result
  <2>. QED
    BY <1>1, <1>2, <2>1
<1>7. CASE Return
  <2>1. UNCHANGED <<conflict, assumptions, nVars>> /\ model' \in {Found, model}
        /\ ok' = (ok /\ ~ (status = "false" /\ conflict = {}))
    BY <1>7 DEF Return, Returned, result, user
  <2>2. ok' \in BOOLEAN
    BY <2>1
  <2>3. Found \subseteq Lits
    BY <1>0 DEF Found, LevelsInv, NLits
  <2>. QED
    BY <1>1, <1>2, <2>1, <2>2, <2>3
<1>8. CASE AssumptionFails
  <2>1. conflict' \subseteq Lits /\ UNCHANGED <<model, assumptions, nVars, ok>>
    BY <1>8, FailsDoes DEF AssumptionFails, UnchangedByDecide, user
  <2>. QED
    BY <1>1, <1>2, <2>1
<1>9. CASE AnalyzeFinal
  <2>1. conflict' \subseteq Lits /\ UNCHANGED <<model, assumptions, nVars, ok>>
    BY <1>2, <1>9, FinalDoes DEF AnalyzeFinal, UnchangedByDecide, user
  <2>. QED
    BY <1>1, <1>2, <2>1
<1>. USE DEF user, result
<1>10. CASE newVar \/ callSimplify \/ interrupt \/ CheckGarbage \/ UNCHANGED svars
  BY <1>3, <1>10 DEF newVar, callSimplify, interrupt, CheckGarbage, svars
<1>11. CASE Propagate
  BY <1>3, <1>11 DEF Propagate, Dequeue, Propagated, VisitBinary, StartLong, SkipClause, MoveWatch, KeepWatch,
                    EndLong, UnchangedByPropagate
<1>12. CASE SearchConflict \/ Restart \/ NoConflict \/ Simplify \/ KeepLearnts \/ NothingToReduce \/ reduceDB \/ Learn
  BY <1>3, <1>12 DEF SearchConflict, Restart, NoConflict, Simplify, KeepLearnts, NothingToReduce, reduceDB, Learn, Leave
<1>13. CASE DummyLevel \/ Assume \/ FinalAnalyzed \/ PickBranchLit \/ ModelFound
  BY <1>3, <1>13 DEF DummyLevel, Assume, FinalAnalyzed, PickBranchLit, ModelFound, UnchangedByDecide
<1>14. CASE Analyze \/ Minimise \/ litRedundant \/ Shorten
  BY <1>3, <1>14 DEF Analyze, Minimise, litRedundant, Shorten, UnchangedByAnalyze
<1>. HIDE DEF user, result
<1>. QED
  BY <1>4, <1>5, <1>6, <1>7, <1>8, <1>9, <1>10, <1>11, <1>12, <1>13, <1>14 DEF Next, Step, User, Search

\* Every step keeps the types of the values.
LEMMA ValuesStep ==
    ASSUME IInv, [Next]_svars
    PROVE  ValuesInv'
<1>1. OrderInv'
  BY OrderStep DEF IInv
<1>2. nVars' \in 0 .. MaxVars
  BY <1>1 DEF OrderInv, VarsInv
<1>3. HeapType' /\ ResultType' /\ an' \in AnType
  BY HeapTypeStep, ResultTypeStep, AnStep
<1>. QED
  BY <1>2, <1>3 DEF ValuesInv, HeapType, ResultType, AnType, NLits, Lits

-----------------------------------------------------------------------------
(***************************************************************************)
(* The invariant and what it gives.                                        *)
(***************************************************************************)

\* Every step keeps the invariant.
LEMMA IInvStep ==
    ASSUME IInv, [Next]_svars
    PROVE  IInv'
<1>1. OrderInv' /\ UseInv'
  BY OrderStep, UseStep DEF IInv
<1>2. ScriptInv' /\ ControlInv' /\ ValuesInv' /\ LevelsInv' /\ QueueInv'
  BY ScriptStep, ControlStep, ValuesStep, LevelsStep, QueueStep
<1>3. ClausesInv' /\ WatchInv' /\ CoverInv' /\ VisitInv' /\ ReasonInv'
  BY ClausesStep, WatchStep, VisitStep, ReasonStep
<1>4. ConflictInv' /\ MeaningInv' /\ AnalyzeInv' /\ MinimiseInv'
  BY ConflictStep, MeaningStep, AnalyzeStep, MinimiseStep
<1>. QED
  BY <1>1, <1>2, <1>3, <1>4 DEF IInv

\* The invariant holds at first.
LEMMA IInvInit == Init => IInv
<1>. SUFFICES ASSUME Init  PROVE IInv
  OBVIOUS
<1>0. /\ DOMAIN trail = {} /\ DOMAIN ca = {} /\ trail = <<>> /\ trail_lim = <<>> /\ pc = "idle" /\ nVars = 0
      /\ decisionLevel = 0 /\ Len(trail) = 0
  BY DEF Init, InitWith, decisionLevel
<1>1. OrderInv
  <2>1. TrailInv /\ LimitsInv
    BY DEF Init, InitWith, TrailInv, LimitsInv, IsSeq
  <2>2. VarsInv /\ OrderComplete
    BY MaxVarsAssumption DEF Init, InitWith, VarsInv, OrderComplete
  <2>. QED
    BY <2>1, <2>2 DEF OrderInv
<1>2. UseInv
  BY DEF Init, InitWith, UseInv
<1>3. ScriptInv
  <2>1. script \in Scripts /\ script \in Seq(Calls)
    BY ScriptsAssumption DEF Init, InitWith
  <2>2. script = SubSeq(script, 0 + 1, Len(script)) /\ 0 \in 0 .. Len(script)
    BY <2>1
  <2>3. NewVars(script, 0) = 0
    <3>1. {i \in 1 .. 0 : script[i].op = "newVar"} = {}
      OBVIOUS
    <3>. QED
      BY <3>1, FS_EmptySet DEF NewVars
  <2>. QED
    BY <1>0, <2>1, <2>2, <2>3 DEF ScriptInv
<1>4. ControlInv
  BY DEF Init, InitWith, ControlInv, Propagating, Places
<1>5. ValuesInv
  <2>1. an \in AnType
    BY NoAnalysisType DEF Init, InitWith
  <2>2. assumptions = <<>> /\ assumptions \in Seq(Lits) /\ DOMAIN assumptions = {}
    BY DEF Init, InitWith
  <2>. QED
    BY <2>1, <2>2, MaxVarsAssumption DEF Init, InitWith, ValuesInv
<1>6. LevelsInv /\ QueueInv
  <2>1. LevelsInv
    BY <1>0 DEF LevelsInv
  <2>2. QueueInv
    BY <1>0 DEF QueueInv, Init, InitWith
  <2>. QED
    BY <2>1, <2>2
<1>7. ClausesInv /\ CoverInv /\ ReasonInv
  BY <1>0 DEF Init, InitWith, ClausesInv, CoverInv, ReasonInv
<1>8. WatchInv
  <2>. DEFINE e == <<>>
  <2>1. e \in WatcherSeqs /\ DOMAIN e = {}
    BY DEF WatcherSeqs
  <2>2. /\ watches = [l \in Lits |-> e] /\ watchesBin = [l \in Lits |-> e] /\ dirty = {}
        /\ visiting = [p |-> Undef, todo |-> e] /\ pc # "long"
    BY <1>0 DEF Init, InitWith
  <2>. HIDE DEF e
  <2>3. \A l \in Lits : DOMAIN ListOf(l) = {}
    <3>1. TAKE l \in Lits
    <3>2. l # Undef
      BY LitsFacts
    <3>. QED
      BY <2>1, <2>2, <3>2 DEF ListOf
  <2>4. \A l \in Lits : DOMAIN watchesBin[l] = {}
    BY <2>1, <2>2
  <2>5. \A l \in Lits : NoRepeat(ListOf(l)) /\ NoRepeat(watchesBin[l]) /\ Refs(ListOf(l)) = {}
    BY <2>3, <2>4 DEF NoRepeat, Refs
  <2>6. /\ watches \in [Lits -> WatcherSeqs] /\ watchesBin \in [Lits -> WatcherSeqs] /\ dirty \subseteq Lits
        /\ visiting \in [p : Lits \cup {Undef}, todo : WatcherSeqs]
    BY <2>1, <2>2
  <2>. QED
    BY <2>4, <2>5, <2>6 DEF WatchInv
<1>9. VisitInv /\ ConflictInv /\ AnalyzeInv /\ MinimiseInv
  BY <1>0 DEF Init, InitWith, VisitInv, ConflictInv, AnalyzeInv, MinimiseInv
<1>10. MeaningInv
  BY <1>0 DEF Init, InitWith, MeaningInv
<1>. QED
  BY <1>1, <1>2, <1>3, <1>4, <1>5, <1>6, <1>7, <1>8, <1>9, <1>10 DEF IInv

-----------------------------------------------------------------------------
\* The invariant gives the types,
LEMMA TypeHolds == IInv => SolverTypeOK
<1>. SUFFICES ASSUME IInv  PROVE SolverTypeOK
  OBVIOUS
<1>1. /\ OrderInv /\ UseInv /\ ControlInv /\ ValuesInv /\ LevelsInv /\ QueueInv /\ ClausesInv /\ WatchInv /\ ConflictInv
  BY DEF IInv
<1>2. DOMAIN ca \subseteq CRefs /\ \A cr \in DOMAIN ca : ca[cr] \in ClauseRecords
  BY <1>1 DEF ClausesInv
<1>3. clauses \subseteq CRefs /\ learnts \subseteq CRefs
  BY <1>1, <1>2 DEF UseInv, InUse
<1>4. trail \in Seq([lit : Lits, level : Nat, reason : CRefs \cup {CRef_Undef}])
  <2>1. IsSeq(trail)
    BY <1>1 DEF OrderInv, TrailInv
  <2>2. \A i \in DOMAIN trail : trail[i] \in [lit : Lits, level : Nat, reason : CRefs \cup {CRef_Undef}]
    <3>1. TAKE i \in DOMAIN trail
    <3>2. trail[i] = [lit |-> trail[i].lit, level |-> trail[i].level, reason |-> trail[i].reason]
      BY <1>1 DEF OrderInv, TrailInv, Enqueued
    <3>3. trail[i].lit \in Lits /\ trail[i].level \in Nat /\ trail[i].reason \in CRefs \cup {CRef_Undef}
      BY <1>1 DEF LevelsInv, NLits
    <3>. QED
      BY <3>2, <3>3
  <2>3. \A S, T : trail \in Seq(S) /\ (\A i \in DOMAIN trail : trail[i] \in T) => trail \in Seq(T)
    OBVIOUS
  <2>. QED
    BY <2>1, <2>2, <2>3 DEF IsSeq
<1>5. trail_lim \in Seq(0 .. Len(trail))
  <2>1. trail_lim \in Seq(Nat) /\ \A j \in DOMAIN trail_lim : trail_lim[j] \in 0 .. Len(trail)
    BY <1>1, TrailFacts
  <2>. QED
    BY <2>1
<1>6. qhead \in 0 .. Len(trail) /\ confl \in CRefs \cup {CRef_Undef}
  BY <1>1 DEF QueueInv, ConflictInv
<1>7. /\ watches \in [Lits -> WatcherSeqs] /\ watchesBin \in [Lits -> WatcherSeqs] /\ dirty \subseteq Lits
  BY <1>1 DEF WatchInv
<1>8. an.seen \subseteq Vars /\ an.out \in Seq(Lits) /\ an.stack \in Seq(Lits)
  BY <1>1 DEF ValuesInv, AnType
<1>. QED
  BY <1>1, <1>2, <1>3, <1>4, <1>5, <1>6, <1>7, <1>8 DEF SolverTypeOK, ValuesInv, ControlInv

\* that what is learnt and forced follows,
LEMMA ImpliedHolds == IInv => ClausesImplied
<1>. SUFFICES ASSUME IInv  PROVE ClausesImplied
  OBVIOUS
<1>1. MeaningInv
  BY DEF IInv
<1>2. pc = "learn" => Implies(formula, ToSet(an.out))
  BY DEF IInv, MinimiseInv, OutGood
<1>. QED
  BY <1>1, <1>2 DEF ClausesImplied, MeaningInv, Implies

\* that reasons imply,
LEMMA ReasonsHold == IInv => ReasonsImply
<1>. SUFFICES ASSUME IInv, NEW i \in DOMAIN trail, trail[i].reason # CRef_Undef, trail[i].level > 0
              PROVE  LET cr == trail[i].reason IN
                     /\ cr \in Live
                     /\ trail[i].lit \in {lits(cr)[k] : k \in 1 .. Len(lits(cr))}
                     /\ Len(lits(cr)) > 2 => lits(cr)[1] = trail[i].lit
                     /\ \A l \in ToSet(lits(cr)) \ {trail[i].lit} : isFalse(l) /\ place(var(l)) < i
  BY DEF ReasonsImply
<1>. DEFINE cr == trail[i].reason
<1>1. Given(cr, i) /\ LevelsInv /\ ClausesInv /\ i \in Nat
  BY TrailFacts DEF IInv, ReasonInv
<1>2. /\ cr \in DOMAIN ca /\ ca[cr].mark = 0
      /\ \E k \in DOMAIN lits(cr) : lits(cr)[k] = trail[i].lit
      /\ Len(lits(cr)) > 2 => lits(cr)[1] = trail[i].lit
      /\ \A k \in DOMAIN lits(cr) : \/ lits(cr)[k] = trail[i].lit
                                    \/ \E j \in 1 .. i - 1 : trail[j].lit = -lits(cr)[k]
  BY <1>1 DEF Given
<1>3. lits(cr) \in Seq(Lits) /\ DOMAIN lits(cr) = 1 .. Len(lits(cr))
  BY <1>1, <1>2, ClauseFacts
<1>. HIDE DEF cr
<1>4. ASSUME NEW l \in ToSet(lits(cr)), l # trail[i].lit
      PROVE  isFalse(l) /\ place(var(l)) < i
  <2>1. PICK k \in DOMAIN lits(cr) : l = lits(cr)[k]
    BY DEF ToSet
  <2>2. l \in Lits
    BY <1>3, <2>1
  <2>3. PICK j \in 1 .. i - 1 : trail[j].lit = -l
    BY <1>2, <1>4, <2>1
  <2>4. j \in DOMAIN trail /\ j < i
    BY <1>1, <2>3, TrailFacts DEF IInv
  <2>5. isFalse(l) /\ var(trail[j].lit) = var(l)
    BY <1>1, <2>2, <2>3, <2>4, FalseFacts
  <2>6. place(var(l)) = j
    BY <1>1, <2>4, <2>5, PlaceOf
  <2>. QED
    BY <2>4, <2>5, <2>6
<1>. QED
  BY <1>2, <1>3, <1>4 DEF Live, cr

\* that learnt clauses assert,
LEMMA AssertsHold == IInv => LearntAsserts
<1>. SUFFICES ASSUME IInv, pc = "learn"
              PROVE  /\ \A l \in ToSet(an.out) : isFalse(l)
                     /\ level(an.out[1]) = decisionLevel
                     /\ \A i \in 2 .. Len(an.out) : /\ level(an.out[i]) \in 1 .. level(an.out[2])
                                                    /\ level(an.out[i]) < decisionLevel
                     /\ IsInjective(an.out)
  BY DEF LearntAsserts
<1>. DEFINE out == an.out
            N == Len(out)
<1>1. /\ LevelsInv /\ OutGood(out) /\ out \in Seq(Lits) /\ decisionLevel \in Nat
      /\ \A k \in 2 .. N : level(out[k]) <= level(out[2])
  BY TrailFacts DEF IInv, MinimiseInv, ValuesInv, AnType
<1>2. /\ N >= 1 /\ VarInjective(out)
      /\ TrueAt(-out[1], Top)
      /\ \A k \in 2 .. N : TrueAt(-out[k], BelowTop)
  BY <1>1 DEF OutGood
<1>3. N \in Nat /\ DOMAIN out = 1 .. N /\ \A k \in DOMAIN out : out[k] \in Lits
  BY <1>1
<1>. HIDE DEF out, N
<1>4. ASSUME NEW k \in DOMAIN out, NEW L, TrueAt(-out[k], L)
      PROVE  isFalse(out[k]) /\ level(out[k]) \in L
  <2>1. PICK j \in DOMAIN trail : trail[j].lit = -out[k] /\ trail[j].level \in L
    BY <1>4 DEF TrueAt
  <2>. QED
    BY <1>1, <1>3, <2>1, FalseFacts
<1>5. isFalse(out[1]) /\ level(out[1]) = decisionLevel
  <2>1. 1 \in DOMAIN out
    BY <1>2, <1>3
  <2>. QED
    BY <1>2, <1>4, <2>1 DEF Top
<1>6. ASSUME NEW k \in 2 .. N
      PROVE  /\ isFalse(out[k]) /\ level(out[k]) \in 1 .. level(out[2]) /\ level(out[k]) < decisionLevel
  <2>1. k \in DOMAIN out /\ 2 \in DOMAIN out /\ 2 \in 2 .. N
    BY <1>3
  <2>2. isFalse(out[k]) /\ level(out[k]) \in BelowTop /\ level(out[2]) \in BelowTop
    BY <1>2, <1>4, <2>1
  <2>. QED
    BY <1>1, <2>2 DEF BelowTop
<1>7. \A l \in ToSet(out) : isFalse(l)
  <2>1. TAKE l \in ToSet(out)
  <2>2. PICK k \in DOMAIN out : l = out[k]
    BY DEF ToSet
  <2>3. k = 1 \/ k \in 2 .. N
    BY <1>3
  <2>. QED
    BY <1>5, <1>6, <2>2, <2>3
<1>8. IsInjective(out)
  BY <1>2 DEF IsInjective, VarInjective
<1>. QED
  BY <1>5, <1>6, <1>7, <1>8 DEF out, N

\* What is read when a literal is propagated is a list of watchers.
LEMMA ListOfType ==
    ASSUME WatchInv, NEW l \in Lits
    PROVE  ListOf(l) \in Seq([cref : CRefs, blocker : Lits])
<1>. DEFINE W == [cref : CRefs, blocker : Lits]
            a == watches[l]
            b == Pending
<1>1. a \in Seq(W) /\ b \in Seq(W)
  <2>1. a \in Seq(W) /\ visiting.todo \in Seq(W)
    BY VisitingType
  <2>. HIDE DEF W, a
  <2>2. <<>> \in Seq(W)
    OBVIOUS
  <2>. QED
    BY <2>1, <2>2 DEF Pending
<1>. HIDE DEF W, a, b
<1>2. a \o b \in Seq(W)
  BY <1>1
<1>3. CASE visiting.p = l
  <2>1. ListOf(l) = a \o b
    BY <1>3 DEF ListOf, a, b
  <2>. QED
    BY <1>2, <2>1 DEF W
<1>4. CASE visiting.p # l
  <2>1. ListOf(l) = a
    BY <1>4 DEF ListOf, a
  <2>. QED
    BY <1>1, <2>1 DEF W
<1>. QED
  BY <1>3, <1>4

\* The one place of a clause in a list that does not repeat it.
LEMMA OnePlace ==
    ASSUME NEW list, NoRepeat(list), NEW cr
    PROVE  Cardinality({i \in DOMAIN list : list[i].cref = cr}) = IF cr \in Refs(list) THEN 1 ELSE 0
<1>. DEFINE I == {i \in DOMAIN list : list[i].cref = cr}
<1>1. CASE cr \in Refs(list)
  <2>1. PICK n \in DOMAIN list : list[n].cref = cr
    BY <1>1 DEF Refs
  <2>2. I = {n}
    BY <2>1 DEF NoRepeat
  <2>. QED
    BY <1>1, <2>2, FS_Singleton
<1>2. CASE cr \notin Refs(list)
  <2>1. I = {}
    BY <1>2 DEF Refs
  <2>. QED
    BY <1>2, <2>1, FS_EmptySet
<1>. QED
  BY <1>1, <1>2

\* and that the watchers are exactly those of the first two literals.
LEMMA CoverHolds == IInv => WatchesCover
<1>. SUFFICES ASSUME IInv  PROVE WatchesCover
  OBVIOUS
<1>1. WatchInv /\ CoverInv /\ ClausesInv /\ UseInv /\ ControlInv
  BY DEF IInv
<1>2. ASSUME NEW cr \in clauses \cup learnts, NEW l \in Lits
      PROVE  Cardinality(Watching(cr, l)) = IF -l \in {lits(cr)[1], lits(cr)[2]} THEN 1 ELSE 0
  <2>. DEFINE list == IF Len(lits(cr)) = 2 THEN watchesBin[l] ELSE ListOf(l)
  <2>1. cr \in DOMAIN ca
    BY <1>1 DEF UseInv, InUse
  <2>2. lits(cr)[1] \in Lits /\ lits(cr)[2] \in Lits
    BY <1>1, <2>1, ClauseFacts
  <2>3. NoRepeat(list)
    BY <1>1 DEF WatchInv
  <2>4. ASSUME -l \in {lits(cr)[1], lits(cr)[2]}  PROVE cr \in Refs(list)
    <3>1. PICK k \in {1, 2} : -l = lits(cr)[k]
      BY <2>4
    <3>2. l = -lits(cr)[k]
      BY <3>1, LitsFacts
    <3>3. cr \in Refs(IF Len(lits(cr)) = 2 THEN watchesBin[-lits(cr)[k]] ELSE ListOf(-lits(cr)[k]))
      BY <1>1 DEF CoverInv
    <3>. QED
      BY <3>2, <3>3
  <2>5. ASSUME cr \in Refs(list)  PROVE -l \in {lits(cr)[1], lits(cr)[2]}
    <3>1. CASE Len(lits(cr)) = 2
      <4>1. PICK n \in DOMAIN watchesBin[l] : watchesBin[l][n].cref = cr
        BY <2>5, <3>1 DEF Refs
      <4>2. lits(cr) = <<-l, watchesBin[l][n].blocker>> \/ lits(cr) = <<watchesBin[l][n].blocker, -l>>
        BY <1>1, <4>1 DEF WatchInv
      <4>. QED
        BY <4>2
    <3>2. CASE Len(lits(cr)) # 2
      <4>1. cr \in Refs(ListOf(l))
        BY <2>5, <3>2
      <4>. QED
        BY <1>1, <4>1 DEF WatchInv
    <3>. QED
      BY <3>1, <3>2
  <2>6. Watching(cr, l) = {i \in DOMAIN list : list[i].cref = cr}
    BY DEF Watching
  <2>. HIDE DEF list
  <2>7. Cardinality(Watching(cr, l)) = IF cr \in Refs(list) THEN 1 ELSE 0
    BY <2>3, <2>6, OnePlace
  <2>. QED
    BY <2>4, <2>5, <2>7
<1>3. ASSUME NEW l \in Lits, NEW w \in ToSet(ListOf(l) \o watchesBin[l])
      PROVE  w.cref \in DOMAIN ca /\ (w.cref \in Live \/ l \in dirty)
  <2>. DEFINE W == [cref : CRefs, blocker : Lits]
              a == ListOf(l)
              b == watchesBin[l]
              m == Len(a)
              n == Len(b)
  <2>1. a \in Seq(W) /\ b \in Seq(W)
    BY <1>1, ListOfType DEF WatchInv, WatcherSeqs
  <2>2. /\ \A i \in DOMAIN a : a[i].cref \in DOMAIN ca /\ (ca[a[i].cref].mark = 0 \/ l \in dirty)
        /\ \A i \in DOMAIN b : b[i].cref \in DOMAIN ca /\ (ca[b[i].cref].mark = 0 \/ l \in dirty)
    BY <1>1 DEF WatchInv, Refs
  <2>3. PICK i \in DOMAIN (a \o b) : w = (a \o b)[i]
    BY DEF ToSet
  <2>4. m = Len(a) /\ n = Len(b) /\ m \in Nat /\ n \in Nat /\ DOMAIN a = 1 .. m /\ DOMAIN b = 1 .. n
    BY <2>1
  <2>. HIDE DEF W, a, b, m, n
  <2>5. /\ a \o b \in Seq(W) /\ DOMAIN (a \o b) = 1 .. m + n
        /\ \A k \in 1 .. m : (a \o b)[k] = a[k]
        /\ \A k \in m + 1 .. m + n : (a \o b)[k] = b[k - m]
    <3>1. a \in Seq(W) /\ b \in Seq(W) /\ m = Len(a) /\ n = Len(b)
      BY <2>1, <2>4
    <3>. QED
      BY <3>1, ConcatFacts
  <2>6. CASE i <= m
    <3>1. i \in 1 .. m
      BY <2>4, <2>5, <2>6
    <3>2. i \in DOMAIN a /\ w = a[i]
      BY <2>3, <2>4, <2>5, <3>1
    <3>. QED
      BY <2>2, <3>2 DEF Live
  <2>7. CASE ~ i <= m
    <3>1. i \in m + 1 .. m + n /\ i - m \in 1 .. n
      BY <2>4, <2>5, <2>7
    <3>2. i - m \in DOMAIN b /\ w = b[i - m]
      BY <2>3, <2>4, <2>5, <3>1
    <3>. QED
      BY <2>2, <3>2 DEF Live
  <2>. QED
    BY <2>6, <2>7
<1>4. pc \in {"binary", "long", "analyze", "redundant"} => dirty = {}
  BY <1>1 DEF ControlInv
<1>. QED
  BY <1>2, <1>3, <1>4 DEF WatchesCover

-----------------------------------------------------------------------------
\* The invariant holds for every script of calls.
LEMMA Invariant == Spec => []IInv
<1>1. IInv /\ [Next]_svars => IInv'
  BY IInvStep
<1>. QED
  BY IInvInit, <1>1, PTL DEF Spec

\* Every value the solver keeps is of its type, whatever is called: no literal
\* outside the variables created, no reference outside the memory, no limit
\* outside the trail.
THEOREM TypeCorrect == Spec => []SolverTypeOK
  BY Invariant, TypeHolds, PTL

\* What the solver learns, what it keeps and what it forces at level 0 follows
\* from the clauses that were added, and when it gives up (ok is false) they
\* have no model.
THEOREM Sound == Spec => []ClausesImplied
  BY Invariant, ImpliedHolds, PTL

\* The reason of a literal is a clause in use whose other literals were false
\* before it, through reductions, simplification, garbage collection and the
\* reordering of visited clauses.
THEOREM ReasonsSound == Spec => []ReasonsImply
  BY Invariant, ReasonsHold, PTL

\* What analyze, minimisation and shortening leave is a clause that is false,
\* with its first literal alone at the current level and its second at the level
\* to jump back to.
THEOREM LearntClausesAssert == Spec => []LearntAsserts
  BY Invariant, AssertsHold, PTL

\* A clause in use is watched by its first two literals, once each and by no
\* other, even between two steps of a visit, and no list refers to freed memory.
THEOREM WatchesExact == Spec => []WatchesCover
  BY Invariant, CoverHolds, PTL
=============================================================================
