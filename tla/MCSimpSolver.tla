----------------------------- MODULE MCSimpSolver -----------------------------
(***************************************************************************)
(* Instances of SimpSolver, with the users of simp/Main.cc (eliminate,     *)
(* then solve) and of an incremental solver (variables used later are      *)
(* frozen).                                                                *)
(***************************************************************************)
EXTENDS SimpSolver

NVars(n) == [i \in 1 .. n |-> [op |-> "newVar", sign |-> i % 2 = 0, dvar |-> TRUE]]
Clause(ls) == [op |-> "clause", lits |-> ls]
Adds(F) == [i \in DOMAIN F |-> Clause(F[i])]
Solves(as, simp, off) == [op |-> "solve", assumps |-> as, do_simp |-> simp, turn_off |-> off]
Elim(off) == [op |-> "eliminate", turn_off |-> off]
Freeze(v, b) == [op |-> "freeze", v |-> v, b |-> b]
Simp == [op |-> "simplify"]
Interrupt == [op |-> "interrupt"]

Odd(a, b, c) == <<<<a, b, c>>, <<a, -b, -c>>, <<-a, b, -c>>, <<-a, -b, c>>>>

\* Two sums share variables; everything is eliminated, an interrupt comes at any
\* time after that.  Elimination finds no units here.
Sums == NVars(4) \o Adds(Odd(1, 2, 3) \o Odd(1, 2, 4)) \o <<Elim(TRUE), Interrupt, Solves(<<>>, TRUE, FALSE)>>

\* The same with a third sum that contradicts them; it is added in two calls, and
\* its variables are frozen in between.
SumsInParts ==
    NVars(4) \o Adds(Odd(1, 2, 3) \o Odd(1, 2, 4))
    \o <<Freeze(3, TRUE), Freeze(4, TRUE), Elim(FALSE), Clause(<<3, 4>>), Solves(<<3>>, TRUE, FALSE),
         Freeze(4, FALSE), Clause(<<-3, -4>>), Solves(<<>>, TRUE, TRUE)>>

\* A resolvent of four literals is added and shortened by units that follow.
Units == NVars(4)
    \o Adds(<<<<1, 2, 3, 4>>, <<-1, 2, 3, 4>>, <<1, -2, 3, 4>>, <<-1, -2, 3, 4>>, <<-3>>, <<-4>>>>)
    \o <<Elim(TRUE), Solves(<<>>, TRUE, FALSE)>>

\* Formulas of mixed lengths, in which clauses are subsumed, strengthened and
\* shortened to units while variables go.
Mixed == NVars(5)
    \o Adds(<<<<4, 3>>, <<-3, -4, -2>>, <<5, 1>>, <<3, 5, -2>>, <<1, 4, -5, -3>>, <<2, -4>>,
              <<-3, -1, -5>>, <<1, -2, -4, -3>>>>)
    \o <<Elim(TRUE), Solves(<<>>, TRUE, FALSE)>>
MixedFrozen == NVars(5)
    \o Adds(<<<<2, 3>>, <<-2, -3, 4>>, <<1, 3>>, <<-3, -1, -2>>, <<-3, 4>>, <<3, -5, 2>>, <<4, -2, -3>>,
              <<-3, -4, 5>>, <<3, 5>>, <<4, -5, 2>>, <<4, 2, -1>>, <<-2, 4, -1, 3>>>>)
    \o <<Freeze(5, TRUE), Freeze(4, TRUE), Solves(<<>>, TRUE, FALSE), Simp, Solves(<<-5>>, TRUE, TRUE)>>
MixedLater == NVars(5)
    \o Adds(<<<<-4, -1, 2>>, <<-2, -3, -1, 5>>, <<1, -3, 4>>, <<4, 1, 3, 2>>, <<-1, -5>>, <<-4, -5>>,
              <<-5, 2, -3, 1>>, <<-3, -4>>, <<4, -5, -1>>, <<-1, -5>>>>)
    \o <<Freeze(4, TRUE), Solves(<<>>, TRUE, FALSE), Clause(<<4>>), Clause(<<-4>>), Clause(<<4>>),
         Freeze(4, FALSE), Solves(<<>>, TRUE, FALSE)>>

\* Units are found in a formula with a long clause; an interrupt comes at any time.
Lost == NVars(6)
    \o Adds(<<<<1, -3, -4, 5, 6>>, <<-1, 6>>, <<-5, 6>>, <<3>>, <<4>>>>)
    \o <<Elim(TRUE), Interrupt, Solves(<<>>, FALSE, FALSE)>>
InterruptedScripts == {Lost}

MCScripts == {Sums, SumsInParts, Units, Mixed, MixedFrozen, MixedLater}
=============================================================================
