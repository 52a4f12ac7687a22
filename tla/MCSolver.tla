------------------------------- MODULE MCSolver -------------------------------
(***************************************************************************)
(* Instances of Solver: what the users of the model call is fixed by       *)
(* scripts, what the solver decides, sorts and pops is left open.          *)
(***************************************************************************)
EXTENDS Solver

Var(sign) == [op |-> "newVar", sign |-> sign, dvar |-> TRUE]
NVars(n) == [i \in 1 .. n |-> Var(i % 2 = 0)]
Clause(ls) == [op |-> "clause", lits |-> ls]
Solve(as) == [op |-> "solve", assumps |-> as, do_simp |-> FALSE, turn_off |-> FALSE]
Simp == [op |-> "simplify"]
Interrupt == [op |-> "interrupt"]

\* All eight clauses over three variables, one after the other; no model is left.
Cube == NVars(3) \o <<Clause(<<1, 2, 3>>), Clause(<<1, 2, -3>>), Clause(<<1, -2, 3>>),
                      Clause(<<1, -2, -3>>), Solve(<<-1>>), Clause(<<-1, 2, 3>>), Clause(<<-1, 2, -3>>),
                      Clause(<<-1, -2, 3>>), Clause(<<-1, -2, -3>>), Solve(<<>>)>>

\* x1 + x2 + x3 and x1 + x2 + x4 are odd, x3 + x4 is odd: no model, and the
\* clauses of the last sum are binary.  A call under assumptions comes first.
Odd3(a, b, c) == <<Clause(<<a, b, c>>), Clause(<<a, -b, -c>>), Clause(<<-a, b, -c>>),
                   Clause(<<-a, -b, c>>)>>
Parity == NVars(4) \o Odd3(1, 2, 3) \o Odd3(1, 2, 4) \o <<Solve(<<3>>), Clause(<<3, 4>>),
          Interrupt, Clause(<<-3, -4>>), Solve(<<2, 2, -3>>), Solve(<<>>)>>

\* Three pigeons, two holes: p is in a hole, two are never in the same.
In(p, h) == 2 * p + h - 2
Pigeons == NVars(6) \o [p \in 1 .. 3 |-> Clause(<<In(p, 1), In(p, 2)>>)]
           \o <<Clause(<<-1, -3>>), Clause(<<-1, -5>>), Clause(<<-3, -5>>), Solve(<<1, 4, 5>>),
                Clause(<<-2, -4>>), Clause(<<-2, -6>>), Simp, Clause(<<-4, -6>>), Solve(<<>>)>>

\* Two formulas over six variables, with no model and with one model, that take
\* several conflicts, restarts and reductions to decide.
Adds(F) == [i \in DOMAIN F |-> Clause(F[i])]
First == <<
    <<6, 3, -2>>, <<-3, -4, 5>>, <<-2, 4, 1>>, <<3, -6>>, <<-3, 6>>, <<1, -6>>,
    <<-3, -6, -5>>, <<-1, 3, -4>>, <<-2, 6, 4>>, <<4, -6, -1>>, <<-4, 1, 2>>, <<-1, 4, -3>>,
    <<6, -2, 5>>, <<-3, 6, 1>>, <<5, -6, -4>>, <<4, 5, 1>>, <<1, 6, -4>>, <<5, 1, -4>>,
    <<5, -1, -6>>, <<-4, 5, -3>>, <<-5, 2, 6>>, <<-3, 5, -2>>, <<-3, 2, 1>>, <<6, -5, 3>>,
    <<2, 1>>, <<-2, -4, 1>>, <<3, 1, -5>>>>
Second == <<
    <<5, 4>>, <<-4, -5, -6>>, <<4, 2, 3>>, <<6, -1, -4>>, <<-2, -6, 3>>, <<-5, -6>>,
    <<5, 3, -2, -4>>, <<3, -5>>, <<6, -2, 1>>, <<2, 6>>, <<1, 5>>, <<-4, -6, -3, 2>>,
    <<3, 6, 4>>, <<5, -2, 1>>, <<-3, 1, -4, 2>>, <<6, -2, -1, 5>>, <<-1, -4, 3>>,
    <<-4, 1, 5, -6>>, <<-3, -5, 6>>, <<-3, -1, 2, -6>>, <<3, 1, -5>>, <<1, -5, 4>>,
    <<1, -2>>, <<1, -6>>, <<3, 4>>, <<6, 3, 5, -4>>, <<-6, 1, -2>>, <<-4, -5, -1>>>>

\* The clauses come at once, or in two parts with a call under assumptions between
\* them and an interrupt at some time of the last call.
AtOnce(F) == NVars(6) \o Adds(F) \o <<Solve(<<>>), Interrupt>>
InParts == NVars(6) \o Adds(SubSeq(Second, 1, 17)) \o <<Solve(<<2, -5>>), Clause(<<-5>>)>>
           \o Adds(SubSeq(Second, 18, Len(Second))) \o <<Solve(<<>>), Interrupt>>

MCScripts == {Cube, Parity, Pigeons, AtOnce(First), AtOnce(Second), InParts}
=============================================================================
