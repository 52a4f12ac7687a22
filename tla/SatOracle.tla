------------------------------- MODULE SatOracle -------------------------------
(***************************************************************************)
(* What a SAT solver promises: clauses are added between the calls, and a  *)
(* call under assumptions is answered by a model of all of them, or by a   *)
(* clause over the negated assumptions that follows from the formula (the  *)
(* empty clause if the formula has no model), or not at all when the user  *)
(* has interrupted it.                                                     *)
(***************************************************************************)
EXTENDS Cnf

VARIABLES
    formula,        \* the clauses added so far
    assumed,        \* the assumptions of the last call
    answer,         \* "none", "pending", "sat", "unsat" or "unknown"
    model,          \* the literals that are true in the model found
    core,           \* the clause that excludes the assumptions
    interrupted

ovars == <<formula, assumed, answer, model, core, interrupted>>

Init ==
    /\ formula = {} /\ assumed = {} /\ answer = "none"
    /\ model = {} /\ core = {} /\ interrupted = FALSE

Add ==
    /\ answer # "pending"
    /\ \E c \in formula' \ formula : formula' = formula \cup {c}
    /\ UNCHANGED <<assumed, answer, model, core, interrupted>>

Ask ==
    /\ answer # "pending" /\ answer' = "pending"
    /\ model' = {} /\ core' = {}
    /\ UNCHANGED <<formula, interrupted>>

Interrupt == interrupted' = TRUE /\ UNCHANGED <<formula, assumed, answer, model, core>>

\* An assignment, perhaps a partial one, that satisfies formula and assumptions.
AnswerSat ==
    /\ answer' = "sat"
    /\ \A l \in model' : -l \notin model'
    /\ \A c \in formula : c \cap model' # {}
    /\ assumed \subseteq model'
    /\ core' = core

AnswerUnsat ==
    /\ answer' = "unsat"
    /\ \A l \in core' : -l \in assumed
    /\ Implies(formula, core')
    /\ model' = model

AnswerUnknown ==
    /\ interrupted
    /\ answer' = "unknown" /\ model' = model /\ core' = core

Answer ==
    /\ answer = "pending"
    /\ AnswerSat \/ AnswerUnsat \/ AnswerUnknown
    /\ UNCHANGED <<formula, assumed, interrupted>>

Spec == Init /\ [][Add \/ Ask \/ Interrupt \/ Answer]_ovars
=============================================================================
