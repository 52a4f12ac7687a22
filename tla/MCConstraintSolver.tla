-------------------------- MODULE MCConstraintSolver --------------------------
(* Strings of a graph of three vertices, two permuted, and one of constants. *)
EXTENDS ConstraintSolver
MCArrays == {<<2, 3, 4>>, <<3, 2, 4>>, <<4, 3, -2>>}
=============================================================================
