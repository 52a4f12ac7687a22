--------------------------- MODULE MCPropOptimized ---------------------------
(* Neighbours in ascending and in descending order of their number.        *)
EXTENDS PropOptimized
MCOrders == {[x \in V |-> x], [x \in V |-> N - 1 - x]}

\* At most MaxChords chords.
CONSTANT MaxChords
SparseInit == Init /\ Cardinality(pending) <= MaxChords
SparseSpec == SparseInit /\ [][Next]_vars /\ WF_vars(Walk)
=============================================================================
