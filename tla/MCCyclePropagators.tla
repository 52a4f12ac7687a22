-------------------------- MODULE MCCyclePropagators --------------------------
EXTENDS CyclePropagators
MCOrders == {[x \in V |-> x], [x \in V |-> N - 1 - x]}

\* At least two chords, or one graph of each class.
MCPosted == {minNumberOfChords(newModel, 2).allowed, symmetryBreaking(newModel).allowed}
=============================================================================
