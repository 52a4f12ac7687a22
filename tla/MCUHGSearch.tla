----------------------------- MODULE MCUHGSearch -----------------------------
EXTENDS UHGSearch
MCOrders == {[x \in V |-> x], [x \in V |-> N - 1 - x]}
=============================================================================
