---------------------------- MODULE SetEnumeration ----------------------------
(***************************************************************************)
(* What an exhaustive search promises: it reports the members of a set one *)
(* by one, none of them twice, and stops when it has reported them all.    *)
(* The set is an input, on which the search has no influence.              *)
(***************************************************************************)
EXTENDS Naturals

VARIABLES sought, found, count, finished

Init == found = {} /\ count = 0 /\ finished = FALSE

Report ==
    /\ ~ finished
    /\ \E g \in found' \ found : g \in sought /\ found' = found \cup {g}
    /\ count' = count + 1
    /\ UNCHANGED finished

Finish ==
    /\ ~ finished /\ finished' = TRUE
    /\ found = sought
    /\ UNCHANGED <<found, count>>

Spec == Init /\ [][Report \/ Finish]_<<found, count, finished>>
=============================================================================
