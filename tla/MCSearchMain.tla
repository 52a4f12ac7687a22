----------------------------- MODULE MCSearchMain -----------------------------
EXTENDS SearchMain, TLC

None == [sb |-> FALSE, dsIndex |-> -1, minDeg |-> -1, maxDeg |-> -1, chords |-> -1,
         shortest |-> 0, longest |-> 0, girth |-> -1, split |-> -1, splitLevel |-> 3,
         deg |-> -1]

Given ==
    {"dsIndex"} \X {0, 7, 99} \cup {"minDeg", "maxDeg"} \X {3} \cup
    {"chords"} \X {2, extremal} \cup {"shortest", "longest"} \X {2, 3} \cup
    {"girth"} \X {4, 5} \cup {"split"} \X {0, 107} \cup {"deg"} \X {3} \cup
    {"splitLevel"} \X {1, 2}

\* Any two options, each with and without symmetry breaking.
MCCommandLines ==
    {(a[1] :> a[2]) @@ (b[1] :> b[2]) @@ [None EXCEPT !.sb = s] :
        a \in Given, b \in Given, s \in BOOLEAN}
=============================================================================
