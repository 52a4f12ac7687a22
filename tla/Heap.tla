--------------------------------- MODULE Heap ---------------------------------
(***************************************************************************)
(* The binary heap of variables, least cost first: a sequence, in which    *)
(* the children of the i-th element are the 2i-th and the next.  indices   *)
(* is its inverse.                                                         *)
(***************************************************************************)
EXTENDS Integers, Sequences

inHeap(h, x) == \E i \in DOMAIN h : h[i] = x
indices(h, x) == CHOOSE i \in DOMAIN h : h[i] = x
HeapOrdered(h, cost) == \A i \in 2 .. Len(h) : cost[h[i \div 2]] <= cost[h[i]]

\* i, its parent and so on to the root.
PathTo(i) == {i \div 2 ^ k : k \in 0 .. i} \ {0}

\* The element at i rises while its parent costs more.
percolateUp(h, i, cost) ==
    LET place[j \in 1 .. i] ==
            IF j > 1 /\ cost[h[i]] < cost[h[j \div 2]] THEN place[j \div 2] ELSE j
        top == place[i]
    IN [j \in DOMAIN h |-> IF j = top THEN h[i]
                           ELSE IF j \in PathTo(i) /\ j > top THEN h[j \div 2] ELSE h[j]]

\* The cheaper child; the left one if they cost the same.
Child(h, j, cost) ==
    IF 2 * j < Len(h) /\ cost[h[2 * j + 1]] < cost[h[2 * j]] THEN 2 * j + 1 ELSE 2 * j

\* The element at i sinks while a child costs less.
percolateDown(h, i, cost) ==
    LET place[j \in DOMAIN h] ==
            IF 2 * j <= Len(h) /\ cost[h[Child(h, j, cost)]] < cost[h[i]]
            THEN place[Child(h, j, cost)] ELSE j
        bottom == place[i]
    IN [j \in DOMAIN h |-> IF j = bottom THEN h[i]
                           ELSE IF j \in PathTo(bottom) /\ j >= i THEN h[Child(h, j, cost)] ELSE h[j]]

increase(h, x, cost) == percolateDown(h, indices(h, x), cost)
insert(h, x, cost) == percolateUp(Append(h, x), Len(h) + 1, cost)
update(h, x, cost) ==
    IF inHeap(h, x) THEN increase(percolateUp(h, indices(h, x), cost), x, cost)
    ELSE insert(h, x, cost)

\* The heap without its first element; the last one sinks from the root.
removeMin(h, cost) ==
    IF Len(h) <= 2 THEN Tail(h)
    ELSE percolateDown([j \in 1 .. Len(h) - 1 |-> IF j = 1 THEN h[Len(h)] ELSE h[j]], 1, cost)
=============================================================================
