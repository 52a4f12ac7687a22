----------------------------- MODULE BoundedQueue -----------------------------
(***************************************************************************)
(* The queue over whose elements the restarts take averages: it holds the  *)
(* last maxsize values pushed since it was cleared.  The circular buffer   *)
(* (first, last, queuesize, sumofqueue) is represented by the sequence of  *)
(* the values, oldest first.                                               *)
(***************************************************************************)
EXTENDS Integers, Sequences, Folds

push(q, x, maxsize) == Append(IF Len(q) = maxsize THEN Tail(q) ELSE q, x)
isvalid(q, maxsize) == Len(q) = maxsize
fastclear == <<>>
sumofqueue(q) == MapThenFoldSet(LAMBDA a, b : a + b, 0, LAMBDA i : q[i],
                                LAMBDA S : CHOOSE i \in S : TRUE, DOMAIN q)
getavg(q) == sumofqueue(q) \div Len(q)
=============================================================================
