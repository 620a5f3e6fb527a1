----------------------------- MODULE MCMemoCache -----------------------------
(* A function that calls itself as pow of test/cache.sss does: 4 with 3 and *)
(* again with 3, 3 with 2 and 1, 2 with 1; and 1 and 5 with nothing.       *)
EXTENDS MemoCache

Recursion == [a \in Args |-> <<<<>>, <<1>>, <<2, 1>>, <<3, 3>>, <<>>>>[a]]
Descent == [a \in Args |-> <<1, 2, 3, 4, 1>>[a]]
=============================================================================
