------------------------------ MODULE MCHashMap ------------------------------
(* An instance of HashMap for TLC: keys are numbers, and hashes collide.     *)
EXTENDS HashMap

(* Keys 1..4: with two or four buckets 1, 2 and 3 share a chain, which is    *)
(* in the way of 4; with eight buckets 2 has a home of its own.              *)
CollidingHash == [k \in Keys |-> <<0, 4, 8, 2>>[k]]

(* Bound: keys but the first are only stored with one value.                 *)
OneKeyVaries == op.kind = "set" /\ op.key # 1 => op.value = Zero
=============================================================================
