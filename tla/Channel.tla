------------------------------- MODULE Channel -------------------------------
(***************************************************************************)
(* What a queue between threads promises: a value that was enqueued is     *)
(* dequeued at most once, and none comes out that was not put in.  The     *)
(* order is left open, see MutexQueue.                                     *)
(***************************************************************************)
EXTENDS Sequences

CONSTANT Values

VARIABLES
  sent,     \* the values enqueued so far
  received  \* the values dequeued so far, in this order

Init == sent = {} /\ received = <<>>

Send(v) == v \notin sent /\ sent' = sent \cup {v} /\ UNCHANGED received
Receive(v) ==
  /\ v \in sent /\ \A i \in DOMAIN received : received[i] # v
  /\ received' = Append(received, v)
  /\ UNCHANGED sent

Next == \E v \in Values : Send(v) \/ Receive(v)

Spec == Init /\ [][Next]_<<sent, received>>
=============================================================================
