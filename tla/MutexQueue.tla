----------------------------- MODULE MutexQueue -----------------------------
(***************************************************************************)
(* stdlib/mutex_queue.sss: a queue of two arrays with a mutex each.        *)
(* enqueue appends to the head; try_dequeue takes from the tail, which it  *)
(* refills with the whole head, reversed, when it is empty; dequeue tries  *)
(* again after a sleep.  One action per access to shared memory; `with'    *)
(* closes its locks, innermost first, however its block is left.           *)
(***************************************************************************)
EXTENDS Integers, Sequences

CONSTANTS Threads, Values, None,
  Cancellable,  \* the threads that pthread_cancel may be called on
  Consumers     \* the threads that call dequeue again and again

ASSUME MutexQueueAssumption ==
  /\ None \notin Threads \cup Values
  /\ Cancellable \subseteq Threads /\ Consumers \subseteq Threads

VARIABLES
  head, tail,            \* the arrays of the queue
  headMutex, tailMutex,  \* the thread that holds the mutex, or None
  pc,                    \* where every thread is; "idle" outside of the queue
  call,                  \* the operation it is in
  item,                  \* enqueue: its argument; else what it has read, or None
  sent,                  \* history: the values in the order of their insertion
  received               \* history: the values in the order they were taken out

vars == <<head, tail, headMutex, tailMutex, pc, call, item, sent, received>>
queue == <<head, tail, sent, received>>
mutexes == <<headMutex, tailMutex>>

Init ==
  /\ head = <<>> /\ tail = <<>>
  /\ headMutex = None /\ tailMutex = None
  /\ pc = [t \in Threads |-> "idle"]
  /\ call = [t \in Threads |-> "none"]
  /\ item = [t \in Threads |-> None]
  /\ sent = <<>> /\ received = <<>>

Goto(t, from, to) == pc[t] = from /\ pc' = [pc EXCEPT ![t] = to]

-----------------------------------------------------------------------------
(* enqueue *)

(* Every value is enqueued once. *)
Enqueue(t, v) ==
  /\ Goto(t, "idle", "lock head to insert")
  /\ \A i \in DOMAIN sent : sent[i] # v
  /\ \A u \in Threads : item[u] # v
  /\ call' = [call EXCEPT ![t] = "enqueue"]
  /\ item' = [item EXCEPT ![t] = v]
  /\ UNCHANGED <<queue, mutexes>>

LockToInsert(t) ==
  /\ Goto(t, "lock head to insert", "insert")
  /\ headMutex = None /\ headMutex' = t
  /\ UNCHANGED <<queue, tailMutex, call, item>>

Insert(t) ==
  /\ Goto(t, "insert", "unlock head")
  /\ head' = Append(head, item[t]) /\ sent' = Append(sent, item[t])
  /\ UNCHANGED <<tail, received, mutexes, call, item>>

-----------------------------------------------------------------------------
(* try_dequeue and dequeue *)

Dequeue(t, operation) ==
  /\ Goto(t, "idle", "lock tail")
  /\ call' = [call EXCEPT ![t] = operation]
  /\ UNCHANGED <<queue, mutexes, item>>

LockTail(t) ==
  /\ Goto(t, "lock tail", "look at tail")
  /\ tailMutex = None /\ tailMutex' = t
  /\ UNCHANGED <<queue, headMutex, call, item>>

LookAtTail(t) ==
  /\ Goto(t, "look at tail", IF tail = <<>> THEN "lock head" ELSE "read")
  /\ UNCHANGED <<queue, mutexes, call, item>>

(* Bug: the head is looked at without its mutex. *)
BugLockHead(t) ==
  /\ Goto(t, "lock head", "look at head")
  /\ headMutex' = t
  /\ UNCHANGED <<queue, tailMutex, call, item>>

LockHead(t) ==
  /\ Goto(t, "lock head", "look at head")
  /\ headMutex = None /\ headMutex' = t
  /\ UNCHANGED <<queue, tailMutex, call, item>>

LookAtHead(t) ==
  /\ Goto(t, "look at head", IF head = <<>> THEN "unlock head, empty" ELSE "refill")
  /\ UNCHANGED <<queue, mutexes, call, item>>

(* Bug: the slice keeps the order. *)
BugReversed(s) == s

Reversed(s) == [i \in 1..Len(s) |-> s[Len(s) + 1 - i]]

(* Bug: the head is cleared before it is copied. *)
BugRefill(t) ==
  /\ Goto(t, "refill", "clear head")
  /\ tail' = <<>>
  /\ UNCHANGED <<head, sent, received, mutexes, call, item>>

(* q.tail = q.head[.. by -1] *)
Refill(t) ==
  /\ Goto(t, "refill", "clear head")
  /\ tail' = Reversed(head)
  /\ UNCHANGED <<head, sent, received, mutexes, call, item>>

ClearHead(t) ==
  /\ Goto(t, "clear head", "unlock head")
  /\ head' = <<>>
  /\ UNCHANGED <<tail, sent, received, mutexes, call, item>>

(* val := q.tail[1] *)
Read(t) ==
  /\ Goto(t, "read", "pop")
  /\ item' = [item EXCEPT ![t] = tail[1]]
  /\ UNCHANGED <<queue, mutexes, call>>

(* Bug: the tail is left as it is. *)
BugPop(t) ==
  /\ Goto(t, "pop", "unlock tail")
  /\ received' = Append(received, item[t])
  /\ UNCHANGED <<head, tail, sent, mutexes, call, item>>

(* q.tail = q.tail[2..] *)
Pop(t) ==
  /\ Goto(t, "pop", "unlock tail")
  /\ tail' = Tail(tail) /\ received' = Append(received, item[t])
  /\ UNCHANGED <<head, sent, mutexes, call, item>>

-----------------------------------------------------------------------------
(* The end of both. *)

UnlockHead(t) ==
  /\ \/ Goto(t, "unlock head", IF call[t] = "enqueue" THEN "return" ELSE "look at tail")
     \/ Goto(t, "unlock head, empty", "unlock tail")
  /\ headMutex' = None
  /\ UNCHANGED <<queue, tailMutex, call, item>>

(* dequeue sleeps when there was nothing. *)
UnlockTail(t) ==
  /\ Goto(t, "unlock tail", IF item[t] = None /\ call[t] = "dequeue" THEN "sleep" ELSE "return")
  /\ tailMutex' = None
  /\ UNCHANGED <<queue, headMutex, call, item>>

WakeUp(t) ==
  /\ Goto(t, "sleep", "lock tail")
  /\ UNCHANGED <<queue, mutexes, call, item>>

Return(t) ==
  /\ Goto(t, "return", "idle")
  /\ call' = [call EXCEPT ![t] = "none"]
  /\ item' = [item EXCEPT ![t] = None]
  /\ UNCHANGED <<queue, mutexes>>

(* Bug: a thread that waits for a mutex can be cancelled, too. *)
BugCancel(t) ==
  /\ t \in Cancellable
  /\ Goto(t, "sleep", "cancelled") \/ Goto(t, "lock head to insert", "cancelled")
  /\ UNCHANGED <<queue, mutexes, call, item>>

(* A cancelled thread ends at usleep, the only cancellation point here. *)
Cancel(t) ==
  /\ t \in Cancellable /\ Goto(t, "sleep", "cancelled")
  /\ UNCHANGED <<queue, mutexes, call, item>>

-----------------------------------------------------------------------------
Lock(t) == LockToInsert(t) \/ LockTail(t) \/ LockHead(t)

Step(t) ==
  \/ Insert(t) \/ LookAtTail(t) \/ LookAtHead(t) \/ Refill(t) \/ ClearHead(t)
  \/ Read(t) \/ Pop(t) \/ UnlockHead(t) \/ UnlockTail(t) \/ WakeUp(t) \/ Return(t)

Next ==
  \E t \in Threads :
    \/ \E v \in Values : Enqueue(t, v)
    \/ Dequeue(t, "try_dequeue") \/ Dequeue(t, "dequeue")
    \/ Lock(t) \/ Step(t) \/ Cancel(t)

Spec == Init /\ [][Next]_vars

(* A thread inside of the queue goes on; one that waits for a mutex that   *)
(* is free again and again gets it; consumers call dequeue when they can.  *)
Fairness ==
  /\ \A t \in Threads : WF_vars(Step(t)) /\ SF_vars(Lock(t))
  /\ \A t \in Consumers : WF_vars(Dequeue(t, "dequeue"))

FairSpec == Spec /\ Fairness

-----------------------------------------------------------------------------
HeadSection ==
  {"insert", "unlock head", "look at head", "refill", "clear head", "unlock head, empty"}
Outside == {"idle", "lock head to insert", "lock tail", "return", "sleep", "cancelled"}
TailSection == {"look at tail", "lock head", "read", "pop", "unlock tail"}

TypeOK ==
  /\ head \in Seq(Values) /\ tail \in Seq(Values) /\ sent \in Seq(Values)
  /\ received \in Seq(Values)
  /\ headMutex \in Threads \cup {None} /\ tailMutex \in Threads \cup {None}
  /\ pc \in [Threads -> HeadSection \cup TailSection \cup Outside]
  /\ call \in [Threads -> {"none", "enqueue", "try_dequeue", "dequeue"}]
  /\ item \in [Threads -> Values \cup {None}]

HoldsHead(t) == pc[t] \in HeadSection
HoldsTail(t) == pc[t] \in TailSection \/ (pc[t] \in HeadSection /\ call[t] # "enqueue")

(* A thread is in the code between lock and close of a mutex exactly when  *)
(* it holds the mutex; a thread that returns, sleeps or ends holds none.   *)
LocksMatch ==
  \A t \in Threads : /\ HoldsHead(t) <=> headMutex = t
                     /\ HoldsTail(t) <=> tailMutex = t

Elements(s) == {s[i] : i \in DOMAIN s}
Clearing == \E t \in Threads : pc[t] = "clear head"

(* A value is in the queue, or was taken out, once; never both or neither. *)
(* While a thread is between refill and clearing, head and tail overlap.   *)
Conserved ==
  /\ Elements(sent) = Elements(received) \cup Elements(tail) \cup Elements(head)
  /\ Elements(received) \cap (Elements(tail) \cup Elements(head)) = {}
  /\ ~Clearing => Elements(tail) \cap Elements(head) = {}

Earlier(v, w) == \E i, j \in DOMAIN sent : i < j /\ sent[i] = v /\ sent[j] = w

(* The order of the queue: a batch that was moved to the tail comes out    *)
(* before what is enqueued later, but the newest value of it first.        *)
BatchOrder ==
  /\ \A i, j \in DOMAIN head : i < j => Earlier(head[i], head[j])
  /\ \A i, j \in DOMAIN tail : i < j => Earlier(tail[j], tail[i])
  /\ ~Clearing => \A i \in DOMAIN tail, j \in DOMAIN head : Earlier(tail[i], head[j])

(* An enqueue returns, even when threads are cancelled; a value that was   *)
(* enqueued is taken out in the end.                                       *)
EnqueueReturns == \A t \in Threads : call[t] = "enqueue" ~> call[t] = "none"
Delivered == \A v \in Values : v \in Elements(sent) ~> v \in Elements(received)

(* The queue is a channel. *)
Abstract == INSTANCE Channel WITH sent <- Elements(sent), received <- received
ImplementsChannel == Abstract!Spec
=============================================================================
