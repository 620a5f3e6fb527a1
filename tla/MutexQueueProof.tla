--------------------------- MODULE MutexQueueProof ---------------------------
(***************************************************************************)
(* For any number of threads and values: the locks of MutexQueue match the *)
(* code that is running, no value is lost or duplicated, the two stacks    *)
(* keep the order of the values, and the queue implements Channel.  The    *)
(* invariant below adds to the properties what a thread knows about the    *)
(* arrays between two accesses, while it holds a                           *)
(* mutex, and that the values it is about to insert are new.               *)
(***************************************************************************)
EXTENDS MutexQueue, TLAPS

Inserting == {"lock head to insert", "insert"}
Trying ==
  {"lock tail", "look at tail", "lock head", "look at head", "refill", "clear head",
   "unlock head, empty", "read", "pop", "unlock tail", "sleep"}

CallsMatch ==
  \A t \in Threads : /\ pc[t] \in Inserting => call[t] = "enqueue"
                     /\ pc[t] \in Trying => call[t] # "enqueue"

(* What a thread that holds tail_mutex knows about the tail. *)
TailKnown ==
  \A t \in Threads : /\ pc[t] \in {"lock head", "look at head", "refill"} => tail = <<>>
                     /\ pc[t] = "clear head" => tail = Reversed(head)
                     /\ pc[t] \in {"read", "pop"} => tail # <<>>
                     /\ pc[t] = "pop" => item[t] = tail[1]

ItemsNew ==
  \A t \in Threads : pc[t] \in Inserting =>
    /\ item[t] \in Values /\ item[t] \notin Elements(sent)
    /\ \A u \in Threads \ {t} : pc[u] \in Inserting => item[u] # item[t]

Injective(s) == \A i, j \in DOMAIN s : s[i] = s[j] => i = j
NoRepeats == Injective(head) /\ Injective(tail)

LockInv == TypeOK /\ LocksMatch /\ CallsMatch
IInv == LockInv /\ TailKnown /\ ItemsNew /\ NoRepeats /\ Conserved

-----------------------------------------------------------------------------
(* Sequences: what appending, reversing and cutting do to the elements.    *)

LEMMA Appended ==
  ASSUME NEW S, NEW s \in Seq(S), NEW v \in S
  PROVE  /\ Append(s, v) \in Seq(S)
         /\ Elements(Append(s, v)) = Elements(s) \cup {v}
         /\ Injective(s) /\ v \notin Elements(s) => Injective(Append(s, v))
<1>1. /\ Append(s, v) \in Seq(S) /\ DOMAIN s = 1..Len(s) /\ Len(s) \in Nat
      /\ DOMAIN Append(s, v) = 1..Len(s) + 1
      /\ \A i \in 1..Len(s) : Append(s, v)[i] = s[i]
      /\ Append(s, v)[Len(s) + 1] = v
  OBVIOUS
<1>2. 1..Len(s) + 1 = (1..Len(s)) \cup {Len(s) + 1}
  BY <1>1
<1>3. Elements(Append(s, v)) = Elements(s) \cup {v}
  BY <1>1, <1>2 DEF Elements
<1>4. Injective(s) /\ v \notin Elements(s) => Injective(Append(s, v))
  BY <1>1, <1>2 DEF Elements, Injective
<1> QED BY <1>1, <1>3, <1>4

LEMMA Turned ==
  ASSUME NEW S, NEW s \in Seq(S)
  PROVE  /\ Reversed(s) \in Seq(S)
         /\ Elements(Reversed(s)) = Elements(s)
         /\ Injective(s) => Injective(Reversed(s))
         /\ s # <<>> => Reversed(s) # <<>>
<1> DEFINE n == Len(s)
<1>1. n \in Nat /\ DOMAIN s = 1..n /\ \A i \in 1..n : s[i] \in S
  OBVIOUS
<1>2. \A i \in 1..n : n + 1 - i \in 1..n /\ n + 1 - (n + 1 - i) = i
  BY <1>1
<1>3. /\ DOMAIN Reversed(s) = 1..n
      /\ \A i \in 1..n : Reversed(s)[i] = s[n + 1 - i]
  BY DEF Reversed
<1>4. Reversed(s) \in Seq(S) /\ Len(Reversed(s)) = n
  <2>1. Reversed(s) \in [1..n -> S]
    BY <1>1, <1>2 DEF Reversed
  <2> QED BY <2>1, <1>1, <1>3
<1>5. Elements(Reversed(s)) = Elements(s)
  <2>1. \A i \in 1..n : s[i] = Reversed(s)[n + 1 - i]
    BY <1>2, <1>3
  <2> QED BY <2>1, <1>1, <1>2, <1>3 DEF Elements
<1>6. Injective(s) => Injective(Reversed(s))
  <2> SUFFICES ASSUME Injective(s), NEW i \in 1..n, NEW j \in 1..n,
                      Reversed(s)[i] = Reversed(s)[j]
               PROVE  i = j
    BY <1>3 DEF Injective
  <2>1. n + 1 - i = n + 1 - j
    BY <1>1, <1>2, <1>3 DEF Injective
  <2> QED BY <2>1, <1>1
<1>7. s # <<>> => Reversed(s) # <<>>
  BY <1>1, <1>4
<1> QED BY <1>4, <1>5, <1>6, <1>7

LEMMA Beheaded ==
  ASSUME NEW S, NEW s \in Seq(S), s # <<>>, Injective(s)
  PROVE  /\ Tail(s) \in Seq(S) /\ s[1] \in S /\ s[1] \in Elements(s)
         /\ Elements(Tail(s)) = Elements(s) \ {s[1]}
         /\ Injective(Tail(s))
<1> DEFINE n == Len(s)
<1>1. /\ n \in Nat \ {0} /\ DOMAIN s = 1..n /\ s[1] \in S
      /\ Tail(s) \in Seq(S) /\ Len(Tail(s)) = n - 1 /\ DOMAIN Tail(s) = 1..n - 1
      /\ \A i \in 1..n - 1 : Tail(s)[i] = s[i + 1]
  OBVIOUS
<1>2. \A i \in 1..n : i = 1 \/ (i - 1 \in 1..n - 1 /\ s[i] = Tail(s)[i - 1])
  <2> SUFFICES ASSUME NEW i \in 1..n, i # 1
               PROVE  i - 1 \in 1..n - 1 /\ s[i] = Tail(s)[i - 1]
    OBVIOUS
  <2>1. i - 1 \in 1..n - 1 /\ (i - 1) + 1 = i
    BY <1>1
  <2> QED BY <2>1, <1>1
<1>3. \A i \in 1..n - 1 : i + 1 \in 1..n /\ s[i + 1] # s[1]
  BY <1>1 DEF Injective
<1>4. Elements(Tail(s)) = Elements(s) \ {s[1]}
  <2>1. Elements(Tail(s)) \subseteq Elements(s) \ {s[1]}
    BY <1>1, <1>3 DEF Elements
  <2>2. Elements(s) \ {s[1]} \subseteq Elements(Tail(s))
    <3> SUFFICES ASSUME NEW i \in 1..n, s[i] # s[1]
                 PROVE  s[i] \in Elements(Tail(s))
      BY <1>1 DEF Elements
    <3>1. i - 1 \in DOMAIN Tail(s) /\ s[i] = Tail(s)[i - 1]
      BY <1>1, <1>2
    <3> QED BY <3>1 DEF Elements
  <2> QED BY <2>1, <2>2
<1>5. Injective(Tail(s))
  <2> SUFFICES ASSUME NEW i \in 1..n - 1, NEW j \in 1..n - 1, Tail(s)[i] = Tail(s)[j]
               PROVE  i = j
    BY <1>1 DEF Injective
  <2>1. i + 1 = j + 1
    BY <1>1, <1>3 DEF Injective
  <2> QED BY <2>1, <1>1
<1>6. s[1] \in Elements(s)
  BY <1>1 DEF Elements
<1> QED BY <1>1, <1>4, <1>5, <1>6

LEMMA FirstItem ==
  ASSUME NEW S, NEW s \in Seq(S), s # <<>>
  PROVE  s[1] \in S
OBVIOUS

LEMMA NoElements ==
  ASSUME NEW S
  PROVE  <<>> \in Seq(S) /\ Elements(<<>>) = {} /\ Injective(<<>>)
<1>1. <<>> \in Seq(S)
  OBVIOUS
<1>2. Elements(<<>>) = {} /\ Injective(<<>>)
  BY DEF Elements, Injective
<1> QED BY <1>1, <1>2

-----------------------------------------------------------------------------
(* The invariant holds initially. *)

LEMMA InitInv == Init => IInv
<1> SUFFICES ASSUME Init PROVE IInv
  OBVIOUS
<1> USE DEF Init
<1>1. TypeOK
  BY DEF TypeOK, Outside
<1>2. LocksMatch /\ CallsMatch
  BY MutexQueueAssumption
     DEF LocksMatch, HoldsHead, HoldsTail, HeadSection, TailSection, CallsMatch, Inserting, Trying
<1>3. TailKnown /\ ItemsNew
  BY DEF TailKnown, ItemsNew, Inserting
<1>4. NoRepeats /\ Conserved
  BY NoElements DEF NoRepeats, Conserved
<1> QED BY <1>1, <1>2, <1>3, <1>4 DEF IInv, LockInv

-----------------------------------------------------------------------------
(* Every step is one of a thread's. *)

Moves(t) ==
  \/ \E v \in Values : Enqueue(t, v)
  \/ Dequeue(t, "try_dequeue") \/ Dequeue(t, "dequeue") \/ LockToInsert(t) \/ LockTail(t)
  \/ LockHead(t) \/ Insert(t) \/ LookAtTail(t) \/ LookAtHead(t) \/ Refill(t)
  \/ ClearHead(t) \/ Read(t) \/ Pop(t) \/ UnlockHead(t) \/ UnlockTail(t) \/ WakeUp(t)
  \/ Return(t) \/ Cancel(t)

LEMMA NextMoves == Next => \E t \in Threads : Moves(t)
BY DEF Next, Moves, Lock, Step

(* The types.  Only Read and Pop need to know more: the tail has an item.  *)
LEMMA TypesKept ==
  ASSUME TypeOK, CallsMatch, TailKnown, ItemsNew, NEW t \in Threads, Moves(t)
  PROVE  TypeOK'
<1> USE DEF TypeOK
<1>1. ASSUME NEW v \in Values, Enqueue(t, v) PROVE TypeOK'
  BY <1>1 DEF Enqueue, Goto, queue, mutexes, Outside
<1>2. ASSUME NEW op \in {"try_dequeue", "dequeue"}, Dequeue(t, op) PROVE TypeOK'
  BY <1>2 DEF Dequeue, Goto, queue, mutexes, Outside
<1>3. ASSUME LockToInsert(t) \/ LockTail(t) \/ LockHead(t) PROVE TypeOK'
  BY <1>3 DEF LockToInsert, LockTail, LockHead, Goto, queue, HeadSection, TailSection
<1>4. CASE Insert(t)
  <2>1. item[t] \in Values
    BY <1>4 DEF Insert, Goto, ItemsNew, Inserting
  <2> QED BY <1>4, <2>1, Appended DEF Insert, Goto, mutexes, HeadSection
<1>5. CASE LookAtTail(t) \/ LookAtHead(t) \/ WakeUp(t) \/ Cancel(t)
  BY <1>5 DEF LookAtTail, LookAtHead, WakeUp, Cancel, Goto, queue, mutexes,
              HeadSection, TailSection, Outside
<1>6. CASE Refill(t)
  BY <1>6, Turned DEF Refill, Goto, mutexes, HeadSection
<1>7. CASE ClearHead(t)
  <2>1. head' \in Seq(Values)
    BY <1>7, NoElements DEF ClearHead
  <2>2. pc' \in [Threads -> HeadSection \cup TailSection \cup Outside]
    BY <1>7 DEF ClearHead, Goto, HeadSection
  <2> QED BY <1>7, <2>1, <2>2 DEF ClearHead, mutexes
<1>8. CASE Read(t)
  <2>1. tail # <<>>
    BY <1>8 DEF Read, Goto, TailKnown
  <2>2. PICK v \in Values : v = tail[1]
    BY <2>1, FirstItem
  <2>3. item' = [item EXCEPT ![t] = v]
    BY <1>8, <2>2 DEF Read
  <2>4. pc' \in [Threads -> HeadSection \cup TailSection \cup Outside]
    BY <1>8 DEF Read, Goto, TailSection
  <2>5. item' \in [Threads -> Values \cup {None}]
    BY <2>3
  <2>6. UNCHANGED <<head, tail, sent, received, headMutex, tailMutex, call>>
    BY <1>8 DEF Read, queue, mutexes
  <2> QED BY <2>4, <2>5, <2>6
<1>9. CASE Pop(t)
  <2>1. tail # <<>> /\ item[t] = tail[1]
    BY <1>9 DEF Pop, Goto, TailKnown
  <2>2. Tail(tail) \in Seq(Values) /\ item[t] \in Values
    BY <2>1
  <2>3. Append(received, item[t]) \in Seq(Values)
    BY <2>2, Appended
  <2> QED BY <1>9, <2>2, <2>3 DEF Pop, Goto, mutexes, TailSection
<1>10. CASE UnlockHead(t) \/ UnlockTail(t) \/ Return(t)
  BY <1>10 DEF UnlockHead, UnlockTail, Return, Goto, queue, mutexes, TailSection, Outside
<1> QED BY <1>1, <1>2, <1>3, <1>4, <1>5, <1>6, <1>7, <1>8, <1>9, <1>10 DEF Moves

-----------------------------------------------------------------------------
(* A step of one thread leaves the others where they are, with the mutexes *)
(* they hold.                                                              *)

LEMMA OthersStay ==
  ASSUME LockInv, NEW t \in Threads, Moves(t), NEW u \in Threads \ {t}
  PROVE  /\ pc'[u] = pc[u] /\ call'[u] = call[u]
         /\ headMutex' = u <=> headMutex = u
         /\ tailMutex' = u <=> tailMutex = u
<1>1. t # None /\ u # None /\ t # u
  BY MutexQueueAssumption
<1>2. PICK to : pc' = [pc EXCEPT ![t] = to]
  BY DEF Moves, Goto, Enqueue, Dequeue, LockToInsert, LockTail, LockHead, Insert, LookAtTail,
         LookAtHead, Refill, ClearHead, Read, Pop, UnlockHead, UnlockTail, WakeUp, Return, Cancel
<1>3. call' = call \/ \E c : call' = [call EXCEPT ![t] = c]
  BY DEF Moves, Goto, Enqueue, Dequeue, LockToInsert, LockTail, LockHead, Insert, LookAtTail,
         LookAtHead, Refill, ClearHead, Read, Pop, UnlockHead, UnlockTail, WakeUp, Return, Cancel
<1>4. pc'[u] = pc[u] /\ call'[u] = call[u]
  BY <1>1, <1>2, <1>3 DEF LockInv, TypeOK
<1>5. \/ headMutex' = headMutex
      \/ headMutex = None /\ headMutex' = t
      \/ headMutex = t /\ headMutex' = None
  <2>1. CASE UnlockHead(t)
    <3>1. pc[t] \in HeadSection
      BY <2>1 DEF UnlockHead, Goto, HeadSection
    <3> QED BY <2>1, <3>1 DEF UnlockHead, LockInv, LocksMatch, HoldsHead
  <2>2. CASE ~UnlockHead(t)
    BY <2>2 DEF Moves, Enqueue, Dequeue, LockToInsert, LockTail, LockHead, Insert, LookAtTail,
                LookAtHead, Refill, ClearHead, Read, Pop, UnlockTail, WakeUp, Return, Cancel,
                mutexes
  <2> QED BY <2>1, <2>2
<1>6. \/ tailMutex' = tailMutex
      \/ tailMutex = None /\ tailMutex' = t
      \/ tailMutex = t /\ tailMutex' = None
  <2>1. CASE UnlockTail(t)
    <3>1. pc[t] \in TailSection
      BY <2>1 DEF UnlockTail, Goto, TailSection
    <3> QED BY <2>1, <3>1 DEF UnlockTail, LockInv, LocksMatch, HoldsTail
  <2>2. CASE ~UnlockTail(t)
    BY <2>2 DEF Moves, Enqueue, Dequeue, LockToInsert, LockTail, LockHead, Insert, LookAtTail,
                LookAtHead, Refill, ClearHead, Read, Pop, UnlockHead, WakeUp, Return, Cancel,
                mutexes
  <2> QED BY <2>1, <2>2
<1> QED BY <1>1, <1>4, <1>5, <1>6

(* What LocksMatch and CallsMatch say of one thread. *)
Right(u) ==
  /\ HoldsHead(u) <=> headMutex = u
  /\ HoldsTail(u) <=> tailMutex = u
  /\ pc[u] \in Inserting => call[u] = "enqueue"
  /\ pc[u] \in Trying => call[u] # "enqueue"

LEMMA LocksKept ==
  ASSUME LockInv, NEW t \in Threads, Moves(t)
  PROVE  LocksMatch' /\ CallsMatch'
<1>1. \A u \in Threads : Right(u)
  BY DEF LockInv, LocksMatch, CallsMatch, Right
<1>2. \A u \in Threads \ {t} : Right(u)'
  BY <1>1, OthersStay DEF Right, HoldsHead, HoldsTail
<1>3. Right(t)'
  <2> USE DEF Goto
  <2>t. t # None /\ Right(t)
    BY MutexQueueAssumption, <1>1
  <2>p. \A to : /\ pc' = [pc EXCEPT ![t] = to] => pc'[t] = to
                /\ call' = [call EXCEPT ![t] = to] => call'[t] = to
    BY DEF LockInv, TypeOK
  <2> USE DEF Right, HoldsHead, HoldsTail, HeadSection, TailSection, Inserting, Trying
  <2>1. ASSUME NEW v \in Values, Enqueue(t, v) PROVE Right(t)'
    BY <2>t, <2>p, <2>1 DEF Enqueue, mutexes
  <2>2. ASSUME NEW op \in {"try_dequeue", "dequeue"}, Dequeue(t, op) PROVE Right(t)'
    BY <2>t, <2>p, <2>2 DEF Dequeue, mutexes
  <2>3. CASE LockToInsert(t)
    BY <2>t, <2>p, <2>3 DEF LockToInsert
  <2>4. CASE LockTail(t)
    BY <2>t, <2>p, <2>4 DEF LockTail
  <2>5. CASE LockHead(t)
    BY <2>t, <2>p, <2>5 DEF LockHead
  <2>6. CASE Insert(t)
    BY <2>t, <2>p, <2>6 DEF Insert, mutexes
  <2>7. CASE Refill(t) \/ ClearHead(t) \/ Read(t) \/ Pop(t)
    BY <2>t, <2>p, <2>7 DEF Refill, ClearHead, Read, Pop, mutexes
  <2>8. CASE LookAtTail(t)
    BY <2>t, <2>p, <2>8 DEF LookAtTail, mutexes
  <2>9. CASE LookAtHead(t)
    BY <2>t, <2>p, <2>9 DEF LookAtHead, mutexes
  <2>10. CASE WakeUp(t) \/ Cancel(t)
    BY <2>t, <2>p, <2>10 DEF WakeUp, Cancel, mutexes
  <2>11. CASE UnlockHead(t)
    BY ZenonT(30), <2>t, <2>p, <2>11 DEF UnlockHead
  <2>12. CASE UnlockTail(t)
    BY <2>t, <2>p, <2>12 DEF UnlockTail
  <2>13. CASE Return(t)
    BY <2>t, <2>p, <2>13 DEF Return, mutexes
  <2> QED BY <2>1, <2>2, <2>3, <2>4, <2>5, <2>6, <2>7, <2>8, <2>9, <2>10, <2>11, <2>12, <2>13
             DEF Moves
<1> QED BY <1>2, <1>3 DEF LocksMatch, CallsMatch, Right

-----------------------------------------------------------------------------
(* Only who holds the mutex of an array changes it.                        *)

LEMMA ArraysGuarded ==
  ASSUME LockInv, NEW t \in Threads, Moves(t)
  PROVE  /\ tailMutex = t \/ tail' = tail
         /\ headMutex = t \/ head' = head
<1>1. /\ Refill(t) \/ Pop(t) \/ tail' = tail
      /\ Insert(t) \/ ClearHead(t) \/ head' = head
  BY DEF Moves, Enqueue, Dequeue, LockToInsert, LockTail, LockHead, Insert, LookAtTail, LookAtHead,
         Refill, ClearHead, Read, Pop, UnlockHead, UnlockTail, WakeUp, Return, Cancel, queue
<1>2. Refill(t) \/ Pop(t) => tailMutex = t
  BY DEF Refill, Pop, Goto, LockInv, LocksMatch, CallsMatch, HoldsTail, HeadSection, TailSection, Trying
<1>3. Insert(t) \/ ClearHead(t) => headMutex = t
  BY DEF Insert, ClearHead, Goto, LockInv, LocksMatch, HoldsHead, HeadSection
<1> QED BY <1>1, <1>2, <1>3

(* What a thread does to its item. *)
LEMMA ItemsMoved ==
  ASSUME LockInv, NEW t \in Threads, Moves(t)
  PROVE  /\ \A u \in Threads \ {t} : item'[u] = item[u]
         /\ \/ item' = item \/ Read(t) \/ Return(t)
            \/ \E v \in Values : Enqueue(t, v)
<1>1. item' = item \/ Read(t) \/ Return(t) \/ \E v \in Values : Enqueue(t, v)
  BY DEF Moves, Dequeue, LockToInsert, LockTail, LockHead, Insert, LookAtTail, LookAtHead,
         Refill, ClearHead, Pop, UnlockHead, UnlockTail, WakeUp, Cancel
<1>2. item' = item \/ \E v : item' = [item EXCEPT ![t] = v]
  BY <1>1 DEF Read, Return, Enqueue
<1> QED BY <1>1, <1>2 DEF LockInv, TypeOK

Knows(u) ==
  /\ pc[u] \in {"lock head", "look at head", "refill"} => tail = <<>>
  /\ pc[u] = "clear head" => tail = Reversed(head)
  /\ pc[u] \in {"read", "pop"} => tail # <<>>
  /\ pc[u] = "pop" => item[u] = tail[1]

LEMMA KnowledgeKept ==
  ASSUME LockInv, TailKnown, NEW t \in Threads, Moves(t)
  PROVE  TailKnown'
<1>1. \A u \in Threads : Knows(u)
  BY DEF TailKnown, Knows
<1>2. ASSUME NEW u \in Threads \ {t} PROVE Knows(u)'
  <2>1. pc'[u] = pc[u] /\ item'[u] = item[u]
    BY OthersStay, ItemsMoved
  <2>2. t # u /\ (tailMutex = u => tail' = tail) /\ (headMutex = u => head' = head)
    BY ArraysGuarded
  <2>3. pc[u] \in {"lock head", "look at head", "refill", "clear head", "read", "pop"}
          => tailMutex = u
    BY DEF LockInv, LocksMatch, CallsMatch, HoldsTail, HeadSection, TailSection, Trying
  <2>4. pc[u] = "clear head" => headMutex = u
    BY DEF LockInv, LocksMatch, HoldsHead, HeadSection
  <2>5. Reversed(head)' = Reversed(head')
    BY DEF Reversed
  <2>6. CASE pc[u] \in {"lock head", "look at head", "refill", "read", "pop"}
    BY <1>1, <2>1, <2>2, <2>3, <2>6 DEF Knows
  <2>7. CASE pc[u] = "clear head"
    BY <1>1, <2>1, <2>2, <2>3, <2>4, <2>7 DEF Knows, Reversed
  <2> QED BY <2>1, <2>6, <2>7 DEF Knows
<1>3. Knows(t)'
  <2>k. Knows(t)
    BY <1>1
  <2>p. \A to : pc' = [pc EXCEPT ![t] = to] => pc'[t] = to
    BY DEF LockInv, TypeOK
  <2>i. \A v : item' = [item EXCEPT ![t] = v] => item'[t] = v
    BY DEF LockInv, TypeOK
  <2>1. CASE LookAtTail(t)
    BY <2>p, <2>1 DEF LookAtTail, Goto, queue, Knows
  <2>2. CASE LockHead(t) \/ LookAtHead(t)
    BY <2>k, <2>p, <2>2 DEF LockHead, LookAtHead, Goto, queue, Knows
  <2>3. CASE Refill(t)
    BY <2>p, <2>3 DEF Refill, Goto, Knows, Reversed
  <2>4. CASE Read(t)
    BY <2>k, <2>p, <2>i, <2>4 DEF Read, Goto, queue, Knows
  <2>5. CASE ~(LookAtTail(t) \/ LockHead(t) \/ LookAtHead(t) \/ Refill(t) \/ Read(t))
    <3>1. pc'[t] \notin {"lock head", "look at head", "refill", "clear head", "read", "pop"}
      BY <2>p, <2>5 DEF Moves, Goto, Enqueue, Dequeue, LockToInsert, LockTail, Insert, ClearHead, Pop,
                        UnlockHead, UnlockTail, WakeUp, Return, Cancel
    <3> QED BY <3>1 DEF Knows
  <2> QED BY <2>1, <2>2, <2>3, <2>4, <2>5
<1> QED BY <1>2, <1>3 DEF TailKnown, Knows

LEMMA NewnessKept ==
  ASSUME LockInv, ItemsNew, NEW t \in Threads, Moves(t)
  PROVE  ItemsNew'
<1>1. \A u \in Threads \ {t} : pc'[u] = pc[u] /\ item'[u] = item[u]
  BY OthersStay, ItemsMoved
<1>p. \A to : pc' = [pc EXCEPT ![t] = to] => pc'[t] = to
  BY DEF LockInv, TypeOK
<1>2. ASSUME NEW v \in Values, Enqueue(t, v) PROVE ItemsNew'
  <2>1. item'[t] = v
    BY <1>2 DEF Enqueue, LockInv, TypeOK
  <2>2. v \notin Elements(sent) /\ sent' = sent /\ \A u \in Threads : item[u] # v
    BY <1>2 DEF Enqueue, queue, Elements
  <2> QED BY <1>1, <2>1, <2>2 DEF ItemsNew, Elements
<1>3. CASE Insert(t)
  <2>1. pc[t] = "insert" /\ pc'[t] = "unlock head" /\ item' = item
    BY <1>3, <1>p DEF Insert, Goto
  <2>2. item[t] \in Values /\ \A u \in Threads \ {t} : pc[u] \in Inserting => item[u] # item[t]
    BY <2>1 DEF ItemsNew, Inserting
  <2>3. Elements(sent') = Elements(sent) \cup {item[t]}
    <3>1. PICK v \in Values : v = item[t]
      BY <2>2
    <3>2. sent' = Append(sent, v) /\ sent \in Seq(Values)
      BY <1>3, <3>1 DEF Insert, LockInv, TypeOK
    <3> QED BY <3>1, <3>2, Appended
  <2>4. pc'[t] \notin Inserting /\ Elements(sent)' = Elements(sent')
    BY <2>1 DEF Inserting, Elements
  <2> QED BY <1>1, <2>1, <2>2, <2>3, <2>4 DEF ItemsNew
<1>4. CASE ~Insert(t) /\ ~(\E v \in Values : Enqueue(t, v))
  <2>1. sent' = sent
    BY <1>4 DEF Moves, Dequeue, LockToInsert, LockTail, LockHead, LookAtTail, LookAtHead,
         Refill, ClearHead, Read, Pop, UnlockHead, UnlockTail, WakeUp, Return, Cancel, queue
  <2>2. pc'[t] \in Inserting => pc[t] \in Inserting /\ item' = item
    BY <1>p, <1>4 DEF Moves, Goto, Dequeue, LockToInsert, LockTail, LockHead, LookAtTail, LookAtHead,
         Refill, ClearHead, Read, Pop, UnlockHead, UnlockTail, WakeUp, Return, Cancel, Inserting
  <2> QED BY <1>1, <2>1, <2>2 DEF ItemsNew, Elements
<1> QED BY <1>2, <1>3, <1>4

-----------------------------------------------------------------------------
(* No value is lost or taken twice.                                        *)

(* The parts of the two invariants, as facts about four sequences. *)
Kept(s, r, h, l, clearing) ==
  /\ Injective(h) /\ Injective(l)
  /\ Elements(s) = Elements(r) \cup Elements(l) \cup Elements(h)
  /\ Elements(r) \cap (Elements(l) \cup Elements(h)) = {}
  /\ ~clearing => Elements(l) \cap Elements(h) = {}

LEMMA KeptSays ==
  /\ Kept(sent, received, head, tail, Clearing) <=> NoRepeats /\ Conserved
  /\ Kept(sent', received', head', tail', Clearing') <=> NoRepeats' /\ Conserved'
BY DEF Kept, NoRepeats, Conserved, Injective, Elements

(* While one thread clears the head, no other changes an array. *)
LEMMA Alone ==
  ASSUME LockInv, NEW t \in Threads, Insert(t) \/ Refill(t) \/ ClearHead(t) \/ Pop(t)
  PROVE  /\ \A u \in Threads \ {t} : pc[u] # "clear head" /\ pc'[u] # "clear head"
         /\ Refill(t) <=> pc'[t] = "clear head"
<1>1. Moves(t)
  BY DEF Moves
<1>2. \A u \in Threads : /\ pc[u] = "clear head" => headMutex = u /\ tailMutex = u
                         /\ pc[u] \in {"insert", "refill"} => headMutex = u
                         /\ pc[u] \in {"pop", "refill"} => tailMutex = u
  BY DEF LockInv, LocksMatch, CallsMatch, HoldsHead, HoldsTail, HeadSection, TailSection, Trying
<1>3. pc[t] \in {"insert", "refill", "clear head", "pop"}
  BY DEF Insert, Refill, ClearHead, Pop, Goto
<1>4. \A u \in Threads \ {t} : pc[u] # "clear head" /\ pc'[u] # "clear head"
  BY <1>1, <1>2, <1>3, OthersStay
<1>5. Refill(t) <=> pc'[t] = "clear head"
  BY DEF Insert, Refill, ClearHead, Pop, Goto, LockInv, TypeOK
<1> QED BY <1>4, <1>5

LEMMA ValuesKept ==
  ASSUME IInv, NEW t \in Threads, Moves(t)
  PROVE  NoRepeats' /\ Conserved'
<1> USE KeptSays
<1>k. Kept(sent, received, head, tail, Clearing)
  BY DEF IInv
<1>s. head \in Seq(Values) /\ tail \in Seq(Values) /\ sent \in Seq(Values) /\ received \in Seq(Values)
  BY DEF IInv, LockInv, TypeOK
<1>l. LockInv
  BY DEF IInv
<1>1. CASE Insert(t)
  <2>1. PICK v \in Values : v = item[t] /\ v \notin Elements(sent)
    BY <1>1 DEF Insert, Goto, IInv, ItemsNew, Inserting
  <2>2. /\ head' = Append(head, v) /\ sent' = Append(sent, v)
        /\ tail' = tail /\ received' = received
    BY <1>1, <2>1 DEF Insert
  <2>3. ~Clearing
    BY <1>l, <1>1, Alone DEF Clearing, Insert, Goto
  <2>4. /\ Elements(head') = Elements(head) \cup {v}
        /\ Elements(sent') = Elements(sent) \cup {v}
        /\ Injective(head')
    BY <1>k, <1>s, <2>1, <2>2, Appended DEF Kept
  <2> QED BY <1>k, <2>1, <2>2, <2>3, <2>4 DEF Kept
<1>2. CASE Refill(t)
  <2>1. tail = <<>>
    BY <1>2 DEF Refill, Goto, IInv, TailKnown
  <2>2. tail' = Reversed(head) /\ UNCHANGED <<head, sent, received>>
    BY <1>2 DEF Refill
  <2>3. Clearing'
    BY <1>l, <1>2, Alone DEF Clearing
  <2>4. Elements(tail') = Elements(head) /\ Injective(tail') /\ Elements(tail) = {}
    BY <1>k, <1>s, <2>1, <2>2, Turned, NoElements DEF Kept
  <2> QED BY <1>k, <2>2, <2>3, <2>4 DEF Kept
<1>3. CASE ClearHead(t)
  <2>1. tail = Reversed(head)
    BY <1>3 DEF ClearHead, Goto, IInv, TailKnown
  <2>2. head' = <<>> /\ UNCHANGED <<tail, sent, received>>
    BY <1>3 DEF ClearHead
  <2>3. Elements(tail) = Elements(head) /\ Elements(head') = {} /\ Injective(head')
    BY <1>s, <2>1, <2>2, Turned, NoElements
  <2> QED BY <1>k, <2>2, <2>3 DEF Kept
<1>4. CASE Pop(t)
  <2>1. tail # <<>> /\ item[t] = tail[1]
    BY <1>4 DEF Pop, Goto, IInv, TailKnown
  <2>2. PICK v \in Values : v = tail[1]
    BY <1>s, <2>1, FirstItem
  <2>3. tail' = Tail(tail) /\ received' = Append(received, v) /\ UNCHANGED <<head, sent>>
    BY <1>4, <2>1, <2>2 DEF Pop
  <2>4. ~Clearing
    BY <1>l, <1>4, Alone DEF Clearing, Pop, Goto
  <2>5. /\ Elements(tail') = Elements(tail) \ {v} /\ v \in Elements(tail) /\ Injective(tail')
    BY <1>k, <1>s, <2>1, <2>2, <2>3, Beheaded DEF Kept
  <2>6. Elements(received') = Elements(received) \cup {v}
    BY <1>s, <2>3, Appended
  <2> QED BY <1>k, <2>3, <2>4, <2>5, <2>6 DEF Kept
<1>5. CASE ~(Insert(t) \/ Refill(t) \/ ClearHead(t) \/ Pop(t))
  <2>1. UNCHANGED <<head, tail, sent, received>>
    BY <1>5 DEF Moves, Enqueue, Dequeue, LockToInsert, LockTail, LockHead, LookAtTail, LookAtHead,
         Read, UnlockHead, UnlockTail, WakeUp, Return, Cancel, queue
  <2>2. Clearing => Clearing'
    <3>1. pc[t] # "clear head"
      BY <1>5 DEF Moves, Enqueue, Dequeue, LockToInsert, LockTail, LockHead, LookAtTail, LookAtHead,
           Read, UnlockHead, UnlockTail, WakeUp, Return, Cancel, Goto
    <3> QED BY <1>l, <3>1, OthersStay DEF Clearing
  <2> QED BY <1>k, <2>1, <2>2 DEF Kept
<1> QED BY <1>1, <1>2, <1>3, <1>4, <1>5

-----------------------------------------------------------------------------
LEMMA StepInv ==
  ASSUME IInv, [Next]_vars
  PROVE  IInv'
<1>1. ASSUME NEW t \in Threads, Moves(t) PROVE IInv'
  <2>1. TypeOK'
    BY <1>1, TypesKept DEF IInv, LockInv
  <2>2. LocksMatch' /\ CallsMatch' /\ TailKnown' /\ ItemsNew'
    BY <1>1, LocksKept, KnowledgeKept, NewnessKept DEF IInv
  <2>3. NoRepeats' /\ Conserved'
    BY <1>1, ValuesKept
  <2> QED BY <2>1, <2>2, <2>3 DEF IInv, LockInv
<1>2. CASE UNCHANGED vars
  <2> USE <1>2 DEF vars, IInv, LockInv
  <2>1. TypeOK'
    BY DEF TypeOK
  <2>2. LocksMatch' /\ CallsMatch'
    BY DEF LocksMatch, HoldsHead, HoldsTail, CallsMatch
  <2>3. TailKnown' /\ ItemsNew'
    BY DEF TailKnown, ItemsNew, Reversed, Elements
  <2>4. NoRepeats' /\ Conserved'
    <3>1. NoRepeats'
      BY DEF NoRepeats, Injective
    <3>2. Clearing' = Clearing
      BY DEF Clearing
    <3>3. /\ Elements(sent)' = Elements(sent) /\ Elements(received)' = Elements(received)
          /\ Elements(head)' = Elements(head) /\ Elements(tail)' = Elements(tail)
      BY DEF Elements
    <3> QED BY <3>1, <3>2, <3>3 DEF Conserved
  <2> QED BY <2>1, <2>2, <2>3, <2>4
<1> QED BY <1>1, <1>2, NextMoves

LEMMA Invariance == Spec => []IInv
BY InitInv, StepInv, PTL DEF Spec

(* A thread holds a mutex exactly while it is in the code between lock and *)
(* close: none is left locked by `return', by a sleep or by a cancelled    *)
(* thread.                                                                 *)
THEOREM LocksAlwaysMatch == Spec => []LocksMatch
<1>1. IInv => LocksMatch
  BY DEF IInv, LockInv
<1> QED BY <1>1, Invariance, PTL

(* Every value that was enqueued is in the queue or was taken out, once. *)
THEOREM NothingLost == Spec => [](TypeOK /\ Conserved)
<1>1. IInv => TypeOK /\ Conserved
  BY DEF IInv, LockInv
<1> QED BY <1>1, Invariance, PTL

(* Two arrays, two mutexes and a copy between them behave as a channel:    *)
(* inserting into the head sends, taking from the tail receives.           *)
LEMMA StepSendsOrReceives ==
  ASSUME IInv, [Next]_vars
  PROVE  [Abstract!Next]_<<Elements(sent), received>>
<1>s. head \in Seq(Values) /\ tail \in Seq(Values) /\ sent \in Seq(Values) /\ received \in Seq(Values)
  BY DEF IInv, LockInv, TypeOK
<1>1. ASSUME NEW t \in Threads, Insert(t)
      PROVE  Abstract!Next
  <2>1. PICK v \in Values : v = item[t] /\ v \notin Elements(sent)
    BY <1>1 DEF Insert, Goto, IInv, ItemsNew, Inserting
  <2>2. sent' = Append(sent, v) /\ received' = received
    BY <1>1, <2>1 DEF Insert
  <2>3. Elements(sent') = Elements(sent) \cup {v}
    BY <1>s, <2>2, Appended
  <2>4. Elements(sent)' = Elements(sent')
    BY DEF Elements
  <2> QED BY <2>1, <2>2, <2>3, <2>4 DEF Abstract!Next, Abstract!Send
<1>2. ASSUME NEW t \in Threads, Pop(t)
      PROVE  Abstract!Next
  <2>1. tail # <<>> /\ item[t] = tail[1]
    BY <1>2 DEF Pop, Goto, IInv, TailKnown
  <2>2. PICK v \in Values : v = tail[1]
    BY <1>s, <2>1, FirstItem
  <2>3. received' = Append(received, v) /\ sent' = sent
    BY <1>2, <2>1, <2>2 DEF Pop
  <2>4. v \in Elements(tail)
    BY <1>s, <2>1, <2>2, Beheaded DEF IInv, NoRepeats
  <2>5. v \in Elements(sent) /\ \A i \in DOMAIN received : received[i] # v
    <3>1. v \in Elements(sent) /\ v \notin Elements(received)
      BY <2>4 DEF IInv, Conserved
    <3> QED BY <3>1 DEF Elements
  <2>6. Elements(sent)' = Elements(sent)
    BY <2>3 DEF Elements
  <2> QED BY <2>2, <2>3, <2>5, <2>6 DEF Abstract!Next, Abstract!Receive
<1>3. ASSUME NEW t \in Threads, Moves(t), ~Insert(t), ~Pop(t)
      PROVE  UNCHANGED <<sent, received>>
  BY <1>3 DEF Moves, Enqueue, Dequeue, LockToInsert, LockTail, LockHead, LookAtTail, LookAtHead,
     Refill, ClearHead, Read, UnlockHead, UnlockTail, WakeUp, Return, Cancel, queue
<1>4. UNCHANGED <<sent, received>> => UNCHANGED <<Elements(sent), received>>
  BY DEF Elements
<1>5. UNCHANGED vars => UNCHANGED <<sent, received>>
  BY DEF vars
<1> QED BY <1>1, <1>2, <1>3, <1>4, <1>5, NextMoves

(* The queue on its two stacks is an unordered channel: `enqueue' sends a  *)
(* value, and a dequeue receives one that was sent and not received yet    *)
(* (stdlib/mutex_queue.sss).                                               *)
THEOREM QueueIsChannel == Spec => ImplementsChannel
<1>1. Init => Abstract!Init
  BY NoElements DEF Init, Abstract!Init
<1> QED BY <1>1, Invariance, StepSendsOrReceives, PTL
        DEF Spec, ImplementsChannel, Abstract!Spec

-----------------------------------------------------------------------------
(* The order of the queue.                                                 *)

(* BatchOrder as a fact about three sequences. *)
Before(s, v, w) == \E i, j \in DOMAIN s : i < j /\ s[i] = v /\ s[j] = w
Ordered(s, h, l, clearing) ==
  /\ \A i, j \in DOMAIN h : i < j => Before(s, h[i], h[j])
  /\ \A i, j \in DOMAIN l : i < j => Before(s, l[j], l[i])
  /\ ~clearing => \A i \in DOMAIN l, j \in DOMAIN h : Before(s, l[i], h[j])

LEMMA OrderSays ==
  /\ BatchOrder <=> Ordered(sent, head, tail, Clearing)
  /\ BatchOrder' <=> Ordered(sent', head', tail', Clearing')
BY DEF BatchOrder, Ordered, Before, Earlier

(* What was sent before is sent before the next value, too. *)
LEMMA SentLater ==
  ASSUME NEW S, NEW s \in Seq(S), NEW v \in S
  PROVE  /\ \A a, b : Before(s, a, b) => Before(Append(s, v), a, b)
         /\ \A a \in Elements(s) : Before(Append(s, v), a, v)
<1>1. /\ DOMAIN s = 1..Len(s) /\ Len(s) \in Nat
      /\ DOMAIN Append(s, v) = 1..Len(s) + 1
      /\ \A i \in 1..Len(s) : Append(s, v)[i] = s[i]
      /\ Append(s, v)[Len(s) + 1] = v
  OBVIOUS
<1>2. \A i \in 1..Len(s) : i \in 1..Len(s) + 1 /\ i < Len(s) + 1
  BY <1>1
<1>3. ASSUME NEW a, NEW b, Before(s, a, b)
      PROVE  Before(Append(s, v), a, b)
  BY <1>1, <1>2, <1>3 DEF Before
<1>4. ASSUME NEW a \in Elements(s)
      PROVE  Before(Append(s, v), a, v)
  <2>1. PICK i \in 1..Len(s) : s[i] = a
    BY <1>1 DEF Elements
  <2> QED BY <1>1, <1>2, <2>1 DEF Before
<1> QED BY <1>3, <1>4

LEMMA OrderAppended ==
  ASSUME NEW S, NEW s \in Seq(S), NEW h \in Seq(S), NEW l, NEW v \in S,
         Ordered(s, h, l, FALSE), Elements(h) \cup Elements(l) \subseteq Elements(s)
  PROVE  Ordered(Append(s, v), Append(h, v), l, FALSE)
<1>1. /\ DOMAIN h = 1..Len(h) /\ Len(h) \in Nat
      /\ DOMAIN Append(h, v) = 1..Len(h) + 1
      /\ \A i \in 1..Len(h) : Append(h, v)[i] = h[i]
      /\ Append(h, v)[Len(h) + 1] = v
  OBVIOUS
<1>2. /\ \A i \in DOMAIN h : h[i] \in Elements(s)
      /\ \A i \in DOMAIN l : l[i] \in Elements(s)
  BY DEF Elements
<1>3. ASSUME NEW i \in 1..Len(h) + 1, NEW j \in 1..Len(h) + 1, i < j
      PROVE  Before(Append(s, v), Append(h, v)[i], Append(h, v)[j])
  <2>1. i \in DOMAIN h
    BY <1>1, <1>3
  <2>2. CASE j \in DOMAIN h
    BY <1>1, <1>3, <2>1, <2>2, SentLater DEF Ordered
  <2>3. CASE j = Len(h) + 1
    BY <1>1, <1>2, <2>1, <2>3, SentLater
  <2> QED BY <1>1, <2>2, <2>3
<1>4. \A i, j \in DOMAIN l : i < j => Before(Append(s, v), l[j], l[i])
  BY SentLater DEF Ordered
<1>5. ASSUME NEW i \in DOMAIN l, NEW j \in 1..Len(h) + 1
      PROVE  Before(Append(s, v), l[i], Append(h, v)[j])
  <2>1. CASE j \in DOMAIN h
    BY <1>1, <2>1, SentLater DEF Ordered
  <2>2. CASE j = Len(h) + 1
    BY <1>1, <1>2, <2>2, SentLater
  <2> QED BY <1>1, <2>1, <2>2
<1> QED BY <1>1, <1>3, <1>4, <1>5 DEF Ordered

LEMMA OrderTurned ==
  ASSUME NEW S, NEW s, NEW h \in Seq(S), NEW l, NEW clearing, Ordered(s, h, l, clearing)
  PROVE  Ordered(s, h, Reversed(h), TRUE)
<1> DEFINE n == Len(h)
<1>1. /\ DOMAIN h = 1..n /\ n \in Nat /\ DOMAIN Reversed(h) = 1..n
      /\ \A i \in 1..n : Reversed(h)[i] = h[n + 1 - i]
  BY DEF Reversed
<1>2. ASSUME NEW i \in 1..n, NEW j \in 1..n, i < j
      PROVE  Before(s, Reversed(h)[j], Reversed(h)[i])
  <2>1. n + 1 - j \in 1..n /\ n + 1 - i \in 1..n /\ n + 1 - j < n + 1 - i
    BY <1>1, <1>2
  <2> QED BY <1>1, <2>1 DEF Ordered
<1> QED BY <1>1, <1>2 DEF Ordered

LEMMA OrderBeheaded ==
  ASSUME NEW S, NEW s, NEW h, NEW l \in Seq(S), l # <<>>, Ordered(s, h, l, FALSE)
  PROVE  Ordered(s, h, Tail(l), FALSE)
<1> DEFINE n == Len(l)
<1>1. /\ n \in Nat \ {0} /\ DOMAIN l = 1..n /\ DOMAIN Tail(l) = 1..n - 1
      /\ \A i \in 1..n - 1 : Tail(l)[i] = l[i + 1] /\ i + 1 \in 1..n
  OBVIOUS
<1>2. \A i, j \in 1..n - 1 : i < j => i + 1 < j + 1
  OBVIOUS
<1> QED BY <1>1, <1>2 DEF Ordered

LEMMA OrderKept ==
  ASSUME IInv, BatchOrder, NEW t \in Threads, Moves(t)
  PROVE  BatchOrder'
<1> USE OrderSays
<1>k. Ordered(sent, head, tail, Clearing)
  OBVIOUS
<1>s. head \in Seq(Values) /\ tail \in Seq(Values) /\ sent \in Seq(Values)
  BY DEF IInv, LockInv, TypeOK
<1>l. LockInv
  BY DEF IInv
<1>1. CASE Insert(t)
  <2>1. PICK v \in Values : v = item[t]
    BY <1>1 DEF Insert, Goto, IInv, ItemsNew, Inserting
  <2>2. head' = Append(head, v) /\ sent' = Append(sent, v) /\ tail' = tail
    BY <1>1, <2>1 DEF Insert
  <2>3. ~Clearing
    BY <1>l, <1>1, Alone DEF Clearing, Insert, Goto
  <2>4. Elements(head) \cup Elements(tail) \subseteq Elements(sent)
    BY DEF IInv, Conserved
  <2>5. Ordered(sent, head, tail, FALSE)
    BY <1>k, <2>3 DEF Ordered
  <2>6. Ordered(sent', head', tail', FALSE)
    BY <1>s, <2>2, <2>4, <2>5, OrderAppended
  <2> QED BY <2>6 DEF Ordered
<1>2. CASE Refill(t)
  <2>1. tail' = Reversed(head) /\ UNCHANGED <<head, sent>>
    BY <1>2 DEF Refill
  <2>2. Clearing'
    BY <1>l, <1>2, Alone DEF Clearing
  <2>3. Ordered(sent, head, Reversed(head), TRUE)
    BY <1>k, <1>s, OrderTurned
  <2> QED BY <2>1, <2>2, <2>3 DEF Ordered
<1>3. CASE ClearHead(t)
  <2>1. head' = <<>> /\ UNCHANGED <<tail, sent>>
    BY <1>3 DEF ClearHead
  <2>2. DOMAIN head' = {}
    BY <2>1
  <2> QED BY <1>k, <2>1, <2>2 DEF Ordered
<1>4. CASE Pop(t)
  <2>1. tail # <<>> /\ tail' = Tail(tail) /\ UNCHANGED <<head, sent>>
    BY <1>4 DEF Pop, Goto, IInv, TailKnown
  <2>2. ~Clearing
    BY <1>l, <1>4, Alone DEF Clearing, Pop, Goto
  <2>3. Ordered(sent, head, tail, FALSE)
    BY <1>k, <2>2 DEF Ordered
  <2>4. Ordered(sent', head', tail', FALSE)
    BY <1>s, <2>1, <2>3, OrderBeheaded
  <2> QED BY <2>4 DEF Ordered
<1>5. CASE ~(Insert(t) \/ Refill(t) \/ ClearHead(t) \/ Pop(t))
  <2>1. UNCHANGED <<head, tail, sent>>
    BY <1>5 DEF Moves, Enqueue, Dequeue, LockToInsert, LockTail, LockHead, LookAtTail, LookAtHead,
         Read, UnlockHead, UnlockTail, WakeUp, Return, Cancel, queue
  <2>2. Clearing => Clearing'
    <3>1. pc[t] # "clear head"
      BY <1>5 DEF Moves, Enqueue, Dequeue, LockToInsert, LockTail, LockHead, LookAtTail, LookAtHead,
           Read, UnlockHead, UnlockTail, WakeUp, Return, Cancel, Goto
    <3> QED BY <1>l, <3>1, OthersStay DEF Clearing
  <2> QED BY <1>k, <2>1, <2>2 DEF Ordered
<1> QED BY <1>1, <1>2, <1>3, <1>4, <1>5

(* The head holds what was enqueued in its order, the tail in the reverse, *)
(* and all of the tail was enqueued before all of the head, except while a *)
(* thread is between copying and clearing the head.                        *)
THEOREM QueueKeepsOrder == Spec => []BatchOrder
<1>1. Init => BatchOrder
  BY DEF Init, BatchOrder
<1>2. IInv /\ BatchOrder /\ [Next]_vars => BatchOrder'
  <2> SUFFICES ASSUME IInv, BatchOrder, [Next]_vars PROVE BatchOrder'
    OBVIOUS
  <2>1. CASE UNCHANGED vars
    <3>1. UNCHANGED <<head, tail, sent, pc>>
      BY <2>1 DEF vars, queue
    <3>2. Clearing' = Clearing
      BY <3>1 DEF Clearing
    <3> QED BY <3>1, <3>2, OrderSays
  <2> QED BY <2>1, NextMoves, OrderKept
<1> QED BY <1>1, <1>2, Invariance, PTL DEF Spec
-----------------------------------------------------------------------------
(* Who waits, and for whom.                                                *)

WaitsForHead(t) == pc[t] \in {"lock head to insert", "lock head"}
WaitsForTail(t) == pc[t] = "lock tail"
InQueue(t) == pc[t] \notin {"idle", "cancelled"}

(* The guards of Lock; every other step in the queue has none. *)
GoesOn(t) ==
  /\ InQueue(t)
  /\ WaitsForHead(t) => headMutex = None
  /\ WaitsForTail(t) => tailMutex = None

Holder(t) == IF WaitsForTail(t) THEN tailMutex ELSE headMutex

(* A thread in the queue goes on, or who holds the mutex it waits for      *)
(* does, or who holds the head mutex that one waits for.                   *)
NobodyStuck ==
  \A t \in Threads : InQueue(t) =>
    \/ GoesOn(t)
    \/ Holder(t) \in Threads /\ GoesOn(Holder(t))
    \/ /\ WaitsForTail(t) /\ tailMutex \in Threads /\ WaitsForHead(tailMutex)
       /\ headMutex \in Threads /\ GoesOn(headMutex)

(* A thread that holds the head mutex waits for nothing, one that holds    *)
(* the tail mutex at most for the head mutex: the two are taken in one     *)
(* order (enqueue and try_dequeue of stdlib/mutex_queue.sss), and neither  *)
(* is kept by a thread that has left, sleeps or was cancelled.  So no set  *)
(* of threads, however many, waits in a circle.                            *)
THEOREM NeverDeadlocked == Spec => []NobodyStuck
<1>1. IInv => NobodyStuck
  <2> SUFFICES ASSUME LockInv, NEW t \in Threads, InQueue(t), ~GoesOn(t)
               PROVE  \/ Holder(t) \in Threads /\ GoesOn(Holder(t))
                      \/ /\ WaitsForTail(t) /\ tailMutex \in Threads /\ WaitsForHead(tailMutex)
                         /\ headMutex \in Threads /\ GoesOn(headMutex)
    BY DEF IInv, NobodyStuck
  <2>1. headMutex # None => headMutex \in Threads /\ GoesOn(headMutex)
    <3>1. headMutex # None => headMutex \in Threads /\ pc[headMutex] \in HeadSection
      BY DEF LockInv, TypeOK, LocksMatch, HoldsHead
    <3> QED BY <3>1 DEF GoesOn, InQueue, WaitsForHead, WaitsForTail, HeadSection
  <2>2. tailMutex # None =>
          /\ tailMutex \in Threads /\ InQueue(tailMutex) /\ ~WaitsForTail(tailMutex)
          /\ WaitsForHead(tailMutex) \/ GoesOn(tailMutex)
    <3>1. tailMutex # None =>
            tailMutex \in Threads /\ pc[tailMutex] \in HeadSection \cup TailSection
      BY DEF LockInv, TypeOK, LocksMatch, HoldsTail
    <3> QED BY <3>1 DEF GoesOn, InQueue, WaitsForHead, WaitsForTail, HeadSection, TailSection
  <2>3. CASE WaitsForTail(t)
    <3>1. ~WaitsForHead(t)
      BY <2>3 DEF WaitsForHead, WaitsForTail
    <3>2. tailMutex # None /\ Holder(t) = tailMutex
      BY <2>3, <3>1 DEF GoesOn, Holder
    <3>3. CASE GoesOn(tailMutex)
      BY <2>2, <3>2, <3>3
    <3>4. CASE ~GoesOn(tailMutex)
      <4>1. WaitsForHead(tailMutex) /\ headMutex # None
        BY <2>2, <3>2, <3>4 DEF GoesOn
      <4> QED BY <2>1, <2>2, <2>3, <3>2, <4>1
    <3> QED BY <3>3, <3>4
  <2>4. CASE ~WaitsForTail(t)
    <3>1. headMutex # None /\ Holder(t) = headMutex
      BY <2>4 DEF GoesOn, Holder
    <3> QED BY <2>1, <3>1
  <2> QED BY <2>3, <2>4
<1> QED BY <1>1, Invariance, PTL

-----------------------------------------------------------------------------
(* How long a call can take.                                               *)

(* What a thread that holds the head mutex knows about the head, and about *)
(* the tail that it has just refilled.                                     *)
HeadKnown ==
  \A t \in Threads :
    /\ pc[t] \in {"refill", "clear head"} => head # <<>>
    /\ pc[t] = "unlock head" /\ call[t] # "enqueue" => tail # <<>>

LEMMA HeadKnownKept ==
  ASSUME IInv, HeadKnown, NEW t \in Threads, Moves(t)
  PROVE  HeadKnown'
<1>i. LockInv
  BY DEF IInv
<1> SUFFICES ASSUME NEW u \in Threads
             PROVE  /\ pc'[u] \in {"refill", "clear head"} => head' # <<>>
                    /\ pc'[u] = "unlock head" /\ call'[u] # "enqueue" => tail' # <<>>
  BY DEF HeadKnown
<1>1. CASE u # t
  <2>1. pc'[u] = pc[u] /\ call'[u] = call[u]
    BY <1>i, <1>1, OthersStay
  <2>2. pc[u] \in {"refill", "clear head"} => headMutex = u
    BY <1>i DEF LockInv, LocksMatch, HoldsHead, HeadSection
  <2>3. pc[u] = "unlock head" /\ call[u] # "enqueue" => tailMutex = u
    BY <1>i DEF LockInv, LocksMatch, HoldsTail, HeadSection
  <2>4. (headMutex = u => head' = head) /\ (tailMutex = u => tail' = tail)
    BY <1>i, <1>1, ArraysGuarded
  <2> QED BY <2>1, <2>2, <2>3, <2>4 DEF HeadKnown
<1>2. CASE u = t
  <2>p. \A to : pc' = [pc EXCEPT ![t] = to] => pc'[t] = to
    BY <1>i DEF LockInv, TypeOK
  <2>1. CASE LookAtHead(t)
    BY <1>2, <2>p, <2>1 DEF LookAtHead, Goto, queue
  <2>2. CASE Refill(t)
    BY <1>2, <2>p, <2>2 DEF Refill, Goto, HeadKnown
  <2>3. CASE ClearHead(t)
    <3>1. tail = Reversed(head) /\ head # <<>> /\ head \in Seq(Values)
      BY <2>3 DEF ClearHead, Goto, IInv, LockInv, TypeOK, TailKnown, HeadKnown
    <3>2. tail' # <<>>
      BY <2>3, <3>1, Turned DEF ClearHead
    <3>3. pc'[t] = "unlock head"
      BY <2>p, <2>3 DEF ClearHead, Goto
    <3> QED BY <1>2, <3>2, <3>3
  <2>4. CASE Insert(t)
    <3>1. pc'[t] = "unlock head" /\ call'[t] = call[t] /\ pc[t] = "insert"
      BY <2>p, <2>4 DEF Insert, Goto
    <3>2. call[t] = "enqueue"
      BY <1>i, <3>1 DEF LockInv, CallsMatch, Inserting
    <3> QED BY <1>2, <3>1, <3>2
  <2>5. CASE ~(LookAtHead(t) \/ Refill(t) \/ ClearHead(t) \/ Insert(t))
    <3>1. pc'[t] \notin {"refill", "clear head", "unlock head"}
      BY <2>p, <2>5 DEF Moves, Goto, Enqueue, Dequeue, LockToInsert, LockTail, LockHead, LookAtTail,
                        Read, Pop, UnlockHead, UnlockTail, WakeUp, Return, Cancel
    <3> QED BY <1>2, <3>1
  <2> QED BY <2>1, <2>2, <2>3, <2>4, <2>5
<1> QED BY <1>1, <1>2

LEMMA HeadAlwaysKnown == Spec => []HeadKnown
<1>1. Init => HeadKnown
  BY DEF Init, HeadKnown
<1>2. IInv /\ HeadKnown /\ [Next]_vars => HeadKnown'
  <2> SUFFICES ASSUME IInv, HeadKnown, [Next]_vars PROVE HeadKnown'
    OBVIOUS
  <2>1. CASE UNCHANGED vars
    BY <2>1 DEF vars, HeadKnown
  <2> QED BY <2>1, NextMoves, HeadKnownKept
<1> QED BY <1>1, <1>2, Invariance, PTL DEF Spec

(* The steps a thread has left before it returns, sleeps or is cancelled:  *)
(* a thread at the place `at' in the operation `op', while the tail is l.  *)
Left(at, op, l) ==
  CASE at \in {"idle", "sleep", "cancelled"} -> 0
    [] at = "return" -> 1
    [] at = "unlock tail" -> 2
    [] at \in {"pop", "insert", "unlock head, empty"} -> 3
    [] at \in {"read", "lock head to insert"} -> 4
    [] at = "look at tail" -> IF l = <<>> THEN 11 ELSE 5
    [] at = "unlock head" -> IF op = "enqueue" THEN 2 ELSE 6
    [] at = "clear head" -> 7
    [] at = "refill" -> 8
    [] at = "look at head" -> 9
    [] at = "lock head" -> 10
    [] at = "lock tail" -> 12

ToGo(t) == Left(pc[t], call[t], tail)

(* The number is at most 12; a step of the thread lessens it, and a step   *)
(* of another thread leaves it as it is.                                   *)
CallsAreShort ==
  [][\A t \in Threads : InQueue(t) /\ pc[t] # "sleep" =>
       /\ ToGo(t) \in 1..12
       /\ IF pc'[t] = pc[t] THEN ToGo(t)' = ToGo(t) ELSE ToGo(t)' < ToGo(t)]_vars

LEMMA LeftIsSmall ==
  ASSUME NEW at \in HeadSection \cup TailSection \cup Outside, NEW op, NEW l
  PROVE  Left(at, op, l) \in 0..12 /\ (at \notin {"idle", "sleep", "cancelled"} => Left(at, op, l) # 0)
<1>1. at \in {"idle", "sleep", "cancelled"} => Left(at, op, l) = 0
  BY DEF Left
<1>2. at \in HeadSection => Left(at, op, l) \in {2, 3, 6, 7, 8, 9}
  BY DEF HeadSection, Left
<1>3. at \in TailSection => Left(at, op, l) \in {2, 3, 4, 5, 10, 11}
  BY DEF TailSection, Left
<1>4. at \in Outside => at \in {"idle", "sleep", "cancelled"} \/ Left(at, op, l) \in {1, 4, 12}
  BY DEF Outside, Left
<1> DEFINE Some == {1, 2, 3, 4, 5, 6, 7, 8, 9, 10, 11, 12}
<1>5. 0 \in 0..12 /\ Some \subseteq 0..12 /\ 0 \notin Some
  OBVIOUS
<1>6. (at \in {"idle", "sleep", "cancelled"} /\ Left(at, op, l) = 0) \/ Left(at, op, l) \in Some
  BY <1>1, <1>2, <1>3, <1>4, Zenon
<1> QED BY <1>5, <1>6, Zenon

(* A step of the thread in its call goes to a place with fewer steps left. *)
LEMMA StepShortens ==
  ASSUME IInv, HeadKnown, NEW t \in Threads, Moves(t), InQueue(t), pc[t] # "sleep"
  PROVE  pc'[t] # pc[t] /\ ToGo(t)' < ToGo(t)
<1> DEFINE From(m) == ToGo(t) = m
           To(n) == pc'[t] # pc[t] /\ ToGo(t)' = n
<1>n. ASSUME NEW m \in Nat, NEW n \in Nat, n < m, From(m), To(n)
      PROVE  pc'[t] # pc[t] /\ ToGo(t)' < ToGo(t)
  BY <1>n
<1>p. \A to : /\ pc' = [pc EXCEPT ![t] = to] => pc'[t] = to
              /\ call' = [call EXCEPT ![t] = to] => call'[t] = to
  BY DEF IInv, LockInv, TypeOK
<1> HIDE DEF From, To
<1>1. CASE LockToInsert(t)
  <2>1. pc[t] = "lock head to insert" /\ pc'[t] = "insert"
    BY <1>p, <1>1 DEF LockToInsert, Goto
  <2>2. From(4) /\ To(3)
    BY <2>1 DEF From, To, ToGo, Left
  <2> QED BY <1>n, <2>2
<1>2. CASE LockTail(t)
  <2>1. pc[t] = "lock tail" /\ pc'[t] = "look at tail"
    BY <1>p, <1>2 DEF LockTail, Goto
  <2>2. From(12) /\ (To(11) \/ To(5))
    BY <2>1 DEF From, To, ToGo, Left
  <2> QED BY <1>n, <2>2
<1>3. CASE LockHead(t)
  <2>1. pc[t] = "lock head" /\ pc'[t] = "look at head"
    BY <1>p, <1>3 DEF LockHead, Goto
  <2>2. From(10) /\ To(9)
    BY <2>1 DEF From, To, ToGo, Left
  <2> QED BY <1>n, <2>2
<1>4. CASE Insert(t)
  <2>1. pc[t] = "insert" /\ pc'[t] = "unlock head" /\ call'[t] = "enqueue"
    BY <1>p, <1>4 DEF Insert, Goto, IInv, LockInv, CallsMatch, Inserting
  <2>2. From(3) /\ To(2)
    BY <2>1 DEF From, To, ToGo, Left
  <2> QED BY <1>n, <2>2
<1>5. CASE LookAtTail(t)
  <2>1. /\ pc[t] = "look at tail"
        /\ tail = <<>> => pc'[t] = "lock head"
        /\ tail # <<>> => pc'[t] = "read"
    BY <1>p, <1>5 DEF LookAtTail, Goto
  <2>2. tail = <<>> => From(11) /\ To(10)
    BY <2>1 DEF From, To, ToGo, Left
  <2>3. tail # <<>> => From(5) /\ To(4)
    BY <2>1 DEF From, To, ToGo, Left
  <2> QED BY <1>n, <2>2, <2>3
<1>6. CASE LookAtHead(t)
  <2>1. pc[t] = "look at head" /\ pc'[t] \in {"unlock head, empty", "refill"}
    BY <1>p, <1>6 DEF LookAtHead, Goto
  <2>2. From(9) /\ (To(3) \/ To(8))
    BY <2>1 DEF From, To, ToGo, Left
  <2> QED BY <1>n, <2>2
<1>7. CASE Refill(t)
  <2>1. pc[t] = "refill" /\ pc'[t] = "clear head"
    BY <1>p, <1>7 DEF Refill, Goto
  <2>2. From(8) /\ To(7)
    BY <2>1 DEF From, To, ToGo, Left
  <2> QED BY <1>n, <2>2
<1>8. CASE ClearHead(t)
  <2>1. pc[t] = "clear head" /\ pc'[t] = "unlock head" /\ call'[t] # "enqueue"
    BY <1>p, <1>8 DEF ClearHead, Goto, IInv, LockInv, CallsMatch, Trying
  <2>2. From(7) /\ To(6)
    BY <2>1 DEF From, To, ToGo, Left
  <2> QED BY <1>n, <2>2
<1>9. CASE Read(t)
  <2>1. pc[t] = "read" /\ pc'[t] = "pop"
    BY <1>p, <1>9 DEF Read, Goto
  <2>2. From(4) /\ To(3)
    BY <2>1 DEF From, To, ToGo, Left
  <2> QED BY <1>n, <2>2
<1>10. CASE Pop(t)
  <2>1. pc[t] = "pop" /\ pc'[t] = "unlock tail"
    BY <1>p, <1>10 DEF Pop, Goto
  <2>2. From(3) /\ To(2)
    BY <2>1 DEF From, To, ToGo, Left
  <2> QED BY <1>n, <2>2
<1>11. CASE UnlockHead(t)
  <2>1. \/ pc[t] = "unlock head, empty" /\ pc'[t] = "unlock tail"
        \/ pc[t] = "unlock head" /\ call[t] = "enqueue" /\ pc'[t] = "return"
        \/ pc[t] = "unlock head" /\ call[t] # "enqueue" /\ pc'[t] = "look at tail"
    BY <1>p, <1>11 DEF UnlockHead, Goto
  <2>2. pc[t] = "unlock head" /\ call[t] # "enqueue" => tail' # <<>>
    BY <1>11 DEF UnlockHead, HeadKnown, queue
  <2>3. pc[t] = "unlock head, empty" => From(3) /\ To(2)
    BY <2>1 DEF From, To, ToGo, Left
  <2>4. pc[t] = "unlock head" /\ call[t] = "enqueue" => From(2) /\ To(1)
    BY <2>1 DEF From, To, ToGo, Left
  <2>5. pc[t] = "unlock head" /\ call[t] # "enqueue" => From(6) /\ To(5)
    BY <2>1, <2>2 DEF From, To, ToGo, Left
  <2>6. (From(3) /\ To(2)) \/ (From(2) /\ To(1)) \/ (From(6) /\ To(5))
    BY <2>1, <2>3, <2>4, <2>5
  <2> QED BY <1>n, <2>6
<1>12. CASE UnlockTail(t)
  <2>1. pc[t] = "unlock tail" /\ pc'[t] \in {"sleep", "return"}
    BY <1>p, <1>12 DEF UnlockTail, Goto
  <2>2. From(2) /\ (To(0) \/ To(1))
    BY <2>1 DEF From, To, ToGo, Left
  <2> QED BY <1>n, <2>2
<1>13. CASE Return(t)
  <2>1. pc[t] = "return" /\ pc'[t] = "idle"
    BY <1>p, <1>13 DEF Return, Goto
  <2>2. From(1) /\ To(0)
    BY <2>1 DEF From, To, ToGo, Left
  <2> QED BY <1>n, <2>2
<1>14. ~WakeUp(t) /\ ~Cancel(t) /\ ~(\E v \in Values : Enqueue(t, v))
       /\ ~Dequeue(t, "try_dequeue") /\ ~Dequeue(t, "dequeue")
  BY DEF WakeUp, Cancel, Enqueue, Dequeue, InQueue, Goto
<1> QED BY <1>1, <1>2, <1>3, <1>4, <1>5, <1>6, <1>7, <1>8, <1>9, <1>10, <1>11, <1>12, <1>13, <1>14
        DEF Moves

LEMMA OthersLengthenNothing ==
  ASSUME IInv, NEW t \in Threads, Moves(t), NEW u \in Threads \ {t}
  PROVE  pc'[u] = pc[u] /\ ToGo(u)' = ToGo(u)
<1>i. LockInv
  BY DEF IInv
<1>1. pc'[u] = pc[u] /\ call'[u] = call[u]
  BY <1>i, OthersStay
<1>2. ToGo(u) = Left(pc[u], call[u], tail) /\ ToGo(u)' = Left(pc[u], call[u], tail')
  BY <1>1 DEF ToGo
<1>3. CASE pc[u] = "look at tail"
  <2>1. tailMutex = u
    BY <1>i, <1>3 DEF LockInv, LocksMatch, HoldsTail, TailSection
  <2>2. tail' = tail
    BY <1>i, <2>1, ArraysGuarded
  <2> QED BY <1>1, <1>2, <2>2
<1>4. CASE pc[u] # "look at tail"
  <2> DEFINE at == pc[u]
  <2> HIDE DEF at
  <2>1. at \in HeadSection => Left(at, call[u], tail) = Left(at, call[u], tail')
    BY DEF HeadSection, Left
  <2>2. at \in TailSection => Left(at, call[u], tail) = Left(at, call[u], tail')
    BY <1>4 DEF TailSection, Left, at
  <2>3. at \in Outside => Left(at, call[u], tail) = Left(at, call[u], tail')
    BY DEF Outside, Left
  <2>4. at \in HeadSection \cup TailSection \cup Outside
    BY <1>i DEF LockInv, TypeOK, at
  <2> QED BY <1>1, <1>2, <2>1, <2>2, <2>3, <2>4 DEF at
<1> QED BY <1>3, <1>4

(* Every loop of the queue is bounded: a call of enqueue or try_dequeue, or *)
(* one round of dequeue, is over after at most twelve steps of its thread,  *)
(* whatever the others do, because a thread that refilled the tail still    *)
(* holds tail_mutex and finds an item when it looks again.  What it needs   *)
(* from the scheduler is to run and to get the mutexes it waits for.        *)
THEOREM NoCallLoops == Spec => CallsAreShort
<1> DEFINE Short(t) ==
      InQueue(t) /\ pc[t] # "sleep" =>
        /\ ToGo(t) \in 1..12
        /\ IF pc'[t] = pc[t] THEN ToGo(t)' = ToGo(t) ELSE ToGo(t)' < ToGo(t)
<1>1. IInv /\ HeadKnown /\ [Next]_vars => [\A t \in Threads : Short(t)]_vars
  <2> SUFFICES ASSUME IInv, HeadKnown, Next, NEW u \in Threads
               PROVE  Short(u)
    BY DEF vars
  <2>1. PICK t \in Threads : Moves(t)
    BY NextMoves
  <2>2. InQueue(u) /\ pc[u] # "sleep" => ToGo(u) \in 1..12
    <3>1. pc[u] \in HeadSection \cup TailSection \cup Outside
      BY DEF IInv, LockInv, TypeOK
    <3>2. /\ ToGo(u) \in 0..12
          /\ pc[u] \notin {"idle", "sleep", "cancelled"} => ToGo(u) # 0
      BY <3>1, LeftIsSmall DEF ToGo
    <3> QED BY <3>2 DEF InQueue
  <2>3. CASE u = t
    BY <2>1, <2>2, <2>3, StepShortens
  <2>4. CASE u # t
    BY <2>1, <2>2, <2>4, OthersLengthenNothing
  <2> QED BY <2>3, <2>4
<1> QED BY <1>1, Invariance, HeadAlwaysKnown, PTL DEF Spec, CallsAreShort
=============================================================================
