------------------------------ MODULE MemoProof ------------------------------
(***************************************************************************)
(* The cache of a recursive function outgrows its limit by no more than    *)
(* the recursion is deep, for any arguments, recursion and limit.          *)
(*                                                                         *)
(* Entries and running calls are counted together.  A call that returns    *)
(* becomes at most one entry, and one that makes room trades an entry for  *)
(* itself, so that only a call that finds room raises the sum: then there  *)
(* are fewer entries than the limit, and as many calls as the recursion is *)
(* deep at most, because each of them is nearer to its end than the one    *)
(* that called it.                                                         *)
(*                                                                         *)
(* A cache without a limit holds every argument that was run and came      *)
(* back, and one that still runs is above every argument that it calls:    *)
(* so no argument is run twice.  And what an entry holds is memory that    *)
(* nobody has changed, as long as the program leaves alone what the cache  *)
(* has: so what comes back is right.                                       *)
(***************************************************************************)
EXTENDS MemoCache, FiniteSetTheorems, TLAPS

Typed ==
  /\ limit \in Limits
  /\ cached \subseteq Args
  /\ stack \in Seq(Frame)
  /\ calling \in Args \cup {NoArg}

(* Each call is nearer to the end of the recursion than its caller, so     *)
(* that it has room for itself and those above it.                         *)
Descending ==
  /\ \A i \in 1..Len(stack) : Depth[stack[i].arg] + (Len(stack) - i) <= MaxDepth
  /\ calling # NoArg /\ stack # <<>> => Depth[calling] < Depth[stack[1].arg]

IInv == Typed /\ Descending /\ Bounded

-----------------------------------------------------------------------------
(* What the wrapper may add to a set of entries, or take from it. *)
LEMMA Entries ==
  ASSUME Typed, NEW a \in Args
  PROVE  /\ IsFiniteSet(cached) /\ Cardinality(cached) \in Nat
         /\ Cardinality(cached \cup {a}) <= Cardinality(cached) + 1
         /\ a \in cached => Cardinality(cached \ {a}) = Cardinality(cached) - 1
<1>1. IsFiniteSet(cached)
  BY MemoAssumption, FS_Subset DEF Typed
<1>2. Cardinality(cached) \in Nat
  BY <1>1, FS_CardinalityType
<1>3. Cardinality(cached \cup {a}) <= Cardinality(cached) + 1
  <2>1. Cardinality(cached \cup {a}) = IF a \in cached THEN Cardinality(cached) ELSE Cardinality(cached) + 1
    BY <1>1, FS_AddElement, Zenon
  <2> QED BY <1>2, <2>1
<1>4. a \in cached => Cardinality(cached \ {a}) = Cardinality(cached) - 1
  BY <1>1, FS_RemoveElement
<1> QED BY <1>1, <1>2, <1>3, <1>4

(* A result that comes back leaves the calls below as they are. *)
LEMMA Answered ==
  ASSUME MemoAssumption, NEW calls \in Seq(Frame), NEW block, Answer(block, calls)
  PROVE  /\ calling' = NoArg
         /\ stack' \in Seq(Frame) /\ Len(stack') = Len(calls)
         /\ \A i \in 1..Len(calls) : stack'[i].arg = calls[i].arg
<1>1. CASE calls = <<>>
  BY <1>1 DEF Answer
<1>2. CASE calls # <<>>
  <2> DEFINE top == [Head(calls) EXCEPT !.returned = @ + 1, !.right = @ /\ block \notin changed']
  <2>1. Head(calls) \in Frame /\ Tail(calls) \in Seq(Frame) /\ Len(Tail(calls)) = Len(calls) - 1
    BY <1>2
  <2>2. top \in Frame /\ top.arg = calls[1].arg
    <3> DEFINE right == Head(calls).right /\ block \notin changed'
    <3>1. top = [Head(calls) EXCEPT !.returned = @ + 1, !.right = right]
      OBVIOUS
    <3>2. right \in BOOLEAN /\ Head(calls) = calls[1]
      BY <1>2
    <3> HIDE DEF right, top
    <3>3. Head(calls).arg \in Args /\ Head(calls).returned + 1 \in Nat
      BY <2>1 DEF Frame
    <3>4. top = [arg |-> Head(calls).arg, returned |-> Head(calls).returned + 1, right |-> right]
      BY <2>1, <3>1 DEF Frame
    <3>5. top.arg = Head(calls).arg
      BY <3>4
    <3>6. top \in Frame
      BY <3>2, <3>3, <3>4 DEF Frame
    <3> QED BY <3>2, <3>5, <3>6
  <2>3. stack' = <<top>> \o Tail(calls)
    BY <1>2 DEF Answer
  <2> HIDE DEF top
  <2>4. stack' \in Seq(Frame) /\ Len(stack') = Len(calls) /\ stack'[1] = top
    BY <1>2, <2>1, <2>2, <2>3
  <2>5. ASSUME NEW i \in 2..Len(calls)
        PROVE  stack'[i] = calls[i]
    BY <1>2, <2>1, <2>2, <2>3, <2>5
  <2>6. calling' = NoArg
    BY DEF Answer
  <2> QED BY <2>2, <2>4, <2>5, <2>6
<1> QED BY <1>1, <1>2

(* A call that runs is the first of all, and there is room for it. *)
LEMMA Pushed ==
  ASSUME MemoAssumption, Typed, Descending, calling \in Args, Run
  PROVE  /\ stack' \in Seq(Frame) /\ Len(stack') = Len(stack) + 1
         /\ Len(stack') <= MaxDepth
         /\ calling' = NoArg /\ Descending'
<1> DEFINE top == [arg |-> calling, returned |-> 0, right |-> TRUE]
<1>1. top \in Frame /\ top.arg = calling
  BY DEF Frame
<1>2. stack' = <<top>> \o stack /\ calling' = NoArg
  BY DEF Run
<1> HIDE DEF top
<1>3. stack \in Seq(Frame) /\ Len(stack) \in Nat
  BY DEF Typed
<1>4. stack' \in Seq(Frame) /\ Len(stack') = Len(stack) + 1 /\ stack'[1] = top
  BY <1>1, <1>2, <1>3
<1>5. ASSUME NEW i \in 2..Len(stack')
      PROVE  stack'[i] = stack[i - 1]
  BY <1>1, <1>2, <1>3, <1>4, <1>5
<1>6. MaxDepth \in Nat /\ \A a \in Args : Depth[a] \in 1..MaxDepth
  BY DEF MemoAssumption
<1>7. Depth[calling] + Len(stack) <= MaxDepth
  <2>1. CASE stack = <<>>
    BY <1>6, <2>1
  <2>2. CASE stack # <<>>
    <3>1. 1 \in 1..Len(stack) /\ stack[1] \in Frame
      BY <1>3, <2>2
    <3>2. stack[1].arg \in Args
      BY <3>1 DEF Frame
    <3>3. Depth[calling] < Depth[stack[1].arg]
      BY <2>2, MemoAssumption DEF Descending
    <3>4. Depth[stack[1].arg] + (Len(stack) - 1) <= MaxDepth
      BY <3>1 DEF Descending
    <3> QED BY <1>3, <1>6, <3>2, <3>3, <3>4
  <2> QED BY <2>1, <2>2
<1>8. Len(stack') <= MaxDepth
  BY <1>3, <1>4, <1>6, <1>7
<1>9. ASSUME NEW i \in 1..Len(stack')
      PROVE  Depth[stack'[i].arg] + (Len(stack') - i) <= MaxDepth
  <2>1. CASE i = 1
    BY <1>1, <1>3, <1>4, <1>7, <2>1
  <2>2. CASE i # 1
    <3>1. i - 1 \in 1..Len(stack) /\ stack'[i] = stack[i - 1]
      BY <1>3, <1>4, <1>5, <2>2
    <3>2. Depth[stack[i - 1].arg] + (Len(stack) - (i - 1)) <= MaxDepth
      BY <3>1 DEF Descending
    <3>3. Len(stack') - i = Len(stack) - (i - 1)
      BY <1>3, <1>4
    <3> QED BY <3>1, <3>2, <3>3
  <2> QED BY <2>1, <2>2
<1> QED BY <1>2, <1>4, <1>8, <1>9 DEF Descending

-----------------------------------------------------------------------------
LEMMA InitInv == Init => IInv
<1> SUFFICES ASSUME Init PROVE IInv
  OBVIOUS
<1>1. limit \in Limits /\ cached = {} /\ stack = <<>> /\ calling = NoArg
  BY DEF Init
<1>2. Cardinality(cached) = 0
  BY <1>1, FS_EmptySet
<1>3. MaxDepth \in Nat /\ Limits \subseteq Nat \cup {Unlimited}
  BY MemoAssumption
<1>4. Bounded
  BY <1>1, <1>2, <1>3 DEF Bounded
<1> QED BY <1>1, <1>4 DEF IInv, Typed, Descending

(* The wrapper is called, or the cache answers it. *)
LEMMA CallInv ==
  ASSUME IInv, NEW a \in Args, Call(a)
  PROVE  IInv'
BY DEF IInv, Typed, Descending, Bounded, Call

LEMMA RecurInv ==
  ASSUME IInv, Recur
  PROVE  IInv'
<1> DEFINE top == stack[1]
<1>1. /\ stack # <<>> /\ stack \in Seq(Frame) /\ Head(stack) = top
      /\ UNCHANGED <<limit, cached, stack>>
  BY DEF Recur, IInv, Typed
<1>2. top \in Frame
  BY <1>1
<1>3. top.arg \in Args /\ top.returned \in Nat
  BY <1>2 DEF Frame
<1>4. top.returned < Len(Calls[top.arg]) /\ calling' = Calls[top.arg][top.returned + 1]
  BY <1>1 DEF Recur
<1> HIDE DEF top
<1>5. Calls[top.arg] \in Seq(Args) /\ top.returned + 1 \in DOMAIN Calls[top.arg]
  BY <1>3, <1>4, MemoAssumption
<1>6. calling' \in Args /\ Depth[calling'] < Depth[top.arg]
  BY <1>3, <1>4, <1>5, MemoAssumption
<1> QED BY <1>1, <1>6 DEF IInv, Typed, Descending, Bounded, top

LEMMA HitInv ==
  ASSUME IInv, Hit
  PROVE  IInv'
<1>1. Answer(result[calling], stack) /\ UNCHANGED <<limit, cached>>
  BY DEF Hit
<1>2. stack \in Seq(Frame)
  BY DEF IInv, Typed
<1>3. /\ calling' = NoArg /\ stack' \in Seq(Frame) /\ Len(stack') = Len(stack)
      /\ \A i \in 1..Len(stack) : stack'[i].arg = stack[i].arg
  BY <1>1, <1>2, Answered, MemoAssumption
<1> QED BY <1>1, <1>3 DEF IInv, Typed, Descending, Bounded

-----------------------------------------------------------------------------
(* The function runs, after room was made or was there. *)
LEMMA MissWithRoomInv ==
  ASSUME IInv, MissWithRoom
  PROVE  IInv'
<1>1. calling \in Args /\ ~Full /\ Run /\ UNCHANGED <<limit, cached>>
  BY DEF MissWithRoom, Run
<1>2. /\ stack' \in Seq(Frame) /\ Len(stack') <= MaxDepth
      /\ calling' = NoArg /\ Descending'
  BY <1>1, Pushed, MemoAssumption DEF IInv
<1>3. Typed'
  BY <1>1, <1>2 DEF IInv, Typed
<1>4. Bounded'
  <2> SUFFICES ASSUME limit # Unlimited
               PROVE  Cardinality(cached) + Len(stack') <= (IF limit = 0 THEN 0 ELSE limit - 1) + MaxDepth
    BY <1>1 DEF Bounded
  <2>1. limit \in Nat /\ MaxDepth \in Nat /\ Cardinality(cached) \in Nat /\ Len(stack') \in Nat
    <3>1. limit \in Nat /\ MaxDepth \in Nat
      BY MemoAssumption DEF IInv, Typed
    <3>2. Cardinality(cached) \in Nat
      BY <1>1, Entries DEF IInv
    <3>3. Len(stack') \in Nat
      BY <1>2
    <3> QED BY <3>1, <3>2, <3>3
  <2>2. Cardinality(cached) < limit
    BY <1>1, <2>1 DEF Full
  <2> QED BY <1>2, <2>1, <2>2
<1> QED BY <1>2, <1>3, <1>4 DEF IInv

LEMMA MissFullInv ==
  ASSUME IInv, MissFull
  PROVE  IInv'
<1>1. calling \in Args /\ Full /\ Run /\ limit' = limit
  BY DEF MissFull, Run
<1>2. /\ stack' \in Seq(Frame) /\ Len(stack') = Len(stack) + 1 /\ Len(stack') <= MaxDepth
      /\ calling' = NoArg /\ Descending'
  BY <1>1, Pushed, MemoAssumption DEF IInv
<1>3. /\ limit \in Nat /\ MaxDepth \in Nat /\ limit # Unlimited
      /\ Len(stack) \in Nat /\ Len(stack') \in Nat
  BY <1>1, <1>2, MemoAssumption DEF IInv, Typed, Full
<1>4. CASE \E a \in cached : cached' = cached \ {a}
  <2> PICK a \in cached : cached' = cached \ {a}
    BY <1>4
  <2>1. a \in Args /\ cached' \subseteq Args
    BY DEF IInv, Typed
  <2>2. Cardinality(cached) \in Nat /\ Cardinality(cached') = Cardinality(cached) - 1
    BY <2>1, Entries DEF IInv
  <2>3. Bounded'
    BY <1>1, <1>2, <1>3, <2>2 DEF IInv, Bounded
  <2> QED BY <1>1, <1>2, <2>1, <2>3 DEF IInv, Typed
<1>5. CASE cached = {} /\ cached' = cached
  <2>1. Cardinality(cached') = 0
    BY <1>5, FS_EmptySet
  <2>2. Bounded'
    BY <1>1, <1>2, <1>3, <2>1 DEF Bounded
  <2> QED BY <1>1, <1>2, <1>5, <2>2 DEF IInv, Typed
<1> QED BY <1>4, <1>5 DEF MissFull

(* A call that ends becomes an entry. *)
LEMMA ReturnInv ==
  ASSUME IInv, Return
  PROVE  IInv'
<1> DEFINE a == stack[1].arg
<1>1. /\ stack # <<>> /\ stack \in Seq(Frame) /\ Head(stack) = stack[1]
      /\ limit' = limit
  BY DEF Return, IInv, Typed
<1>2. a \in Args
  <2>1. stack[1] \in Frame
    BY <1>1
  <2> QED BY <2>1 DEF Frame
<1>3. cached' = cached \cup {a} /\ Answer(Unused, Tail(stack))
  BY <1>1 DEF Return
<1>4. /\ Tail(stack) \in Seq(Frame) /\ Len(Tail(stack)) = Len(stack) - 1
      /\ Len(stack) \in Nat /\ Len(stack) # 0
      /\ \A i \in 1..Len(stack) - 1 : Tail(stack)[i] = stack[i + 1]
  BY <1>1
<1>5. /\ calling' = NoArg /\ stack' \in Seq(Frame) /\ Len(stack') = Len(stack) - 1
      /\ \A i \in 1..Len(stack) - 1 : stack'[i].arg = stack[i + 1].arg
  BY ZenonT(30), <1>3, <1>4, Answered, MemoAssumption
<1> HIDE DEF a
<1>6. Typed'
  BY <1>1, <1>2, <1>3, <1>5 DEF IInv, Typed
<1>7. Descending'
  <2> SUFFICES ASSUME NEW i \in 1..Len(stack')
               PROVE  Depth[stack'[i].arg] + (Len(stack') - i) <= MaxDepth
    BY <1>5 DEF Descending
  <2>1. i + 1 \in 1..Len(stack) /\ stack'[i].arg = stack[i + 1].arg
    BY <1>4, <1>5
  <2>2. Depth[stack[i + 1].arg] + (Len(stack) - (i + 1)) <= MaxDepth
    BY <2>1 DEF IInv, Descending
  <2>3. Len(stack') - i = Len(stack) - (i + 1)
    BY <1>4, <1>5
  <2> QED BY <2>1, <2>2, <2>3
<1>8. Bounded'
  <2> SUFFICES ASSUME limit # Unlimited
               PROVE  Cardinality(cached') + Len(stack') <= (IF limit = 0 THEN 0 ELSE limit - 1) + MaxDepth
    BY <1>1 DEF Bounded
  <2>1. limit \in Nat /\ MaxDepth \in Nat
    BY MemoAssumption DEF IInv, Typed
  <2>2. Cardinality(cached) \in Nat /\ Cardinality(cached') <= Cardinality(cached) + 1
    BY <1>2, <1>3, Entries DEF IInv
  <2>3. Cardinality(cached') \in Nat
    <3>1. IsFiniteSet(cached')
      BY <1>6, MemoAssumption, FS_Subset DEF Typed
    <3> QED BY <3>1, FS_CardinalityType
  <2>4. Cardinality(cached) + Len(stack) <= (IF limit = 0 THEN 0 ELSE limit - 1) + MaxDepth
    BY DEF IInv, Bounded
  <2> QED BY <1>4, <1>5, <2>1, <2>2, <2>3, <2>4
<1> QED BY <1>6, <1>7, <1>8 DEF IInv

-----------------------------------------------------------------------------
LEMMA NextInv == IInv /\ [Next]_vars => IInv'
<1> SUFFICES ASSUME IInv, [Next]_vars PROVE IInv'
  OBVIOUS
<1>1. ASSUME NEW a \in Args, Call(a) PROVE IInv'
  BY <1>1, CallInv
<1>2. CASE Recur
  BY <1>2, RecurInv
<1>3. CASE Hit
  BY <1>3, HitInv
<1>4. CASE MissWithRoom
  BY <1>4, MissWithRoomInv
<1>5. CASE MissFull
  BY <1>5, MissFullInv
<1>6. CASE Return
  BY <1>6, ReturnInv
<1>7. CASE Change
  BY <1>7 DEF Change, IInv, Typed, Descending, Bounded
<1>8. CASE UNCHANGED vars
  BY <1>8 DEF vars, IInv, Typed, Descending, Bounded
<1> QED BY <1>1, <1>2, <1>3, <1>4, <1>5, <1>6, <1>7, <1>8 DEF Next

LEMMA Invariance == Spec => []IInv
<1>1. Init => IInv
  BY InitInv
<1>2. IInv /\ [Next]_vars => IInv'
  BY NextInv
<1> QED BY <1>1, <1>2, PTL DEF Spec

(* For any arguments, recursion and limit, entries and running calls       *)
(* together are at most as many as the recursion is deep, over the limit   *)
(* less one: what functions.c:104-140 lets the cache grow to.              *)
THEOREM CacheBounded == Spec => []Bounded
<1>1. IInv => Bounded
  BY DEF IInv
<1> QED BY <1>1, Invariance, PTL

-----------------------------------------------------------------------------
(* Without a limit the function runs once for every argument: one that it  *)
(* has been run for is in the cache or still runs, and none that still     *)
(* runs can be called, because the recursion descends.                     *)

Running == {stack[i].arg : i \in 1..Len(stack)}

OnceInv ==
  /\ \A i, j \in 1..Len(stack) : i < j => Depth[stack[i].arg] < Depth[stack[j].arg]
  /\ limit = Unlimited => ran \subseteq cached \cup Running

(* The call that is at the wrapper is for none of those that run. *)
LEMMA CallsDescend ==
  ASSUME IInv, OnceInv, calling \in Args
  PROVE  \A i \in 1..Len(stack) : Depth[calling] < Depth[stack[i].arg]
<1> SUFFICES ASSUME NEW i \in 1..Len(stack)
             PROVE  Depth[calling] < Depth[stack[i].arg]
  OBVIOUS
<1>1. stack \in Seq(Frame) /\ Len(stack) \in Nat /\ stack # <<>> /\ 1 \in 1..Len(stack)
  BY DEF IInv, Typed
<1>2. stack[1].arg \in Args /\ stack[i].arg \in Args
  <2>1. stack[1] \in Frame /\ stack[i] \in Frame
    BY <1>1
  <2> QED BY <2>1 DEF Frame
<1>3. Depth[calling] < Depth[stack[1].arg]
  BY <1>1, MemoAssumption DEF IInv, Descending
<1>4. CASE i = 1
  BY <1>3, <1>4
<1>5. CASE i # 1
  <2>1. Depth[stack[1].arg] < Depth[stack[i].arg]
    BY <1>1, <1>5 DEF OnceInv
  <2>2. Depth[calling] \in Nat /\ Depth[stack[1].arg] \in Nat /\ Depth[stack[i].arg] \in Nat
    BY <1>2, MemoAssumption
  <2> QED BY <1>3, <2>1, <2>2
<1> QED BY <1>4, <1>5

(* A call that runs comes before those that it is nearer to the end than. *)
LEMMA PushedOrder ==
  ASSUME IInv, OnceInv, calling \in Args, Run
  PROVE  /\ Len(stack') = Len(stack) + 1 /\ stack'[1].arg = calling
         /\ \A i \in 1..Len(stack) : stack'[i + 1] = stack[i]
         /\ \A i, j \in 1..Len(stack') : i < j => Depth[stack'[i].arg] < Depth[stack'[j].arg]
<1> DEFINE top == [arg |-> calling, returned |-> 0, right |-> TRUE]
<1>1. top \in Frame /\ top.arg = calling
  BY DEF Frame
<1>2. stack' = <<top>> \o stack
  BY DEF Run
<1> HIDE DEF top
<1>3. stack \in Seq(Frame) /\ Len(stack) \in Nat
  BY DEF IInv, Typed
<1>4. /\ Len(stack') = Len(stack) + 1 /\ stack'[1] = top
      /\ \A i \in 1..Len(stack) : stack'[i + 1] = stack[i]
  BY <1>1, <1>2, <1>3
<1>5. \A i \in 1..Len(stack) : Depth[calling] < Depth[stack[i].arg]
  BY CallsDescend
<1>6. ASSUME NEW i \in 1..Len(stack'), NEW j \in 1..Len(stack'), i < j
      PROVE  Depth[stack'[i].arg] < Depth[stack'[j].arg]
  <2>1. j - 1 \in 1..Len(stack) /\ (j - 1) + 1 = j
    BY <1>3, <1>4, <1>6
  <2>2. stack'[j] = stack[j - 1]
    BY <1>4, <2>1
  <2>3. CASE i = 1
    BY <1>1, <1>4, <1>5, <2>1, <2>2, <2>3
  <2>4. CASE i # 1
    <3>1. i - 1 \in 1..Len(stack) /\ (i - 1) + 1 = i /\ i - 1 < j - 1
      BY <1>3, <1>4, <1>6, <2>4
    <3>2. stack'[i] = stack[i - 1]
      BY <1>4, <3>1
    <3> QED BY <2>1, <2>2, <3>1, <3>2 DEF OnceInv
  <2> QED BY <2>3, <2>4
<1> QED BY <1>1, <1>4, <1>6

LEMMA RunOnce ==
  ASSUME IInv, OnceInv, calling \in Args \ cached, Run, cached' = cached
  PROVE  /\ limit = Unlimited => calling \notin ran
         /\ OnceInv'
<1>1. ran' = ran \cup {calling} /\ limit' = limit /\ Len(stack) \in Nat
  BY DEF Run, IInv, Typed
<1>2. /\ Len(stack') = Len(stack) + 1 /\ stack'[1].arg = calling
      /\ \A i \in 1..Len(stack) : stack'[i + 1] = stack[i]
      /\ \A i, j \in 1..Len(stack') : i < j => Depth[stack'[i].arg] < Depth[stack'[j].arg]
  BY PushedOrder
<1>3. calling \notin Running
  <2> SUFFICES ASSUME NEW i \in 1..Len(stack), stack[i].arg = calling
               PROVE  FALSE
    BY DEF Running
  <2>1. Depth[calling] < Depth[calling] /\ Depth[calling] \in Nat
    BY CallsDescend, MemoAssumption
  <2> QED BY <2>1
<1>4. Running \cup {calling} \subseteq Running'
  <2>1. calling \in Running'
    <3>1. 1 \in 1..Len(stack')
      BY <1>1, <1>2
    <3> QED BY <1>2, <3>1 DEF Running
  <2>2. ASSUME NEW i \in 1..Len(stack)
        PROVE  stack[i].arg \in Running'
    <3>1. i + 1 \in 1..Len(stack') /\ stack'[i + 1].arg = stack[i].arg
      BY <1>1, <1>2
    <3> QED BY <3>1 DEF Running
  <2> QED BY <2>1, <2>2 DEF Running
<1> QED BY <1>1, <1>2, <1>3, <1>4 DEF OnceInv

LEMMA HitOnce ==
  ASSUME IInv, OnceInv, Hit
  PROVE  OnceInv' /\ Len(stack') = Len(stack)
<1>1. Answer(result[calling], stack) /\ UNCHANGED <<limit, cached, ran>>
  BY DEF Hit
<1>2. stack \in Seq(Frame)
  BY DEF IInv, Typed
<1>3. /\ Len(stack') = Len(stack) /\ Len(stack) \in Nat
      /\ \A i \in 1..Len(stack) : stack'[i].arg = stack[i].arg
  BY <1>1, <1>2, Answered, MemoAssumption
<1>4. Running' = Running
  BY <1>3 DEF Running
<1> QED BY <1>1, <1>3, <1>4 DEF OnceInv

LEMMA ReturnOnce ==
  ASSUME IInv, OnceInv, Return
  PROVE  OnceInv' /\ Len(stack') = Len(stack) - 1
<1>1. /\ stack # <<>> /\ stack \in Seq(Frame) /\ Head(stack) = stack[1]
      /\ UNCHANGED <<limit, ran>>
  BY DEF Return, IInv, Typed
<1>2. cached' = cached \cup {stack[1].arg} /\ Answer(Unused, Tail(stack))
  BY <1>1 DEF Return
<1>3. /\ Tail(stack) \in Seq(Frame) /\ Len(Tail(stack)) = Len(stack) - 1
      /\ Len(stack) \in Nat /\ Len(stack) # 0
      /\ \A i \in 1..Len(stack) - 1 : Tail(stack)[i] = stack[i + 1]
  BY <1>1
<1>4. /\ Len(stack') = Len(stack) - 1
      /\ \A i \in 1..Len(stack) - 1 : stack'[i].arg = stack[i + 1].arg
  BY ZenonT(30), <1>2, <1>3, Answered, MemoAssumption
<1>5. \A i, j \in 1..Len(stack') : i < j => Depth[stack'[i].arg] < Depth[stack'[j].arg]
  <2> SUFFICES ASSUME NEW i \in 1..Len(stack'), NEW j \in 1..Len(stack'), i < j
               PROVE  Depth[stack'[i].arg] < Depth[stack'[j].arg]
    OBVIOUS
  <2>1. i + 1 \in 1..Len(stack) /\ j + 1 \in 1..Len(stack) /\ i + 1 < j + 1
    BY <1>3, <1>4
  <2> QED BY <1>3, <1>4, <2>1 DEF OnceInv
<1>6. Running \subseteq {stack[1].arg} \cup Running'
  <2> SUFFICES ASSUME NEW i \in 1..Len(stack), i # 1
               PROVE  stack[i].arg \in Running'
    BY DEF Running
  <2>1. i - 1 \in 1..Len(stack') /\ stack'[i - 1].arg = stack[(i - 1) + 1].arg /\ (i - 1) + 1 = i
    BY <1>3, <1>4
  <2> QED BY <2>1 DEF Running
<1> QED BY <1>1, <1>2, <1>4, <1>5, <1>6 DEF OnceInv

(* The cache never drops an entry when it has no limit. *)
LEMMA MissFullOnce ==
  ASSUME IInv, OnceInv, MissFull
  PROVE  limit # Unlimited /\ OnceInv'
<1>1. limit # Unlimited /\ limit' = limit /\ calling \in Args /\ Run
  BY DEF MissFull, Full, Run
<1> QED BY <1>1, PushedOrder DEF OnceInv

LEMMA NextOnce ==
  ASSUME IInv, OnceInv, [Next]_vars
  PROVE  /\ OnceInv'
         /\ limit = Unlimited /\ Len(stack') > Len(stack) => calling \notin ran
<1>0. Len(stack) \in Nat
  BY DEF IInv, Typed
<1>1. CASE MissWithRoom
  BY <1>1, RunOnce DEF MissWithRoom
<1>2. CASE MissFull
  BY <1>2, MissFullOnce
<1>3. CASE Hit
  BY <1>0, <1>3, HitOnce
<1>4. CASE Return
  BY <1>0, <1>4, ReturnOnce
<1>5. CASE UNCHANGED <<stack, cached, ran, limit>>
  BY <1>0, <1>5 DEF OnceInv, Running
<1> QED BY <1>1, <1>2, <1>3, <1>4, <1>5 DEF Next, Call, Recur, Change, vars

(* A cache without a limit lets the function run once for an argument,     *)
(* for any arguments and recursion, whoever calls it and how often         *)
(* (compile/functions.c, add_cache).                                       *)
THEOREM CacheRunsOnce == Spec => RunsOnce
<1>1. Init => OnceInv
  BY DEF Init, OnceInv, Running
<1>2. IInv /\ OnceInv /\ [Next]_vars => OnceInv'
  BY NextOnce
<1>3. IInv /\ OnceInv /\ [Next]_vars
        => [limit = Unlimited /\ Len(stack') > Len(stack) => calling \notin ran]_vars
  BY NextOnce
<1> QED BY <1>1, <1>2, <1>3, Invariance, PTL DEF Spec, RunsOnce

-----------------------------------------------------------------------------
(* Results are right as long as the program leaves alone what the cache    *)
(* has, too: then no entry is memory that was changed.                     *)

RightInv ==
  /\ Right
  /\ DOMAIN result = Args
  /\ \A a \in cached : result[a] \notin changed

(* A right answer leaves the program, or the call below, with right ones. *)
LEMMA AnsweredRight ==
  ASSUME NEW calls \in Seq(Frame), \A i \in DOMAIN calls : calls[i].right,
         NEW block, block \notin changed', held \cap changed' = {}, Answer(block, calls)
  PROVE  Right'
<1>1. CASE calls = <<>>
  <2>1. stack' = <<>> /\ held' \subseteq held \cup {block}
    BY <1>1 DEF Answer
  <2> QED BY <2>1 DEF Right
<1>2. CASE calls # <<>>
  <2> DEFINE right == Head(calls).right /\ block \notin changed'
             top == [Head(calls) EXCEPT !.returned = @ + 1, !.right = right]
  <2>1. /\ Head(calls) \in Frame /\ Head(calls) = calls[1] /\ 1 \in DOMAIN calls
        /\ Tail(calls) \in Seq(Frame) /\ Len(Tail(calls)) = Len(calls) - 1
        /\ Len(calls) \in Nat /\ DOMAIN calls = 1..Len(calls)
        /\ \A i \in 1..Len(calls) - 1 : Tail(calls)[i] = calls[i + 1] /\ i + 1 \in DOMAIN calls
    BY <1>2
  <2>2. right \in BOOLEAN /\ right
    BY <2>1
  <2>3. stack' = <<top>> \o Tail(calls) /\ held' = held
    BY <1>2 DEF Answer
  <2> HIDE DEF right
  <2>4. top \in Frame /\ top.right
    <3>1. Head(calls).arg \in Args /\ Head(calls).returned + 1 \in Nat
      BY <2>1 DEF Frame
    <3>2. top = [Head(calls) EXCEPT !.returned = @ + 1, !.right = right]
      OBVIOUS
    <3> HIDE DEF top
    <3>3. top = [arg |-> Head(calls).arg, returned |-> Head(calls).returned + 1, right |-> right]
      BY <2>1, <3>2 DEF Frame
    <3> QED BY <2>2, <3>1, <3>3 DEF Frame
  <2> HIDE DEF top
  <2>5. /\ DOMAIN stack' = 1..Len(calls) /\ stack'[1] = top
        /\ \A i \in 1..Len(calls) - 1 : stack'[i + 1] = Tail(calls)[i]
    BY <2>1, <2>3, <2>4
  <2>6. ASSUME NEW i \in 1..Len(calls)
        PROVE  stack'[i].right
    <3>1. CASE i = 1
      BY <2>4, <2>5, <3>1
    <3>2. CASE i # 1
      <4>1. i - 1 \in 1..Len(calls) - 1 /\ (i - 1) + 1 = i
        BY <2>1, <3>2
      <4>2. stack'[i] = calls[i]
        BY <2>1, <2>5, <4>1
      <4> QED BY <2>1, <4>2
    <3> QED BY <3>1, <3>2
  <2> QED BY <2>3, <2>5, <2>6 DEF Right
<1> QED BY <1>1, <1>2

LEMMA RunRight ==
  ASSUME IInv, RightInv, Run, calling \in Args, DOMAIN result' = Args,
         cached' \subseteq cached, \A a \in cached' : result'[a] = result[a]
  PROVE  RightInv'
<1> DEFINE top == [arg |-> calling, returned |-> 0, right |-> TRUE]
<1>1. top \in Frame /\ top.right
  BY DEF Frame
<1>2. stack' = <<top>> \o stack /\ UNCHANGED <<held, changed>>
  BY DEF Run
<1> HIDE DEF top
<1>3. stack \in Seq(Frame) /\ Len(stack) \in Nat
  BY DEF IInv, Typed
<1>4. /\ DOMAIN stack' = 1..Len(stack) + 1 /\ stack'[1] = top
      /\ \A i \in 1..Len(stack) : stack'[i + 1] = stack[i] /\ i \in DOMAIN stack
  BY <1>1, <1>2, <1>3
<1>5. ASSUME NEW i \in 1..Len(stack) + 1
      PROVE  stack'[i].right
  <2>1. CASE i = 1
    BY <1>1, <1>4, <2>1
  <2>2. CASE i # 1
    <3>1. i - 1 \in 1..Len(stack) /\ (i - 1) + 1 = i
      BY <1>3, <2>2
    <3> QED BY <1>4, <3>1 DEF RightInv, Right
  <2> QED BY <2>1, <2>2
<1> QED BY <1>2, <1>4, <1>5 DEF RightInv, Right

LEMMA ReturnRight ==
  ASSUME IInv, RightInv, Return
  PROVE  RightInv'
<1> DEFINE top == Head(stack)
           block == Unused
<1>1. /\ stack # <<>> /\ stack \in Seq(Frame) /\ top = stack[1] /\ 1 \in DOMAIN stack
      /\ top \in Frame
  BY DEF Return, IInv, Typed
<1>2. top.right /\ top.arg \in Args
  BY <1>1 DEF RightInv, Right, Frame
<1>3. /\ cached' = cached \cup {top.arg} /\ result' = [result EXCEPT ![top.arg] = block]
      /\ changed' = changed \ {block} /\ Answer(block, Tail(stack))
  BY <1>2 DEF Return
<1> HIDE DEF top, block
<1>4. /\ Tail(stack) \in Seq(Frame)
      /\ \A i \in DOMAIN Tail(stack) : Tail(stack)[i] = stack[i + 1] /\ i + 1 \in DOMAIN stack
  BY <1>1
<1>5. \A i \in DOMAIN Tail(stack) : Tail(stack)[i].right
  BY <1>4 DEF RightInv, Right
<1>6. Right'
  BY <1>3, <1>4, <1>5, AnsweredRight DEF RightInv, Right
<1>7. \A a \in cached' : result'[a] \notin changed'
  BY <1>2, <1>3 DEF RightInv, IInv, Typed
<1> QED BY <1>3, <1>6, <1>7 DEF RightInv

LEMMA NextRight ==
  ASSUME ~Writes, IInv, RightInv, [Next]_vars
  PROVE  RightInv'
<1>1. CASE MissWithRoom
  BY <1>1, RunRight DEF MissWithRoom, RightInv
<1>2. CASE MissFull
  <2>1. calling \in Args /\ Run /\ DOMAIN result' = Args /\ cached' \subseteq cached
    BY <1>2 DEF MissFull, RightInv
  <2>2. \A a \in cached' : result'[a] = result[a]
    BY <1>2 DEF MissFull, RightInv, IInv, Typed
  <2> QED BY <2>1, <2>2, RunRight
<1>3. CASE Hit
  <2>1. /\ calling \in cached /\ Answer(result[calling], stack)
        /\ UNCHANGED <<changed, cached, result>>
    BY <1>3 DEF Hit
  <2>2. /\ stack \in Seq(Frame) /\ \A i \in DOMAIN stack : stack[i].right
        /\ result[calling] \notin changed' /\ held \cap changed' = {}
    BY <2>1 DEF IInv, Typed, RightInv, Right
  <2>3. Right'
    BY <2>1, <2>2, AnsweredRight
  <2> QED BY <2>1, <2>3 DEF RightInv
<1>4. CASE Return
  BY <1>4, ReturnRight
<1>5. CASE Change
  <2>1. PICK block \in held :
          /\ block \notin {result[a] : a \in cached}
          /\ changed' = changed \cup {block} /\ held' = held \ {block}
    BY <1>5 DEF Change
  <2>2. UNCHANGED <<cached, result, stack>>
    BY <1>5 DEF Change
  <2> QED BY <2>1, <2>2 DEF RightInv, Right
<1>6. CASE UNCHANGED <<stack, cached, result, changed, held>>
  BY <1>6 DEF RightInv, Right
<1> QED BY <1>1, <1>2, <1>3, <1>4, <1>5, <1>6 DEF Next, Call, Recur, vars

(* In a program that changes no result that the cache still has, every     *)
(* call returns what the function computes, from the cache or not.         *)
THEOREM CacheIsRight == ~Writes => (Spec => []Right)
<1> SUFFICES ASSUME ~Writes
             PROVE  Spec => []Right
  OBVIOUS
<1>1. Init => RightInv
  BY DEF Init, RightInv, Right
<1>2. IInv /\ RightInv /\ [Next]_vars => RightInv'
  BY NextRight
<1>3. RightInv => Right
  BY DEF RightInv
<1> QED BY <1>1, <1>2, <1>3, Invariance, PTL DEF Spec
=============================================================================
