---------------------------- MODULE HashMapProof ----------------------------
(***************************************************************************)
(* Proofs about HashMap.tla, for every set of keys, every hash function    *)
(* and every first capacity: first that the array of buckets stays in      *)
(* order, then Brent's invariant (what was stored is found), that the map  *)
(* implements Table.tla, and that no call runs for ever.                   *)
(***************************************************************************)
EXTENDS HashMap, TLAPS, SequenceTheorems, FiniteSetTheorems, WellFoundedInduction

Placing == {"place", "free", "predecessor", "tail"}

(* What the running call knows at each of its program points. *)
Located ==
  /\ cur \in 1..capacity
  /\ prev = 0 => cur = Home(op.key)
  /\ prev # 0 => buckets[prev].next1 = cur

Running ==
  /\ pc = "idle" => prev = 0
  /\ pc # "idle" => capacity # 0 /\ op.kind # "none"
  /\ pc = "probe" => Located
  /\ pc \in {"last", "unlink"} =>
       /\ op.kind = "remove" /\ Located
       /\ Full(cur) /\ KeyAt(cur) = op.key
       /\ scan \in 1..capacity
  /\ pc = "unlink" => buckets[scan].index1 = count
  /\ pc = "append" => op.kind = "set" /\ count < capacity
  /\ pc \in Placing =>
       /\ op.kind = "set" /\ index \in 1..count
       /\ \A b \in 1..capacity : buckets[b].index1 < index
       /\ entries[index].key # op.key => count < capacity
  /\ pc \in {"free", "predecessor", "tail"} =>
       cur = Home(entries[index].key) /\ Full(cur)
  /\ pc \in {"predecessor", "tail"} =>
       lastfree # 0 /\ ~Full(lastfree) /\ scan \in 1..capacity
  /\ pc = "predecessor" =>
       /\ Home(KeyAt(cur)) # cur /\ scan # cur
       /\ scan # Home(KeyAt(cur)) => Full(Home(KeyAt(cur)))
  /\ pc = "tail" => Full(scan) /\ Home(KeyAt(scan)) = cur

(* The inductive invariant. *)
IInv == TypeOK /\ OneBucketEach /\ Links /\ FreeBelow /\ Running

-----------------------------------------------------------------------------
LEMMA HomeInRange ==
  ASSUME HashMapAssumption, capacity \in Nat \ {0}, NEW k \in Keys
  PROVE  Home(k) \in 1..capacity
BY DEF HashMapAssumption, Home

LEMMA InitInv == HashMapAssumption /\ Init => IInv
BY DEF HashMapAssumption, Init, IInv, TypeOK, OneBucketEach, Links, FreeBelow,
       Running, Located, Placing, count, Full, Maybe, Labels, Ops, NoOp, Bucket, Entry

(* While entry number `index' waits for its bucket, a bucket is free: the  *)
(* full ones hold different entries with smaller numbers.                  *)
LEMMA FreeBucket ==
  ASSUME TypeOK, OneBucketEach, index \in 1..capacity,
         \A b \in 1..capacity : buckets[b].index1 < index
  PROVE  \E b \in 1..capacity : ~Full(b)
<1> SUFFICES ASSUME \A b \in 1..capacity : Full(b)
             PROVE  FALSE
  OBVIOUS
<1> DEFINE number == [b \in 1..capacity |-> buckets[b].index1]
<1>1. number \in [1..capacity -> 1..(index - 1)]
  BY DEF TypeOK, Bucket, Full, count
<1>2. /\ IsFiniteSet(1..capacity) /\ Cardinality(1..capacity) = capacity
      /\ IsFiniteSet(1..(index - 1)) /\ Cardinality(1..(index - 1)) = index - 1
  BY FS_Interval DEF TypeOK
<1>3. PICK a, b \in 1..capacity : a # b /\ number[a] = number[b]
  <2> HIDE DEF number
  <2> QED BY <1>1, <1>2, FS_PigeonHole, index - 1 < capacity DEF TypeOK
<1> QED BY <1>3 DEF OneBucketEach

LEMMA OpKey ==
  ASSUME op \in Ops, op.kind # "none"
  PROVE  op.key \in Keys
BY DEF Ops

LEMMA EntryKey ==
  ASSUME TypeOK, NEW i \in 1..count
  PROVE  entries[i] \in Entry /\ entries[i].key \in Keys /\ entries[i].value \in Values
<1>1. entries[i] \in Entry
  BY ElementOfSeq DEF TypeOK, count
<1> QED BY <1>1 DEF Entry

-----------------------------------------------------------------------------
(* Steps that leave the table as it is. *)

LEMMA SameTable ==
  ASSUME OneBucketEach, Links, FreeBelow, UNCHANGED table
  PROVE  OneBucketEach' /\ Links' /\ FreeBelow'
BY DEF OneBucketEach, Links, FreeBelow, table, Full, KeyAt, Home

LEMMA ProbeStarts ==
  ASSUME HashMapAssumption, IInv, capacity # 0, NEW k \in Keys, NEW call \in Ops,
         call.kind # "none", call.key = k,
         StartProbe(call, Home(k)), UNCHANGED <<capacity, lastfree, buckets>>
  PROVE  IInv'
<1>1. Home(k) \in 1..capacity
  BY HomeInRange DEF IInv, TypeOK
<1>2. UNCHANGED table /\ OneBucketEach' /\ Links' /\ FreeBelow'
  BY SameTable DEF IInv, StartProbe, table
<1>3. TypeOK'
  BY <1>1, <1>2 DEF IInv, TypeOK, StartProbe, Goto, Labels, table, count, Bucket, Entry
<1>4. Running'
  BY <1>1, <1>2 DEF IInv, TypeOK, Running, Located, StartProbe, Goto, Placing, Home
<1> QED BY <1>2, <1>3, <1>4 DEF IInv

LEMMA GetInv ==
  ASSUME HashMapAssumption, IInv, NEW k \in Keys, Get(k)
  PROVE  IInv'
<1> DEFINE call == [kind |-> "get", key |-> k]
<1>1. call \in Ops /\ call.kind # "none" /\ call.key = k
  BY DEF Ops
<1> QED BY <1>1, ProbeStarts DEF Get

LEMMA RemoveInv ==
  ASSUME HashMapAssumption, IInv, NEW k \in Keys, Remove(k)
  PROVE  IInv'
<1> DEFINE call == [kind |-> "remove", key |-> k]
<1>1. call \in Ops /\ call.kind # "none" /\ call.key = k
  BY DEF Ops
<1> QED BY <1>1, ProbeStarts DEF Remove

LEMMA QuietInv ==
  ASSUME HashMapAssumption, IInv,
         \/ \E k \in Keys : GetUnallocated(k)
         \/ \E k \in FallbackKeys, v \in Maybe : ChangeFallback(k, v)
         \/ Found \/ NotFound \/ NothingToRemove
  PROVE  IInv'
<1>1. UNCHANGED table /\ OneBucketEach' /\ Links' /\ FreeBelow'
  BY SameTable DEF IInv, GetUnallocated, ChangeFallback, Found, NotFound, NothingToRemove
<1>2. pc' = "idle" /\ op' \in Ops /\ cur' \in 0..capacity /\ prev' = 0
        /\ scan' \in 0..capacity /\ index' \in 0..count
  <2>1. count \in Nat BY LenProperties DEF IInv, TypeOK, count
  <2> QED BY <2>1 DEF IInv, TypeOK, Running, GetUnallocated, ChangeFallback, Found,
             NotFound, NothingToRemove, Return, NoOp, Ops, locals
<1>3. fallback' \in [Keys -> Maybe] /\ answer' \in Maybe
  <2>1. CASE \E k \in FallbackKeys, v \in Maybe : ChangeFallback(k, v)
    BY <2>1 DEF IInv, TypeOK, ChangeFallback
  <2>2. CASE Found
    <3>1. cur \in 1..capacity /\ buckets[cur].index1 \in 1..count
      BY <2>2 DEF IInv, TypeOK, Running, Located, Found, Hit, Full, Bucket
    <3> QED BY <2>2, <3>1, EntryKey DEF IInv, TypeOK, Found, Maybe
  <2>3. CASE NotFound
    <3>1. op.key \in Keys
      BY <2>3, OpKey DEF IInv, TypeOK, Running, NotFound
    <3> QED BY <2>3, <3>1 DEF HashMapAssumption, IInv, TypeOK, NotFound, Elsewhere, Or, Maybe
  <2>4. CASE \E k \in Keys : GetUnallocated(k)
    BY <2>4 DEF HashMapAssumption, IInv, TypeOK, GetUnallocated, Elsewhere, Or, Maybe
  <2>5. CASE NothingToRemove
    BY <2>5 DEF IInv, TypeOK, NothingToRemove
  <2> QED BY <2>1, <2>2, <2>3, <2>4, <2>5
<1>4. TypeOK'
  BY <1>1, <1>2, <1>3, 0 \in 0..capacity DEF IInv, TypeOK, table, Labels, count, Bucket, Entry, Maybe, Ops
<1>5. Running'
  BY <1>2 DEF Running, Placing
<1> QED BY <1>1, <1>4, <1>5 DEF IInv

LEMMA ProbeNextInv ==
  ASSUME HashMapAssumption, IInv, ProbeNext
  PROVE  IInv'
<1>1. UNCHANGED table /\ OneBucketEach' /\ Links' /\ FreeBelow'
  BY SameTable DEF IInv, ProbeNext
<1>2. cur \in 1..capacity /\ buckets[cur].next1 \in 1..capacity
  BY DEF IInv, TypeOK, Bucket, Running, Located, ProbeNext, ChainEnds
<1>3. TypeOK'
  BY <1>1, <1>2 DEF IInv, TypeOK, ProbeNext, table, Labels, count, Bucket, Entry, Maybe, Ops
<1>4. Running'
  BY <1>1, <1>2 DEF IInv, Running, Located, ProbeNext, Placing, table
<1> QED BY <1>1, <1>3, <1>4 DEF IInv

(* The steps that only move the scan, or the program counter. *)
LEMMA SeekInv ==
  ASSUME HashMapAssumption, IInv,
         \/ HomeTaken \/ FoundFree \/ SeekPredecessor \/ SeekTail
         \/ RemoveLast \/ RemoveFromMiddle \/ SeekLast \/ FoundLast \/ NoGrow
  PROVE  IInv'
<1>1. UNCHANGED <<table, fallback, answer, op>> /\ OneBucketEach' /\ Links' /\ FreeBelow'
  BY SameTable DEF IInv, HomeTaken, FoundFree, SeekPredecessor, SeekTail, FollowBlindly,
     RemoveLast, RemoveFromMiddle, SeekLast, FoundLast, NoGrow, Room
<1>2. capacity \in Nat \ {0} /\ count \in Nat
  BY LenProperties DEF IInv, TypeOK, Running, HomeTaken, FoundFree, SeekPredecessor, SeekTail,
     RemoveLast, RemoveFromMiddle, SeekLast, FoundLast, NoGrow, Room, count
<1>3. \A b \in 1..capacity : Full(b) =>
         buckets[b].index1 \in 1..count /\ KeyAt(b) \in Keys /\ Home(KeyAt(b)) \in 1..capacity
  <2> SUFFICES ASSUME NEW b \in 1..capacity, Full(b)
               PROVE  /\ buckets[b].index1 \in 1..count
                      /\ KeyAt(b) \in Keys /\ Home(KeyAt(b)) \in 1..capacity
    OBVIOUS
  <2>1. buckets[b].index1 \in 1..count
    BY DEF IInv, TypeOK, Bucket, Full
  <2>2. KeyAt(b) \in Keys
    BY <2>1, EntryKey DEF IInv, KeyAt
  <2> QED BY <1>2, <2>1, <2>2, HomeInRange
<1>4. \A b \in 1..capacity : buckets[b].next1 # 0 =>
         LET n == buckets[b].next1
         IN  n \in 1..capacity /\ Full(n) /\ Full(b) /\ Home(KeyAt(n)) = Home(KeyAt(b))
  BY DEF IInv, TypeOK, Links, Bucket
<1>5. cur' \in 0..capacity /\ prev' \in 0..capacity /\ scan' \in 0..capacity
        /\ index' = index /\ pc' \in Labels
  <2>1. CASE HomeTaken
    <3>1. Home(entries[index].key) \in 1..capacity
      BY <1>2, <2>1, EntryKey, HomeInRange DEF IInv, Running, Placing, HomeTaken
    <3> QED BY <2>1, <3>1 DEF IInv, TypeOK, HomeTaken, Goto, Labels
  <2>2. CASE FoundFree
    <3>1. cur \in 1..capacity /\ Full(cur)
      BY <2>2, <1>2, EntryKey, HomeInRange DEF IInv, Running, Placing, FoundFree
    <3> QED BY <2>2, <3>1, <1>3 DEF IInv, TypeOK, FoundFree, Goto, Labels
  <2>3. CASE SeekPredecessor
    BY <2>3 DEF IInv, TypeOK, Bucket, Running, SeekPredecessor, FollowBlindly
  <2>4. CASE SeekTail
    BY <2>4 DEF IInv, TypeOK, Bucket, Running, SeekTail
  <2>5. CASE SeekLast
    BY <2>5 DEF IInv, TypeOK, Bucket, Running, SeekLast, FollowBlindly
  <2>6. CASE RemoveLast \/ FoundLast \/ NoGrow
    BY <2>6, <1>2 DEF IInv, TypeOK, RemoveLast, FoundLast, NoGrow, Room, Goto, Labels
  <2>7. CASE RemoveFromMiddle
    <3>1. count \in 1..count
      BY <1>2, <1>3, <2>7 DEF IInv, Running, Located, RemoveFromMiddle, Hit
    <3>2. Home(entries[count].key) \in 1..capacity
      BY <1>2, <3>1, EntryKey, HomeInRange DEF IInv
    <3> QED BY <2>7, <3>2 DEF IInv, TypeOK, RemoveFromMiddle, Goto, Labels
  <2> QED BY <2>1, <2>2, <2>3, <2>4, <2>5, <2>6, <2>7
<1>6. TypeOK'
  BY <1>1, <1>5 DEF IInv, TypeOK, table, count, Bucket, Entry, Maybe, Ops
<1>7. Running'
  <2> USE <1>1 DEF IInv, Running, Placing, Goto, table, Full, Home, KeyAt, count
  <2>1. CASE HomeTaken
    BY <2>1 DEF HomeTaken
  <2>2. CASE FoundFree
    <3>1. cur \in 1..capacity /\ Full(cur)
      BY <2>2, <1>2, EntryKey, HomeInRange DEF FoundFree
    <3>2. scan' \in 1..capacity
      BY <2>2, <3>1, <1>3 DEF FoundFree
    <3>3. /\ op.kind = "set" /\ index \in 1..count
          /\ \A b \in 1..capacity : buckets[b].index1 < index
          /\ entries[index].key # op.key => count < capacity
          /\ cur = Home(entries[index].key)
          /\ lastfree # 0 /\ ~Full(lastfree)
      BY <2>2 DEF FoundFree
    <3>4. CASE Home(KeyAt(cur)) # cur
      BY <2>2, <3>1, <3>2, <3>3, <3>4 DEF FoundFree
    <3>5. CASE Home(KeyAt(cur)) = cur
      BY <2>2, <3>1, <3>2, <3>3, <3>5 DEF FoundFree
    <3> QED BY <3>4, <3>5
  <2>3. CASE SeekPredecessor
    BY <2>3, <1>4 DEF SeekPredecessor, FollowBlindly
  <2>4. CASE SeekTail
    BY <2>4, <1>4 DEF SeekTail
  <2>5. CASE SeekLast
    BY <2>5, <1>4 DEF SeekLast, FollowBlindly, Located
  <2>6. CASE RemoveLast
    <3>1. cur \in 1..capacity /\ cur' = cur /\ scan' = cur /\ prev' = prev
          /\ pc = "probe" /\ pc' = "unlink" /\ op.kind = "remove"
          /\ Full(cur) /\ KeyAt(cur) = op.key /\ buckets[cur].index1 = count
      BY <2>6 DEF RemoveLast, Located, Hit
    <3>2. Located'
      BY <3>1 DEF Located
    <3> QED BY <3>1, <3>2
  <2>7. CASE FoundLast
    <3>1. Located'
      BY <2>7 DEF FoundLast, Located
    <3> QED BY <2>7, <3>1 DEF FoundLast
  <2>8. CASE NoGrow
    BY <2>8 DEF NoGrow, Room
  <2>9. CASE RemoveFromMiddle
    <3>1. Located'
      BY <2>9 DEF RemoveFromMiddle, Located
    <3>2. Home(entries[count].key) \in 1..capacity
      <4>1. count \in 1..count
        BY <1>2, <1>3, <2>9 DEF Located, RemoveFromMiddle, Hit
      <4> QED BY <1>2, <4>1, EntryKey, HomeInRange
    <3> QED BY <2>9, <3>1, <3>2 DEF RemoveFromMiddle, Hit
  <2> QED BY <2>1, <2>2, <2>3, <2>4, <2>5, <2>6, <2>7, <2>8, <2>9
<1> QED BY <1>1, <1>6, <1>7 DEF IInv

-----------------------------------------------------------------------------
(* Steps that change the table. *)

LEMMA EmptyBuckets ==
  ASSUME NEW n \in Nat, Allocate(n)
  PROVE  /\ OneBucketEach' /\ Links' /\ FreeBelow'
         /\ capacity' = n /\ lastfree' = n
         /\ buckets' = [b \in 1..n |-> Empty]
BY DEF Allocate, Empty, OneBucketEach, Links, FreeBelow, Full

LEMMA SetInv ==
  ASSUME HashMapAssumption, IInv, NEW k \in Keys, NEW v \in Maybe, Set(k, v)
  PROVE  IInv'
<1> DEFINE call == [kind |-> "set", key |-> k, value |-> v]
<1>1. call \in Ops /\ call.kind # "none" /\ call.key = k
  BY DEF Ops
<1>2. CASE capacity # 0
  BY <1>1, <1>2, ProbeStarts DEF Set
<1>3. CASE capacity = 0
  <2> DEFINE home == 1 + (Hash[k] % FirstCapacity)
  <2>1. home \in 1..FirstCapacity /\ FirstCapacity \in Nat \ {0}
    BY DEF HashMapAssumption
  <2>2. /\ StartProbe(call, home) /\ Allocate(FirstCapacity)
        /\ OneBucketEach' /\ Links' /\ FreeBelow'
        /\ capacity' = FirstCapacity /\ lastfree' = FirstCapacity
        /\ buckets' = [b \in 1..FirstCapacity |-> Empty]
    BY <1>3, <2>1, EmptyBuckets DEF Set
  <2>3. count \in Nat /\ count = 0 /\ prev = 0 /\ scan \in 0..capacity /\ index \in 0..count
    BY <1>3, <2>2, LenProperties DEF IInv, TypeOK, Running, StartProbe, count
  <2>4. buckets' \in [1..capacity' -> Bucket']
    BY <2>1, <2>2, <2>3 DEF Empty, Bucket, StartProbe, count
  <2>5. TypeOK'
    <3>1. /\ UNCHANGED <<entries, fallback, answer, prev, scan, index>> /\ count' = count
          /\ pc' = "probe" /\ op' = call /\ cur' = home
      BY <2>2 DEF StartProbe, Goto, count
    <3>2. cur' \in 0..capacity' /\ prev' \in 0..capacity' /\ scan' \in 0..capacity'
          /\ index' \in 0..count' /\ capacity' \in Nat /\ lastfree' \in 0..capacity'
          /\ count' <= capacity'
      BY <1>3, <2>1, <2>2, <2>3, <3>1
    <3> QED BY <1>1, <2>4, <3>1, <3>2 DEF IInv, TypeOK, Labels, Entry, Maybe, Ops
  <2>6. Running'
    BY <1>1, <2>1, <2>2, <2>3 DEF Running, Located, StartProbe, Goto, Placing, Home
  <2> QED BY <2>2, <2>5, <2>6 DEF IInv
<1> QED BY <1>2, <1>3

(* The entries after Update: the one that was found has the new value. *)
LEMMA UpdatedEntries ==
  ASSUME HashMapAssumption, IInv, Update
  PROVE  /\ entries' \in Seq(Entry) /\ count' = count
         /\ \A i \in 1..count : entries'[i].key = entries[i].key
         /\ \A i \in 1..count :
              entries'[i].value = IF i = buckets[cur].index1 /\ op.value # NoValue
                                    THEN op.value ELSE entries[i].value
<1>1. cur \in 1..capacity /\ buckets[cur].index1 \in 1..count
  BY DEF IInv, TypeOK, Running, Located, Update, Hit, Full, Bucket
<1>2. op.value \in Maybe
  BY DEF IInv, TypeOK, Update, Ops, Maybe
<1>3. /\ entries' \in Seq(Entry) /\ count' = count
      /\ \A i \in 1..count : entries'[i].key = entries[i].key
      /\ \A i \in 1..count :
           entries'[i].value = IF i = buckets[cur].index1 /\ op.value # NoValue
                                 THEN op.value ELSE entries[i].value
  <2>1. CASE op.value = NoValue
    BY <2>1 DEF IInv, TypeOK, Update, count, Entry
  <2>2. CASE op.value # NoValue
    <3> DEFINE i == buckets[cur].index1
               e == [entries[i] EXCEPT !.value = op.value]
    <3>1. entries' = [entries EXCEPT ![i] = e]
      BY <2>2 DEF Update
    <3>2. e \in Entry /\ e.key = entries[i].key /\ e.value = op.value
      BY <1>1, <1>2, <2>2, EntryKey DEF IInv, Entry, Maybe
    <3>3. i \in 1..Len(entries) /\ entries \in Seq(Entry)
      BY <1>1 DEF IInv, TypeOK, count
    <3> HIDE DEF i, e
    <3>4. /\ [entries EXCEPT ![i] = e] \in Seq(Entry)
          /\ Len([entries EXCEPT ![i] = e]) = Len(entries)
          /\ \A j \in 1..Len(entries) :
                [entries EXCEPT ![i] = e][j] = IF j = i THEN e ELSE entries[j]
      BY <3>2, <3>3, ExceptSeq
    <3> QED BY <2>2, <3>1, <3>2, <3>4 DEF count, i
  <2> QED BY <2>1, <2>2
<1> QED BY <1>3

LEMMA UpdateInv ==
  ASSUME HashMapAssumption, IInv, Update
  PROVE  IInv'
<1>1. count \in Nat /\ UNCHANGED <<capacity, lastfree, buckets, fallback, answer>>
  BY LenProperties DEF IInv, TypeOK, count, Update
<1>2. TypeOK'
  BY UpdatedEntries, <1>1 DEF IInv, TypeOK, Update, Return, Labels, NoOp, Ops, Bucket, Entry, Maybe
<1>3. Running'
  BY DEF Running, Placing, Update, Return
<1>4. \A b \in 1..capacity : Full(b) => KeyAt(b)' = KeyAt(b)
  <2>1. \A i \in 1..count : entries'[i].key = entries[i].key
    BY UpdatedEntries
  <2> SUFFICES ASSUME NEW b \in 1..capacity, Full(b)
               PROVE  KeyAt(b)' = KeyAt(b)
    OBVIOUS
  <2>2. buckets[b].index1 \in 1..count /\ buckets' = buckets
    BY <1>1 DEF IInv, TypeOK, Bucket, Full
  <2> QED BY <2>1, <2>2 DEF KeyAt
<1>5. OneBucketEach' /\ Links' /\ FreeBelow'
  BY <1>1, <1>4 DEF IInv, OneBucketEach, Links, FreeBelow, Full, Home
<1> QED BY <1>2, <1>3, <1>5 DEF IInv

LEMMA GrowInv ==
  ASSUME HashMapAssumption, IInv, Grow
  PROVE  IInv'
<1>1. /\ capacity \in Nat \ {0} /\ count \in Nat /\ 2 * capacity \in Nat
      /\ count <= capacity /\ op.kind = "set"
  BY LenProperties DEF IInv, TypeOK, Running, Grow, Room, count
<1>2. /\ OneBucketEach' /\ Links' /\ FreeBelow'
      /\ capacity' = 2 * capacity /\ lastfree' = 2 * capacity
      /\ buckets' = [b \in 1..(2 * capacity) |-> Empty]
      /\ UNCHANGED <<entries, fallback, answer, op, scan>>
      /\ cur' = 0 /\ prev' = 0
  <2>1. Allocate(2 * capacity)
    BY DEF Grow, Room
  <2> QED BY <1>1, <2>1, EmptyBuckets DEF Grow, Room
<1>3. count' = count /\ buckets' \in [1..capacity' -> Bucket']
  BY <1>1, <1>2 DEF Empty, Bucket, count
<1>4. index' \in 0..count /\ pc' \in {"append", "place"} /\ (pc' = "place" => index' = 1 /\ count # 0)
  BY <1>1 DEF Grow, Room, Goto
<1>5. TypeOK'
  <2>1. cur' \in 0..capacity' /\ prev' \in 0..capacity' /\ scan' \in 0..capacity'
        /\ index' \in 0..count' /\ capacity' \in Nat /\ lastfree' \in 0..capacity'
        /\ count' <= capacity'
    BY <1>1, <1>2, <1>3, <1>4 DEF IInv, TypeOK
  <2> QED BY <1>2, <1>3, <1>4, <2>1 DEF IInv, TypeOK, Labels, Entry, Maybe, Ops
<1>6. Running'
  BY <1>1, <1>2, <1>3, <1>4 DEF Running, Placing, Empty
<1> QED BY <1>2, <1>5, <1>6 DEF IInv

LEMMA AppendEntryInv ==
  ASSUME HashMapAssumption, IInv, AppendEntry
  PROVE  IInv'
<1> DEFINE e == [key |-> op.key, value |-> Or(Or(op.value, Elsewhere(op.key)), Zero)]
<1>1. op.key \in Keys /\ op.value \in Maybe /\ capacity \in Nat \ {0}
      /\ op.kind = "set" /\ count < capacity
  BY DEF IInv, TypeOK, Running, AppendEntry, Ops
<1>2. e \in Entry
  BY <1>1 DEF IInv, TypeOK, HashMapAssumption, Entry, Or, Elsewhere, Maybe
<1>3. /\ entries' \in Seq(Entry) /\ count' = count + 1 /\ count \in Nat
      /\ \A i \in 1..count : entries'[i] = entries[i]
      /\ entries'[count + 1] = e
  <2> HIDE DEF e
  <2> QED BY <1>2, AppendProperties, LenProperties DEF IInv, TypeOK, AppendEntry, count, e
<1>4. UNCHANGED <<capacity, lastfree, buckets, fallback, answer, op, cur, prev, scan>>
      /\ index' = count + 1 /\ pc' = "place"
  BY DEF AppendEntry, Goto
<1>5. TypeOK'
  <2>1. buckets \in [1..capacity -> Bucket']
    BY <1>1, <1>3, <1>4 DEF IInv, TypeOK, Bucket
  <2> QED BY <1>1, <1>3, <1>4, <2>1 DEF IInv, TypeOK, Labels, Entry, Maybe, Ops
<1>6. Running'
  BY SMTT(30), <1>1, <1>3, <1>4 DEF IInv, TypeOK, Bucket, Running, Placing
<1>7. \A b \in 1..capacity : Full(b) => KeyAt(b)' = KeyAt(b)
  <2> SUFFICES ASSUME NEW b \in 1..capacity, Full(b)
               PROVE  KeyAt(b)' = KeyAt(b)
    OBVIOUS
  <2>1. buckets[b].index1 \in 1..count
    BY <1>3 DEF IInv, TypeOK, Bucket, Full
  <2> QED BY <1>3, <1>4, <2>1 DEF KeyAt
<1>8. OneBucketEach' /\ Links' /\ FreeBelow'
  BY <1>4, <1>7 DEF IInv, OneBucketEach, Links, FreeBelow, Full, Home
<1> QED BY <1>5, <1>6, <1>8 DEF IInv

LEMMA SeekFreeInv ==
  ASSUME HashMapAssumption, IInv, SeekFree
  PROVE  IInv'
<1>1. UNCHANGED <<capacity, buckets, entries, fallback, answer, locals>>
      /\ lastfree' = lastfree - 1 /\ lastfree \in 1..capacity /\ Full(lastfree)
      /\ capacity \in Nat /\ pc = "free"
  BY DEF IInv, TypeOK, SeekFree
<1>2. OneBucketEach' /\ Links'
  <2>1. UNCHANGED <<capacity, buckets, entries>>
    BY <1>1
  <2>2. OneBucketEach'
    BY <2>1 DEF IInv, OneBucketEach, Full
  <2>3. Links'
    BY SMTT(30), <2>1 DEF IInv, Links, Full, KeyAt, Home
  <2> QED BY <2>2, <2>3
<1>3. FreeBelow'
  BY <1>1 DEF IInv, FreeBelow, Full
<1>4. TypeOK'
  BY <1>1 DEF IInv, TypeOK, locals, Labels, count, Bucket, Entry, Maybe, Ops
<1>5. Running'
  BY <1>1 DEF IInv, Running, Placing, locals, Full, Home, count
<1> QED BY <1>2, <1>3, <1>4, <1>5 DEF IInv

(* What every entry that is given a bucket needs. *)
LEMMA PlacingFacts ==
  ASSUME HashMapAssumption, IInv, pc \in Placing
  PROVE  /\ capacity \in Nat \ {0} /\ count \in Nat /\ index \in 1..count
         /\ entries[index].key \in Keys
         /\ Home(entries[index].key) \in 1..capacity
         /\ \A b \in 1..capacity : buckets[b].index1 < index
         /\ \A b \in 1..capacity : Full(b) => buckets[b].index1 \in 1..count
         /\ \A b \in 1..capacity : buckets[b].index1 \in 0..count /\ buckets[b].next1 \in 0..capacity
         /\ buckets \in [1..capacity -> Bucket]
<1>1. capacity \in Nat \ {0} /\ count \in Nat /\ index \in 1..count
  BY LenProperties DEF IInv, TypeOK, Running, Placing, count
<1>2. entries[index].key \in Keys
  BY <1>1, EntryKey DEF IInv
<1>3. Home(entries[index].key) \in 1..capacity
  BY <1>1, <1>2, HomeInRange
<1>4. \A b \in 1..capacity : buckets[b].index1 < index
  BY DEF IInv, Running
<1>5. buckets \in [1..capacity -> Bucket]
  BY DEF IInv, TypeOK
<1>6. \A b \in 1..capacity : Full(b) => buckets[b].index1 \in 1..count
  BY <1>1, <1>5 DEF Full, Bucket
<1>7. \A b \in 1..capacity : buckets[b].index1 \in 0..count /\ buckets[b].next1 \in 0..capacity
  BY <1>1, <1>5 DEF Bucket
<1> QED BY <1>1, <1>2, <1>3, <1>4, <1>5, <1>6, <1>7

LEMMA MakeBucket ==
  ASSUME NEW i \in 0..count, NEW n \in 0..capacity
  PROVE  [index1 |-> i, next1 |-> n] \in Bucket
BY DEF Bucket

LEMMA PlacedInv ==
  ASSUME HashMapAssumption, IInv, pc \in Placing, Placed,
         UNCHANGED <<capacity, entries, fallback, answer>>,
         buckets' \in [1..capacity -> Bucket], lastfree' \in 0..capacity,
         \A b \in 1..capacity : buckets'[b].index1 <= index
  PROVE  TypeOK' /\ Running'
<1>1. /\ capacity \in Nat \ {0} /\ count \in Nat /\ count' = count /\ Bucket' = Bucket
      /\ index \in 1..count
  BY PlacingFacts DEF count, Bucket
<1>2. CASE Return
  <2>1. TypeOK'
    BY <1>1, <1>2 DEF IInv, TypeOK, Return, NoOp, Ops, Labels, Maybe, Entry
  <2>2. Running'
    BY <1>2 DEF Return, Running, Placing
  <2> QED BY <2>1, <2>2
<1>3. CASE entries[index].key # op.key
  <2>1. op.kind = "set" /\ count < capacity /\ cur' = 0 /\ scan' = 0 /\ op' = op /\ prev' = prev
    BY <1>3 DEF IInv, Running, Placed, Placing
  <2>2. \/ index < count /\ pc' = "place" /\ index' = index + 1
        \/ pc' = "append" /\ index' = 0
    BY <1>3 DEF Placed, Goto
  <2>3. TypeOK'
    BY <1>1, <2>1, <2>2 DEF IInv, TypeOK, Labels, Maybe, Entry, Ops
  <2>4. CASE index < count /\ pc' = "place" /\ index' = index + 1
    <3>1. \A b \in 1..capacity : buckets'[b].index1 < index'
      BY <1>1, <2>4 DEF Bucket
    <3>2. index' \in 1..count'
      BY <1>1, <2>4
    <3> QED BY <1>1, <2>1, <2>3, <2>4, <3>1, <3>2 DEF Running, Placing
  <2>5. CASE pc' = "append" /\ index' = 0
    BY <1>1, <2>1, <2>3, <2>5 DEF Running, Placing
  <2> QED BY <2>2, <2>3, <2>4, <2>5
<1> QED BY <1>2, <1>3 DEF Placed

(* The buckets after PlaceAtHome, one by one. *)
LEMMA HomeFilled ==
  ASSUME HashMapAssumption, IInv, PlaceAtHome
  PROVE  /\ buckets' \in [1..capacity -> Bucket]
         /\ \A b \in 1..capacity : /\ buckets'[b].next1 = buckets[b].next1
                                  /\ buckets'[b].index1 = IF b = Home(entries[index].key) THEN index ELSE buckets[b].index1
<1> PICK h : h = Home(entries[index].key)
  OBVIOUS
<1>0. buckets' = [buckets EXCEPT ![h].index1 = index]
  BY DEF PlaceAtHome
<1>1. /\ pc \in Placing /\ ~Full(h) /\ Placed
      /\ UNCHANGED <<capacity, lastfree, entries, fallback, answer>>
  BY DEF PlaceAtHome, Placing
<1>2. /\ capacity \in Nat \ {0} /\ count \in Nat /\ index \in 1..count /\ h \in 1..capacity
      /\ \A b \in 1..capacity : buckets[b].index1 < index
      /\ \A b \in 1..capacity : Full(b) => buckets[b].index1 \in 1..count
      /\ \A b \in 1..capacity : buckets[b].index1 \in 0..count /\ buckets[b].next1 \in 0..capacity
      /\ buckets \in [1..capacity -> Bucket] /\ lastfree \in 0..capacity
  BY <1>1, PlacingFacts DEF IInv, TypeOK
<1>3. /\ buckets' \in [1..capacity -> Bucket]
      /\ \A b \in 1..capacity : /\ buckets'[b].next1 = buckets[b].next1
                               /\ buckets'[b].index1 = IF b = h THEN index ELSE buckets[b].index1
  <2>1. \A b \in 1..capacity :
          buckets'[b] = IF b = h THEN [index1 |-> index, next1 |-> buckets[b].next1]
                        ELSE buckets[b]
    BY <1>0, <1>2 DEF Bucket
  <2>2. \A b \in 1..capacity : buckets'[b] \in Bucket
    <3> SUFFICES ASSUME NEW b \in 1..capacity
                 PROVE  buckets'[b] \in Bucket
      OBVIOUS
    <3>1. CASE b = h
      <4>1. index \in 0..count /\ buckets[b].next1 \in 0..capacity
        BY <1>2
      <4>2. [index1 |-> index, next1 |-> buckets[b].next1] \in Bucket
        BY <4>1, MakeBucket
      <4> QED BY <2>1, <3>1, <4>2
    <3>2. CASE b # h
      BY <1>2, <2>1, <3>2
    <3> QED BY <3>1, <3>2
  <2>3. buckets' \in [1..capacity -> Bucket]
    BY <1>0, <1>2, <2>2
  <2> QED BY <2>1, <2>3
<1> QED BY <1>3

LEMMA PlaceAtHomeInv ==
  ASSUME HashMapAssumption, IInv, PlaceAtHome
  PROVE  IInv'
<1> PICK h : h = Home(entries[index].key)
  OBVIOUS
<1>1. /\ pc \in Placing /\ ~Full(h) /\ Placed
      /\ UNCHANGED <<capacity, lastfree, entries, fallback, answer>>
  BY DEF PlaceAtHome, Placing
<1>2. /\ capacity \in Nat \ {0} /\ count \in Nat /\ index \in 1..count /\ h \in 1..capacity
      /\ \A b \in 1..capacity : buckets[b].index1 < index
      /\ \A b \in 1..capacity : Full(b) => buckets[b].index1 \in 1..count
      /\ \A b \in 1..capacity : buckets[b].index1 \in 0..count /\ buckets[b].next1 \in 0..capacity
      /\ buckets \in [1..capacity -> Bucket] /\ lastfree \in 0..capacity
  BY <1>1, PlacingFacts DEF IInv, TypeOK
<1>3. /\ buckets' \in [1..capacity -> Bucket]
      /\ \A b \in 1..capacity : /\ buckets'[b].next1 = buckets[b].next1
                               /\ buckets'[b].index1 = IF b = h THEN index ELSE buckets[b].index1
  BY HomeFilled
<1>4. TypeOK' /\ Running'
  <2>1. ASSUME NEW b \in 1..capacity PROVE buckets'[b].index1 <= index
    <3>1. buckets[b].index1 < index /\ buckets[b].index1 \in 0..count
      BY <1>2
    <3>2. buckets'[b].index1 = IF b = h THEN index ELSE buckets[b].index1
      BY <1>3
    <3> QED BY <1>2, <3>1, <3>2
  <2> QED BY <1>1, <1>2, <1>3, <2>1, PlacedInv
<1>5. OneBucketEach'
  BY <1>1, <1>2, <1>3 DEF IInv, OneBucketEach, Full
<1>6. FreeBelow'
  <2> SUFFICES ASSUME NEW b \in 1..capacity, b > lastfree
               PROVE  buckets'[b].index1 # 0
    BY <1>1 DEF FreeBelow, Full
  <2>1. b # h => buckets[b].index1 # 0
    BY <1>1, <1>2 DEF IInv, FreeBelow, Full
  <2> QED BY <1>2, <1>3, <2>1
<1>7. Links'
  <2>1. \A b \in 1..capacity : Full(b) => b # h /\ Full(b)' /\ Home(KeyAt(b))' = Home(KeyAt(b))
    BY <1>1, <1>2, <1>3 DEF Full, KeyAt, Home
  <2> QED BY <1>1, <1>3, <2>1 DEF IInv, Links
<1> QED BY <1>4, <1>5, <1>6, <1>7 DEF IInv

(* The buckets after AppendToChain. *)
LEMMA ChainExtended ==
  ASSUME HashMapAssumption, IInv, AppendToChain
  PROVE  /\ buckets' \in [1..capacity -> Bucket] /\ lastfree' \in 0..capacity
         /\ \A b \in 1..capacity :
              /\ buckets'[b].next1 =
                   IF b = lastfree THEN 0 ELSE IF b = scan THEN lastfree ELSE buckets[b].next1
              /\ buckets'[b].index1 = IF b = lastfree THEN index ELSE buckets[b].index1
<1> PICK f : f = lastfree
  OBVIOUS
<1>0. buckets' = [[buckets EXCEPT ![scan].next1 = f]
                          EXCEPT ![f] = [index1 |-> index, next1 |-> 0]]
  BY DEF AppendToChain, Extended
<1>1. /\ pc \in Placing /\ Placed /\ ~Full(f) /\ Full(scan) /\ Full(cur)
      /\ buckets[scan].next1 = 0
      /\ cur = Home(entries[index].key) /\ Home(KeyAt(scan)) = cur
      /\ f \in 1..capacity /\ scan \in 1..capacity /\ f # scan /\ f # cur
      /\ lastfree' = f - 1
      /\ UNCHANGED <<capacity, entries, fallback, answer>>
  BY DEF IInv, TypeOK, Running, AppendToChain, Extended, Placing
<1>2. /\ capacity \in Nat \ {0} /\ count \in Nat /\ index \in 1..count
      /\ \A b \in 1..capacity : buckets[b].index1 < index
      /\ \A b \in 1..capacity : Full(b) => buckets[b].index1 \in 1..count
      /\ \A b \in 1..capacity : buckets[b].index1 \in 0..count /\ buckets[b].next1 \in 0..capacity
      /\ buckets \in [1..capacity -> Bucket]
  BY <1>1, PlacingFacts
<1>3. /\ buckets' \in [1..capacity -> Bucket] /\ lastfree' \in 0..capacity
      /\ \A b \in 1..capacity :
           /\ buckets'[b].next1 =
                IF b = f THEN 0 ELSE IF b = scan THEN f ELSE buckets[b].next1
           /\ buckets'[b].index1 = IF b = f THEN index ELSE buckets[b].index1
  <2>1. \A b \in 1..capacity :
          buckets'[b] = IF b = f THEN [index1 |-> index, next1 |-> 0]
                        ELSE IF b = scan THEN [index1 |-> buckets[b].index1, next1 |-> f]
                        ELSE buckets[b]
    BY SMTT(30), <1>0, <1>1, <1>2 DEF Bucket
  <2>2. f \in 0..capacity /\ 0 \in 0..capacity /\ index \in 0..count /\ lastfree' \in 0..capacity
    BY <1>1, <1>2
  <2>3. \A b \in 1..capacity : buckets'[b] \in Bucket
    <3> SUFFICES ASSUME NEW b \in 1..capacity
                 PROVE  buckets'[b] \in Bucket
      OBVIOUS
    <3>1. buckets[b] \in Bucket /\ buckets[b].index1 \in 0..count
      BY <1>2
    <3>2. /\ [index1 |-> index, next1 |-> 0] \in Bucket
          /\ [index1 |-> buckets[b].index1, next1 |-> f] \in Bucket
      BY <2>2, <3>1, MakeBucket
    <3> QED BY <1>2, <2>1, <3>1, <3>2
  <2>4. buckets' \in [1..capacity -> Bucket]
    BY <1>0, <1>2, <2>3
  <2> QED BY <2>1, <2>2, <2>4
<1> QED BY <1>3

LEMMA AppendToChainInv ==
  ASSUME HashMapAssumption, IInv, AppendToChain
  PROVE  IInv'
<1> PICK f : f = lastfree
  OBVIOUS
<1>1. /\ pc \in Placing /\ Placed /\ ~Full(f) /\ Full(scan) /\ Full(cur)
      /\ buckets[scan].next1 = 0
      /\ cur = Home(entries[index].key) /\ Home(KeyAt(scan)) = cur
      /\ f \in 1..capacity /\ scan \in 1..capacity /\ f # scan /\ f # cur
      /\ lastfree' = f - 1
      /\ UNCHANGED <<capacity, entries, fallback, answer>>
  BY DEF IInv, TypeOK, Running, AppendToChain, Extended, Placing
<1>2. /\ capacity \in Nat \ {0} /\ count \in Nat /\ index \in 1..count
      /\ \A b \in 1..capacity : buckets[b].index1 < index
      /\ \A b \in 1..capacity : Full(b) => buckets[b].index1 \in 1..count
      /\ \A b \in 1..capacity : buckets[b].index1 \in 0..count /\ buckets[b].next1 \in 0..capacity
      /\ buckets \in [1..capacity -> Bucket]
  BY <1>1, PlacingFacts
<1>3. /\ buckets' \in [1..capacity -> Bucket] /\ lastfree' \in 0..capacity
      /\ \A b \in 1..capacity :
           /\ buckets'[b].next1 =
                IF b = f THEN 0 ELSE IF b = scan THEN f ELSE buckets[b].next1
           /\ buckets'[b].index1 = IF b = f THEN index ELSE buckets[b].index1
  BY ChainExtended
<1>4. TypeOK' /\ Running'
  <2>1. \A b \in 1..capacity : buckets'[b].index1 <= index
    BY <1>2, <1>3
  <2> QED BY <1>1, <1>3, <2>1, PlacedInv
<1>5. OneBucketEach'
  BY <1>1, <1>2, <1>3 DEF IInv, OneBucketEach, Full
<1>6. FreeBelow'
  <2> SUFFICES ASSUME NEW b \in 1..capacity, b > f - 1
               PROVE  buckets'[b].index1 # 0
    BY <1>1 DEF FreeBelow, Full
  <2>1. b # f => buckets[b].index1 # 0
    BY <1>1, <1>2 DEF IInv, FreeBelow, Full
  <2> QED BY <1>2, <1>3, <2>1
<1>7. Links'
  <2>1. \A b \in 1..capacity : Full(b) => b # f /\ Full(b)' /\ Home(KeyAt(b))' = Home(KeyAt(b))
    BY <1>1, <1>2, <1>3 DEF Full, KeyAt, Home
  <2>2. Full(f)' /\ Home(KeyAt(f))' = cur
    BY <1>1, <1>2, <1>3 DEF Full, KeyAt, Home
  <2>3. \A a \in 1..capacity : buckets[a].next1 # f
    BY <1>1 DEF IInv, Links
  <2> QED BY SMTT(30), <1>1, <1>3, <2>1, <2>2, <2>3 DEF IInv, Links
<1> QED BY <1>4, <1>5, <1>6, <1>7 DEF IInv

(* The buckets after MoveMidChain. *)
LEMMA EntryMoved ==
  ASSUME HashMapAssumption, IInv, MoveMidChain
  PROVE  /\ buckets' \in [1..capacity -> Bucket] /\ lastfree' \in 0..capacity
         /\ \A b \in 1..capacity :
              /\ buckets'[b].next1 =
                   IF b = cur THEN 0
                   ELSE IF b = lastfree THEN buckets[cur].next1
                   ELSE IF b = scan THEN lastfree ELSE buckets[b].next1
              /\ buckets'[b].index1 =
                   IF b = cur THEN index
                   ELSE IF b = lastfree THEN buckets[cur].index1 ELSE buckets[b].index1
<1> PICK f, c, s : f = lastfree /\ c = cur /\ s = scan
  OBVIOUS
<1>0. buckets' = [[[buckets EXCEPT ![s].next1 = f]
                           EXCEPT ![f] = buckets[c]]
                           EXCEPT ![c] = [index1 |-> index, next1 |-> 0]]
  BY DEF MoveMidChain, Moved
<1>1. /\ pc \in Placing /\ Placed /\ ~Full(f) /\ Full(c)
      /\ c = Home(entries[index].key) /\ Home(KeyAt(c)) # c /\ s # c
      /\ s # Home(KeyAt(c)) => Full(Home(KeyAt(c)))
      /\ f \in 1..capacity /\ s \in 1..capacity
      /\ buckets[s].next1 = c
      /\ lastfree' = f - 1
      /\ UNCHANGED <<capacity, entries, fallback, answer>>
  BY DEF IInv, TypeOK, Running, MoveMidChain, Moved, Placing
<1>2. /\ capacity \in Nat \ {0} /\ count \in Nat /\ index \in 1..count /\ c \in 1..capacity
      /\ \A b \in 1..capacity : buckets[b].index1 < index
      /\ \A b \in 1..capacity : Full(b) => buckets[b].index1 \in 1..count
      /\ \A b \in 1..capacity : buckets[b].index1 \in 0..count /\ buckets[b].next1 \in 0..capacity
      /\ buckets \in [1..capacity -> Bucket]
  BY <1>1, PlacingFacts
<1>3. /\ Full(s) /\ Home(KeyAt(s)) = Home(KeyAt(c)) /\ Full(Home(KeyAt(c)))
      /\ f # c /\ f # s /\ f # Home(KeyAt(c))
      /\ \A a \in 1..capacity : buckets[a].next1 = c => a = s
      /\ \A a \in 1..capacity : buckets[a].next1 # f
  BY <1>1, <1>2 DEF IInv, Links
<1>4. /\ buckets' \in [1..capacity -> Bucket] /\ lastfree' \in 0..capacity
      /\ \A b \in 1..capacity :
           /\ buckets'[b].next1 =
                IF b = c THEN 0
                ELSE IF b = f THEN buckets[c].next1
                ELSE IF b = s THEN f ELSE buckets[b].next1
           /\ buckets'[b].index1 =
                IF b = c THEN index
                ELSE IF b = f THEN buckets[c].index1 ELSE buckets[b].index1
  <2>1. \A b \in 1..capacity :
          buckets'[b] = IF b = c THEN [index1 |-> index, next1 |-> 0]
                        ELSE IF b = f THEN buckets[c]
                        ELSE IF b = s THEN [index1 |-> buckets[b].index1, next1 |-> f]
                        ELSE buckets[b]
    BY SMTT(30), <1>0, <1>1, <1>2, <1>3 DEF Bucket
  <2>2. f \in 0..capacity /\ 0 \in 0..capacity /\ index \in 0..count /\ lastfree' \in 0..capacity
    BY <1>1, <1>2
  <2>3. \A b \in 1..capacity : buckets'[b] \in Bucket
    <3> SUFFICES ASSUME NEW b \in 1..capacity
                 PROVE  buckets'[b] \in Bucket
      OBVIOUS
    <3>1. buckets[b] \in Bucket /\ buckets[b].index1 \in 0..count
      BY <1>2
    <3>2. /\ [index1 |-> index, next1 |-> 0] \in Bucket
          /\ [index1 |-> buckets[b].index1, next1 |-> f] \in Bucket
      BY <2>2, <3>1, MakeBucket
    <3> QED BY <1>2, <2>1, <3>1, <3>2
  <2>4. buckets' \in [1..capacity -> Bucket]
    BY <1>0, <1>2, <2>3
  <2> QED BY <1>3, <2>1, <2>2, <2>4
<1> QED BY <1>4

LEMMA MoveMidChainInv ==
  ASSUME HashMapAssumption, IInv, MoveMidChain
  PROVE  IInv'
<1> PICK f, c, s : f = lastfree /\ c = cur /\ s = scan
  OBVIOUS
<1>1. /\ pc \in Placing /\ Placed /\ ~Full(f) /\ Full(c)
      /\ c = Home(entries[index].key) /\ Home(KeyAt(c)) # c /\ s # c
      /\ s # Home(KeyAt(c)) => Full(Home(KeyAt(c)))
      /\ f \in 1..capacity /\ s \in 1..capacity
      /\ buckets[s].next1 = c
      /\ lastfree' = f - 1
      /\ UNCHANGED <<capacity, entries, fallback, answer>>
  BY DEF IInv, TypeOK, Running, MoveMidChain, Moved, Placing
<1>2. /\ capacity \in Nat \ {0} /\ count \in Nat /\ index \in 1..count /\ c \in 1..capacity
      /\ \A b \in 1..capacity : buckets[b].index1 < index
      /\ \A b \in 1..capacity : Full(b) => buckets[b].index1 \in 1..count
      /\ \A b \in 1..capacity : buckets[b].index1 \in 0..count /\ buckets[b].next1 \in 0..capacity
      /\ buckets \in [1..capacity -> Bucket]
  BY <1>1, PlacingFacts
<1>3. /\ Full(s) /\ Home(KeyAt(s)) = Home(KeyAt(c)) /\ Full(Home(KeyAt(c)))
      /\ f # c /\ f # s /\ f # Home(KeyAt(c))
      /\ \A a \in 1..capacity : buckets[a].next1 = c => a = s
      /\ \A a \in 1..capacity : buckets[a].next1 # f
  BY <1>1, <1>2 DEF IInv, Links
<1>4. /\ buckets' \in [1..capacity -> Bucket] /\ lastfree' \in 0..capacity
      /\ \A b \in 1..capacity :
           /\ buckets'[b].next1 =
                IF b = c THEN 0
                ELSE IF b = f THEN buckets[c].next1
                ELSE IF b = s THEN f ELSE buckets[b].next1
           /\ buckets'[b].index1 =
                IF b = c THEN index
                ELSE IF b = f THEN buckets[c].index1 ELSE buckets[b].index1
  BY EntryMoved
<1>5. TypeOK' /\ Running'
  <2>1. \A b \in 1..capacity : buckets'[b].index1 <= index
    BY SMTT(30), <1>2, <1>3, <1>4
  <2> QED BY <1>1, <1>4, <2>1, PlacedInv
<1>6. OneBucketEach'
  BY SMTT(30), <1>1, <1>2, <1>3, <1>4 DEF IInv, OneBucketEach, Full
<1>7. FreeBelow'
  <2> SUFFICES ASSUME NEW b \in 1..capacity, b > f - 1
               PROVE  buckets'[b].index1 # 0
    BY <1>1 DEF FreeBelow, Full
  <2>1. b # f => buckets[b].index1 # 0
    BY <1>1 DEF IInv, FreeBelow, Full
  <2>2. buckets[c].index1 # 0 /\ index # 0
    BY <1>1, <1>2 DEF Full
  <2> QED BY <1>4, <2>1, <2>2
<1>8. Links'
  <2>1. \A b \in 1..capacity : Full(b) /\ b # c =>
           b # f /\ Full(b)' /\ Home(KeyAt(b))' = Home(KeyAt(b))
    BY <1>1, <1>2, <1>4 DEF Full, KeyAt, Home
  <2>2. Full(f)' /\ Home(KeyAt(f))' = Home(KeyAt(c))
    BY <1>1, <1>2, <1>3, <1>4 DEF Full, KeyAt, Home
  <2> SUFFICES ASSUME NEW a \in 1..capacity, NEW b \in 1..capacity, buckets'[a].next1 = b
               PROVE  /\ Full(a)' /\ Full(b)'
                      /\ Home(KeyAt(a))' = Home(KeyAt(b))' /\ Home(KeyAt(b))' # b
                      /\ \A e \in 1..capacity : buckets'[e].next1 = b => e = a
    BY <1>1 DEF Links
  <2>3. CASE a = s
    <3>1. b = f
      BY <1>1, <1>3, <1>4, <2>3
    <3>2. Full(s)' /\ Home(KeyAt(s))' = Home(KeyAt(c))
      BY <1>1, <1>3, <2>1
    <3>3. \A e \in 1..capacity : buckets'[e].next1 = f => e = s
      <4>1. buckets[c].next1 # f
        BY <1>2, <1>3
      <4> QED BY <1>1, <1>3, <1>4, <4>1
    <3> QED BY <1>3, <2>2, <2>3, <3>1, <3>2, <3>3
  <2>4. CASE a = f
    <3>1. buckets[c].next1 = b /\ b # c
      BY <1>2, <1>3, <1>4, <2>4, <1>1
    <3> QED BY <1>1, <1>2, <1>3, <1>4, <2>1, <2>2, <2>4, <3>1 DEF IInv, Links
  <2>5. CASE a # s /\ a # f
    <3>1. a # c /\ buckets[a].next1 = b /\ b # c /\ b # f
      BY <1>2, <1>3, <1>4, <2>5
    <3>2. /\ Full(a) /\ Full(b)
          /\ Home(KeyAt(a)) = Home(KeyAt(b)) /\ Home(KeyAt(b)) # b
          /\ \A e \in 1..capacity : buckets[e].next1 = b => e = a
      BY <3>1 DEF IInv, Links
    <3>3. /\ Full(a)' /\ Full(b)'
          /\ Home(KeyAt(a))' = Home(KeyAt(b))' /\ Home(KeyAt(b))' # b
      BY <2>1, <3>1, <3>2
    <3>4. \A e \in 1..capacity : buckets'[e].next1 = b => e = a
      <4> SUFFICES ASSUME NEW e \in 1..capacity, buckets'[e].next1 = b
                   PROVE  e = a
        OBVIOUS
      <4>1. e # c /\ e # s
        BY <1>1, <1>2, <1>3, <1>4, <3>1
      <4>2. e # f
        BY <1>2, <1>4, <3>1, <3>2, <4>1
      <4> QED BY <1>4, <3>2, <4>1, <4>2
    <3> QED BY <3>3, <3>4
  <2> QED BY <2>3, <2>4, <2>5
<1> QED BY <1>5, <1>6, <1>7, <1>8 DEF IInv

(* The removal, and what the map holds afterwards: bucket b has the entry  *)
(* of bucket Source(b), entry i the contents of the last one if it is the    *)
(* number that was removed.                                                *)
Source(b) == IF b = cur THEN buckets[cur].next1 ELSE b

LEMMA UnlinkStep ==
  ASSUME HashMapAssumption, IInv, Unlink
  PROVE  /\ IInv'
         /\ UNCHANGED <<capacity, fallback, answer>> /\ count' = count - 1
         /\ \A i \in 1..(count - 1) :
              entries'[i] = IF i = buckets[cur].index1 THEN entries[count] ELSE entries[i]
         /\ \A b \in 1..capacity :
              /\ buckets'[b].index1 =
                   IF b = ToClear THEN 0
                   ELSE IF Source(b) = scan THEN buckets[cur].index1
                   ELSE buckets[Source(b)].index1
              /\ buckets'[b].next1 =
                   IF b = ToClear THEN 0
                   ELSE IF b = prev THEN buckets[cur].next1 ELSE buckets[Source(b)].next1
         /\ \A b \in 1..capacity : Full(b)' =>
              b # ToClear /\ Full(Source(b)) /\ KeyAt(b)' = KeyAt(Source(b))
<1> PICK c, p, s, n, r, z : /\ c = cur /\ p = prev /\ s = scan /\ n = buckets[cur].next1
                            /\ r = buckets[cur].index1 /\ z = ToClear
  OBVIOUS
<1>1. /\ capacity \in Nat \ {0} /\ count \in Nat /\ lastfree \in 0..capacity
      /\ c \in 1..capacity /\ s \in 1..capacity /\ p \in 0..capacity
      /\ Full(c) /\ buckets[s].index1 = count
      /\ p = 0 => Home(KeyAt(c)) = c
      /\ p # 0 => buckets[p].next1 = c
      /\ buckets \in [1..capacity -> Bucket]
      /\ z = IF p = 0 /\ n # 0 THEN n ELSE c
  BY LenProperties DEF IInv, TypeOK, Running, Located, Unlink, Raised, ToClear, count
<1>2. /\ \A b \in 1..capacity : buckets[b].index1 \in 0..count /\ buckets[b].next1 \in 0..capacity
      /\ r \in 1..count /\ n \in 0..capacity /\ count # 0
      /\ \A a, b \in 1..capacity : Full(a) /\ buckets[a].index1 = buckets[b].index1 => a = b
  <2>1. \A b \in 1..capacity : buckets[b].index1 \in 0..count /\ buckets[b].next1 \in 0..capacity
    BY <1>1 DEF Bucket
  <2> QED BY <1>1, <2>1 DEF IInv, OneBucketEach, Full
(* The chain around c, as far as one step of the list. *)
<1>3. /\ p = 0 => \A a \in 1..capacity : buckets[a].next1 # c
      /\ p # 0 => \A a \in 1..capacity : buckets[a].next1 = c => a = p
      /\ p = 0 => n # c
      /\ n # 0 => /\ Full(n) /\ Home(KeyAt(n)) = Home(KeyAt(c)) /\ Home(KeyAt(n)) # n
                  /\ \A a \in 1..capacity : buckets[a].next1 = n => a = c
      /\ p # 0 => Full(p) /\ Home(KeyAt(p)) = Home(KeyAt(c))
  BY <1>1, <1>2 DEF IInv, Links
(* The buckets afterwards, one by one. *)
<1> DEFINE Number(b) == IF b = s THEN r ELSE buckets[b].index1
<1>4. /\ UNCHANGED <<capacity, fallback, answer>>
      /\ lastfree' = IF z > lastfree THEN z ELSE lastfree
      /\ \A b \in 1..capacity :
           /\ buckets'[b].index1 =
                IF b = z THEN 0 ELSE IF b = c THEN Number(n) ELSE Number(b)
           /\ buckets'[b].next1 =
                IF b = z THEN 0
                ELSE IF b = p THEN n
                ELSE IF b = c THEN buckets[n].next1 ELSE buckets[b].next1
           /\ buckets'[b] = [index1 |-> buckets'[b].index1, next1 |-> buckets'[b].next1]
      /\ buckets' = [b \in 1..capacity |-> buckets'[b]]
  <2>0. /\ buckets' = [Unlinked EXCEPT ![z] = Empty]
        /\ UNCHANGED <<capacity, fallback, answer>>
        /\ lastfree' = IF z > lastfree THEN z ELSE lastfree
    BY DEF Unlink, Raised
  <2>r. /\ Renumbered = [buckets EXCEPT ![s].index1 = r]
        /\ \A b \in 1..capacity : /\ Renumbered[b].index1 = Number(b)
                                 /\ Renumbered[b].next1 = buckets[b].next1
        /\ \A b \in 1..capacity :
             Renumbered[b] = [index1 |-> Number(b), next1 |-> buckets[b].next1]
        /\ DOMAIN Renumbered = 1..capacity
    BY <1>1 DEF Renumbered, Bucket
  <2>u. ASSUME DOMAIN Unlinked = 1..capacity
        PROVE  /\ \A b \in 1..capacity :
                    buckets'[b] = IF b = z THEN Empty ELSE Unlinked[b]
               /\ buckets' = [b \in 1..capacity |-> buckets'[b]]
    BY <2>0, <2>u
  <2>1. CASE p # 0
    <3>1. Unlinked = [Renumbered EXCEPT ![p].next1 = n]
      BY <2>1 DEF Unlinked
    <3>2. z = c
      BY <1>1, <2>1
    <3> HIDE DEF Number
    <3>3. /\ DOMAIN Unlinked = 1..capacity
          /\ \A b \in 1..capacity : b # z =>
               Unlinked[b] = [index1 |-> Number(b),
                              next1 |-> IF b = p THEN n ELSE buckets[b].next1]
      <4>1. p \in 1..capacity
        BY <1>1, <2>1
      <4>2. DOMAIN Unlinked = 1..capacity
        BY <2>r, <3>1
      <4>3. Unlinked[p] = [Renumbered[p] EXCEPT !.next1 = n]
        BY <2>r, <3>1, <4>1
      <4>4. [Renumbered[p] EXCEPT !.next1 = n] = [index1 |-> Number(p), next1 |-> n]
        <5>1. Renumbered[p] = [index1 |-> Number(p), next1 |-> buckets[p].next1]
          BY <2>r, <4>1
        <5> QED BY ONLY <5>1
      <4>5. \A b \in 1..capacity : b # p => Unlinked[b] = Renumbered[b]
        BY <2>r, <3>1
      <4>6. \A b \in 1..capacity : b # p =>
               Unlinked[b] = [index1 |-> Number(b), next1 |-> buckets[b].next1]
        BY <2>r, <4>5
      <4> QED BY ONLY <4>2, <4>3, <4>4, <4>6
    <3> QED BY <2>0, <2>u, <3>2, <3>3 DEF Empty
  <2>2. CASE p = 0 /\ n # 0
    <3>1. Unlinked = [Renumbered EXCEPT ![c] = Renumbered[n]]
      BY <2>2 DEF Unlinked
    <3>2. z = n /\ n \in 1..capacity
      BY <1>1, <1>2, <2>2
    <3> HIDE DEF Number
    <3>3. /\ DOMAIN Unlinked = 1..capacity
          /\ \A b \in 1..capacity : b # z =>
               Unlinked[b] = [index1 |-> IF b = c THEN Number(n) ELSE Number(b),
                              next1 |-> IF b = c THEN buckets[n].next1 ELSE buckets[b].next1]
      BY <1>1, <2>r, <3>1, <3>2
    <3>4. \A b \in 1..capacity : b # p
      BY <2>2
    <3> QED BY <2>0, <2>u, <3>2, <3>3, <3>4 DEF Empty
  <2>3. CASE p = 0 /\ n = 0
    <3>1. Unlinked = Renumbered
      BY <2>3 DEF Unlinked
    <3>2. z = c
      BY <1>1, <2>3
    <3> HIDE DEF Number
    <3>3. \A b \in 1..capacity : b # p
      BY <2>3
    <3> QED BY ZenonT(30), <2>0, <2>r, <2>u, <3>1, <3>2, <3>3 DEF Empty
  <2> QED BY <2>1, <2>2, <2>3
<1>5. /\ z \in 1..capacity
      /\ p # 0 => z = c /\ p \in 1..capacity
      /\ p = 0 /\ n # 0 => z = n
      /\ p = 0 /\ n = 0 => z = c
  BY <1>1, <1>2
<1>6. /\ entries' \in Seq(Entry) /\ count' = count - 1
      /\ \A i \in 1..(count - 1) : entries'[i] = IF i = r THEN entries[count] ELSE entries[i]
  <2> DEFINE moved == [entries EXCEPT ![r] = entries[count]]
  <2>1. entries \in Seq(Entry) /\ r \in 1..Len(entries) /\ entries[count] \in Entry
    BY <1>1, <1>2, EntryKey DEF IInv, TypeOK, count
  <2>2. /\ moved \in Seq(Entry) /\ Len(moved) = count
        /\ \A j \in 1..count : moved[j] = IF j = r THEN entries[count] ELSE entries[j]
    BY <2>1, ExceptSeq DEF count
  <2>3. entries' = SubSeq(moved, 1, count - 1)
    BY DEF Unlink, Raised
  <2> HIDE DEF moved
  <2>4. /\ SubSeq(moved, 1, count - 1) \in Seq(Entry)
        /\ Len(SubSeq(moved, 1, count - 1)) = count - 1
        /\ \A i \in 1..(count - 1) : SubSeq(moved, 1, count - 1)[i] = moved[i]
    BY <1>1, <1>2, <2>2, SubSeqProperties
  <2> QED BY <1>1, <1>2, <2>2, <2>3, <2>4 DEF count
(* A bucket that is full afterwards has the entry that bucket From(b) had. *)
<1> DEFINE From(b) == IF b = c THEN n ELSE b
<1>0. \A b \in 1..capacity : Source(b) = From(b)
  BY DEF Source
<1>7. \A b \in 1..capacity : b # z =>
        /\ From(b) \in 1..capacity /\ From(b) # c
        /\ buckets'[b].index1 = Number(From(b))
  BY <1>1, <1>2, <1>3, <1>4, <1>5
<1>8. \A b \in 1..capacity : Full(b)' = (b # z /\ Full(From(b)))
  <2> SUFFICES ASSUME NEW b \in 1..capacity
               PROVE  Full(b)' = (b # z /\ Full(From(b)))
    OBVIOUS
  <2>1. CASE b = z
    BY <1>4, <2>1 DEF Full
  <2>2. CASE b # z
    BY <1>1, <1>2, <1>7, <2>2 DEF Full
  <2> QED BY <2>1, <2>2
<1>9. \A b \in 1..capacity : Full(b)' =>
        buckets'[b].index1 \in 1..(count - 1) /\ KeyAt(b)' = KeyAt(From(b))
  <2> SUFFICES ASSUME NEW b \in 1..capacity, Full(b)'
               PROVE  buckets'[b].index1 \in 1..(count - 1) /\ KeyAt(b)' = KeyAt(From(b))
    OBVIOUS
  <2> DEFINE o == From(b)
  <2>1. b # z /\ o \in 1..capacity /\ o # c /\ Full(o) /\ buckets'[b].index1 = Number(o)
    BY <1>7, <1>8
  <2> HIDE DEF From
  <2>2. buckets[o].index1 # r /\ buckets[o].index1 \in 1..count
    BY <1>1, <1>2, <2>1 DEF Full
  <2>3. CASE o = s
    <3>1. r # count
      BY <1>1, <1>2, <2>1, <2>3
    <3> QED BY SMTT(30), <1>1, <1>2, <1>6, <2>1, <2>3, <3>1 DEF KeyAt
  <2>4. CASE o # s
    <3>1. buckets[o].index1 # count
      BY <1>1, <1>2, <2>1, <2>4
    <3> QED BY SMTT(30), <1>1, <1>2, <1>6, <2>1, <2>2, <2>4, <3>1 DEF KeyAt
  <2> QED BY <2>3, <2>4
<1>10. OneBucketEach'
  <2> SUFFICES ASSUME NEW a \in 1..capacity, NEW b \in 1..capacity, Full(a)',
                      buckets'[a].index1 = buckets'[b].index1
               PROVE  a = b
    BY <1>4 DEF OneBucketEach
  <2>1. Full(b)'
    BY DEF Full
  <2>2. /\ a # z /\ b # z /\ Full(From(a)) /\ Full(From(b))
        /\ From(a) \in 1..capacity /\ From(b) \in 1..capacity
        /\ From(a) # c /\ From(b) # c /\ Number(From(a)) = Number(From(b))
    BY <1>7, <1>8, <2>1
  <2>3. From(a) = From(b)
    <3> HIDE DEF From
    <3> QED BY <1>1, <1>2, <2>2
  <2> QED BY <1>5, <2>2, <2>3
<1>11. FreeBelow'
  <2> SUFFICES ASSUME NEW b \in 1..capacity, b > lastfree'
               PROVE  Full(b)'
    BY <1>4 DEF FreeBelow
  <2>1. b # z /\ Full(b)
    BY <1>1, <1>4, <1>5 DEF IInv, FreeBelow
  <2> QED BY <1>3, <1>5, <1>7, <1>8, <2>1
<1>12. TypeOK'
  <2>1. \A b \in 1..capacity : /\ buckets'[b].index1 \in 0..(count - 1)
                              /\ buckets'[b].next1 \in 0..capacity
    <3> SUFFICES ASSUME NEW b \in 1..capacity
                 PROVE  buckets'[b].index1 \in 0..(count - 1) /\ buckets'[b].next1 \in 0..capacity
      OBVIOUS
    <3>1. buckets'[b].index1 \in 0..(count - 1)
      BY <1>1, <1>2, <1>9 DEF Full
    <3>2. buckets'[b].next1 \in 0..capacity
      <4>1. CASE b = z \/ b = p
        BY <1>1, <1>2, <1>4, <4>1
      <4>2. CASE b # z /\ b # p /\ b = c
        <5>1. p = 0 /\ n \in 1..capacity
          BY <1>1, <1>2, <1>5, <4>2
        <5> QED BY <1>2, <1>4, <4>2, <5>1
      <4>3. CASE b # z /\ b # p /\ b # c
        BY <1>2, <1>4, <4>3
      <4> QED BY <4>1, <4>2, <4>3
    <3> QED BY <3>1, <3>2
  <2>2. Bucket' = [index1 : 0..(count - 1), next1 : 0..capacity]
    BY <1>4, <1>6 DEF Bucket
  <2>3. \A b \in 1..capacity : buckets'[b] \in Bucket'
    <3> SUFFICES ASSUME NEW b \in 1..capacity
                 PROVE  buckets'[b] \in Bucket'
      OBVIOUS
    <3>1. buckets'[b] = [index1 |-> buckets'[b].index1, next1 |-> buckets'[b].next1]
      BY <1>4
    <3> QED BY <2>1, <2>2, <3>1
  <2>4. /\ lastfree' \in 0..capacity' /\ count' <= capacity' /\ count' \in Nat
        /\ capacity' \in Nat
    BY SMTT(30), <1>1, <1>2, <1>4, <1>5, <1>6 DEF IInv, TypeOK
  <2>5. Return
    BY DEF Unlink, Raised
  <2>6. buckets' \in [1..capacity' -> Bucket']
    BY <1>4, <2>3
  <2>7. /\ entries' \in Seq(Entry) /\ UNCHANGED <<fallback, answer>>
    BY <1>4, <1>6
  <2>8. /\ cur' \in 0..capacity' /\ prev' \in 0..capacity' /\ scan' \in 0..capacity'
        /\ index' \in 0..count' /\ pc' \in Labels /\ op' \in Ops
    BY <2>4, <2>5 DEF Return, Labels, NoOp, Ops
  <2>9. fallback' \in [Keys -> Maybe] /\ answer' \in Maybe
    BY <2>7 DEF IInv, TypeOK
  <2>10. (entries \in Seq(Entry))'
    BY <2>7 DEF Entry
  <2>11. (fallback \in [Keys -> Maybe] /\ answer \in Maybe)'
    BY <2>9 DEF Maybe
  <2>12. (pc \in Labels /\ op \in Ops)'
    BY <2>8 DEF Labels, Ops, Maybe
  <2> QED
    BY <2>4, <2>6, <2>8, <2>10, <2>11, <2>12 DEF TypeOK
<1>13. Running'
  BY DEF Unlink, Raised, Return, Running, Placing
<1>14. Links'
  <2> SUFFICES ASSUME NEW a \in 1..capacity, NEW b \in 1..capacity, buckets'[a].next1 = b
               PROVE  /\ Full(a)' /\ Full(b)'
                      /\ Home(KeyAt(a))' = Home(KeyAt(b))' /\ Home(KeyAt(b))' # b
                      /\ \A e \in 1..capacity : buckets'[e].next1 = b => e = a
    BY <1>4 DEF Links
  <2>0. \A x \in 1..capacity : x # z /\ Full(From(x)) =>
          Full(x)' /\ Home(KeyAt(x))' = Home(KeyAt(From(x)))
    <3> SUFFICES ASSUME NEW x \in 1..capacity, x # z, Full(From(x))
                 PROVE  Full(x)' /\ Home(KeyAt(x))' = Home(KeyAt(From(x)))
      OBVIOUS
    <3>1. Full(x)' /\ KeyAt(x)' = KeyAt(From(x)) /\ capacity' = capacity
      BY <1>4, <1>8, <1>9
    <3> QED BY <3>1 DEF Home
  <2>1. ASSUME NEW x \in 1..capacity, NEW y \in 1..capacity, buckets[x].next1 = y
        PROVE  /\ Full(x) /\ Full(y) /\ Home(KeyAt(x)) = Home(KeyAt(y)) /\ Home(KeyAt(y)) # y
               /\ \A e \in 1..capacity : buckets[e].next1 = y => e = x
    BY <2>1 DEF IInv, Links
  <2>2. a # z
    BY <1>4
  <2>3. CASE p # 0
    <3>1. z = c /\ p \in 1..capacity /\ buckets[p].next1 = c /\ a # c
      BY <1>1, <1>5, <2>2, <2>3
    <3>2. \A e \in 1..capacity : e # c =>
            buckets'[e].next1 = IF e = p THEN n ELSE buckets[e].next1
      BY <1>4, <3>1
    <3>3. buckets'[c].next1 = 0
      BY <1>1, <1>4, <3>1
    <3>4. CASE a = p
      <4>1. b = n /\ buckets[c].next1 = b
        BY <3>1, <3>2, <3>4, n = buckets[c].next1
      <4>2. /\ Full(c) /\ Full(b) /\ Home(KeyAt(c)) = Home(KeyAt(b)) /\ Home(KeyAt(b)) # b
            /\ \A e \in 1..capacity : buckets[e].next1 = b => e = c
        BY <1>1, <2>1, <4>1
      <4>3. Full(p) /\ Home(KeyAt(p)) = Home(KeyAt(c))
        BY <1>3, <2>3
      <4>4. b # c
        BY <3>1, <3>4, <4>1, <4>2
      <4>5. \A e \in 1..capacity : buckets'[e].next1 = b => e = a
        BY <3>2, <3>3, <3>4, <4>2
      <4> QED BY <2>0, <3>1, <3>4, <4>2, <4>3, <4>4, <4>5
    <3>5. CASE a # p
      <4>1. buckets[a].next1 = b
        BY <3>1, <3>2, <3>5
      <4>2. /\ Full(a) /\ Full(b) /\ Home(KeyAt(a)) = Home(KeyAt(b)) /\ Home(KeyAt(b)) # b
            /\ \A e \in 1..capacity : buckets[e].next1 = b => e = a
        BY <2>1, <4>1
      <4>3. b # c /\ b # n
        <5>1. b # c
          BY <3>1, <3>5, <4>2
        <5>2. b # n
          BY <1>1, <3>1, <4>2, n = buckets[c].next1
        <5> QED BY <5>1, <5>2
      <4>4. \A e \in 1..capacity : buckets'[e].next1 = b => e = a
        BY <3>2, <3>3, <4>2, <4>3
      <4> QED BY <2>0, <3>1, <4>2, <4>3, <4>4
    <3> QED BY <3>4, <3>5
  <2>4. CASE p = 0 /\ n # 0
    <3>1. /\ z = n /\ n \in 1..capacity /\ n # c /\ a # n
          /\ \A e \in 1..capacity : buckets[e].next1 # c
          /\ \A e \in 1..capacity : buckets[e].next1 = n => e = c
      BY <1>2, <1>3, <1>5, <2>2, <2>4
    <3>2. \A e \in 1..capacity : e # n =>
            buckets'[e].next1 = IF e = c THEN buckets[n].next1 ELSE buckets[e].next1
      BY <1>4, <2>4, <3>1
    <3>3. buckets'[n].next1 = 0
      BY <1>4, <3>1
    <3> DEFINE x == From(a)
    <3>4. x \in 1..capacity /\ buckets[x].next1 = b /\ x # c
      BY <1>1, <3>1, <3>2
    <3>5. /\ Full(x) /\ Full(b) /\ Home(KeyAt(x)) = Home(KeyAt(b)) /\ Home(KeyAt(b)) # b
          /\ \A e \in 1..capacity : buckets[e].next1 = b => e = x
      <4> HIDE DEF x
      <4> QED BY <2>1, <3>4
    <3>6. b # c /\ b # n
      BY <3>1, <3>4
    <3>7. From(b) = b
      BY <3>6
    <3>8. \A e \in 1..capacity : buckets'[e].next1 = b => e = a
      <4> SUFFICES ASSUME NEW e \in 1..capacity, buckets'[e].next1 = b
                   PROVE  e = a
        OBVIOUS
      <4>1. e # n
        BY <3>3
      <4>2. From(e) \in 1..capacity /\ buckets[From(e)].next1 = b
        BY <3>1, <3>2, <4>1
      <4>3. From(e) = From(a)
        BY <3>5, <4>2
      <4> QED BY <3>1, <4>1, <4>3
    <3> QED BY <2>0, <2>2, <3>1, <3>5, <3>6, <3>7, <3>8
  <2>5. CASE p = 0 /\ n = 0
    <3>1. z = c /\ a # c /\ \A e \in 1..capacity : buckets[e].next1 # c
      BY <1>3, <1>5, <2>2, <2>5
    <3>2. \A e \in 1..capacity : e # c => buckets'[e].next1 = buckets[e].next1
      BY <1>4, <2>5, <3>1
    <3>3. buckets'[c].next1 = 0
      BY <1>1, <1>4, <3>1
    <3>4. /\ Full(a) /\ Full(b) /\ Home(KeyAt(a)) = Home(KeyAt(b)) /\ Home(KeyAt(b)) # b
          /\ \A e \in 1..capacity : buckets[e].next1 = b => e = a
      BY <2>1, <3>1, <3>2
    <3>5. b # c
      BY <3>1, <3>2
    <3>6. \A e \in 1..capacity : buckets'[e].next1 = b => e = a
      BY <3>2, <3>3, <3>4
    <3> QED BY <2>0, <3>1, <3>4, <3>5, <3>6
  <2> QED BY <1>1, <2>3, <2>4, <2>5
<1>15. \A b \in 1..capacity :
         /\ buckets'[b].index1 = IF b = z THEN 0
                                 ELSE IF Source(b) = s THEN r ELSE buckets[Source(b)].index1
         /\ buckets'[b].next1 = IF b = z THEN 0
                                ELSE IF b = p THEN n ELSE buckets[Source(b)].next1
  BY <1>0, <1>1, <1>3, <1>4
<1>16. \A b \in 1..capacity : Full(b)' =>
         b # z /\ Full(Source(b)) /\ KeyAt(b)' = KeyAt(Source(b))
  BY <1>0, <1>8, <1>9
<1> QED BY <1>4, <1>6, <1>16, <1>10, <1>11, <1>12, <1>13, <1>14, <1>15 DEF IInv

-----------------------------------------------------------------------------
LEMMA StepInv == HashMapAssumption /\ IInv /\ [Next]_vars => IInv'
<1> SUFFICES ASSUME HashMapAssumption, IInv, [Next]_vars
             PROVE  IInv'
  OBVIOUS
<1>1. CASE Call
  <2>1. CASE RemoveRandom
    <3>1. \A i \in 1..count : entries[i].key \in Keys
      BY EntryKey DEF IInv
    <3>2. PICK k \in Keys : Remove(k)
      BY <2>1, <3>1 DEF RemoveRandom
    <3> QED BY <3>2, RemoveInv
  <2>2. CASE \E k \in Keys : Get(k) \/ GetUnallocated(k) \/ Remove(k)
    BY <2>2, GetInv, QuietInv, RemoveInv
  <2>3. CASE \E k \in Keys, v \in Maybe : Set(k, v)
    BY <2>3, SetInv
  <2>4. CASE \E k \in FallbackKeys, v \in Maybe : ChangeFallback(k, v)
    BY <2>4, QuietInv
  <2> QED BY <1>1, <2>1, <2>2, <2>3, <2>4 DEF Call
<1>2. CASE Probe
  BY <1>2, ProbeNextInv, QuietInv, UpdateInv DEF Probe
<1>3. CASE Insert
  BY <1>3, GrowInv, SeekInv, AppendEntryInv DEF Insert
<1>4. CASE SetBucket
  BY <1>4, PlaceAtHomeInv, SeekInv, SeekFreeInv, MoveMidChainInv, AppendToChainInv DEF SetBucket
<1>5. CASE Delete
  BY <1>5, SeekInv, UnlinkStep DEF Delete
<1>6. CASE UNCHANGED vars
  <2>1. UNCHANGED table /\ OneBucketEach' /\ Links' /\ FreeBelow'
    BY <1>6, SameTable DEF IInv, vars
  <2>2. TypeOK'
    BY <1>6 DEF IInv, TypeOK, vars, table, locals, count, Bucket, Entry, Maybe, Ops, Labels
  <2>3. Running'
    BY <1>6 DEF IInv, Running, Located, Placing, vars, table, locals, Full, KeyAt, Home, count
  <2> QED BY <2>1, <2>2, <2>3 DEF IInv
<1> QED BY <1>1, <1>2, <1>3, <1>4, <1>5, <1>6 DEF Next, Step

LEMMA Invariance == Spec => []IInv
<1>1. Init => IInv
  BY InitInv, HashMapAssumption
<1>2. IInv /\ [Next]_vars => IInv'
  BY StepInv, HashMapAssumption
<1> QED BY <1>1, <1>2, PTL DEF Spec

(* The fields of the map and the locals of a call stay in their domains:   *)
(* every index1 names one of the entries in use, also after a removal has  *)
(* dropped the last of them.                                               *)
THEOREM TypeCorrect == Spec => []TypeOK
<1>1. IInv => TypeOK
  BY DEF IInv
<1> QED BY <1>1, Invariance, PTL

(* set_bucket finds a free bucket whenever it looks for one: the search    *)
(* downwards from lastfree_index1 skips none, as none lies above, and      *)
(* stops before it reads buckets[-1].                                      *)
THEOREM FreeBucketFound == Spec => []CursorSound
<1>1. IInv => CursorSound
  <2> SUFFICES ASSUME IInv, pc = "free", lastfree = 0
               PROVE  FALSE
    BY DEF CursorSound, IInv
  <2>1. PICK b \in 1..capacity : ~Full(b)
    <3>1. /\ TypeOK /\ OneBucketEach /\ index \in 1..count
          /\ \A b \in 1..capacity : buckets[b].index1 < index
      BY DEF IInv, Running, Placing
    <3>2. index \in 1..capacity
      BY <3>1, LenProperties DEF TypeOK, count
    <3> QED BY <3>1, <3>2, FreeBucket
  <2> QED BY <2>1 DEF IInv, FreeBelow
<1> QED BY <1>1, Invariance, PTL

(* The local half of Brent's invariant: whatever is set and removed, links *)
(* join entries of one home, no bucket has two predecessors, and an entry  *)
(* at its home has none.                                                   *)
THEOREM DisjointChains == Spec => []ChainsSound
<1>1. IInv => ChainsSound
  BY DEF IInv, ChainsSound
<1> QED BY <1>1, Invariance, PTL

-----------------------------------------------------------------------------
(***************************************************************************)
(* The map finds what was stored in it: Brent's invariant.                 *)
(***************************************************************************)

(* Whoever follows the links from bucket a meets bucket b: every set of    *)
(* buckets that a is in and no link leads out of has b in it.              *)
Closed(S) == \A x \in S : buckets[x].next1 # 0 => buckets[x].next1 \in S
Leads(a, b) == \A S \in SUBSET (1..capacity) : Closed(S) /\ a \in S => b \in S

Reachable == \A b \in 1..capacity : Full(b) => Leads(Home(KeyAt(b)), b)

DistinctKeys == \A i, j \in 1..count : entries[i].key = entries[j].key => i = j

HasBucket(i) == \E b \in 1..capacity : buckets[b].index1 = i
Holds(k) == \E i \in 1..count : entries[i].key = k

(* How many entries have a bucket: all of them but while set_bucket places *)
(* them one after the other.                                               *)
Filed == IF pc \in Placing THEN index - 1 ELSE count

(* What the loops look for is ahead of them; the key of a call that enters *)
(* it has no entry before it gets one, which is then the last.             *)
Searching ==
  /\ pc = "idle" => op = NoOp
  /\ pc = "probe" =>
       \A b \in 1..capacity : Full(b) /\ KeyAt(b) = op.key => Leads(cur, b)
  /\ pc = "append" => ~Holds(op.key)
  /\ pc \in Placing =>
       IF entries[index].key = op.key THEN index = count ELSE ~Holds(op.key)
  /\ pc = "predecessor" => Leads(scan, cur)
  /\ pc = "last" => \A b \in 1..capacity : buckets[b].index1 = count => Leads(scan, b)

Complete ==
  /\ Reachable
  /\ DistinctKeys
  /\ \A i \in 1..Filed : HasBucket(i)
  /\ Searching

(* The inductive invariant. *)
LInv == IInv /\ Complete
-----------------------------------------------------------------------------
LEMMA BucketFacts ==
  ASSUME HashMapAssumption, IInv
  PROVE  /\ capacity \in Nat /\ count \in Nat
         /\ \A b \in 1..capacity : buckets[b].index1 \in 0..count /\ buckets[b].next1 \in 0..capacity
         /\ \A b \in 1..capacity : Full(b) =>
              buckets[b].index1 \in 1..count /\ KeyAt(b) \in Keys /\ Home(KeyAt(b)) \in 1..capacity
<1>1. /\ capacity \in Nat /\ count \in Nat
      /\ \A b \in 1..capacity : buckets[b].index1 \in 0..count /\ buckets[b].next1 \in 0..capacity
  BY LenProperties DEF IInv, TypeOK, Bucket, count
<1>2. ASSUME NEW b \in 1..capacity, Full(b)
      PROVE  buckets[b].index1 \in 1..count /\ KeyAt(b) \in Keys /\ Home(KeyAt(b)) \in 1..capacity
  <2>1. buckets[b].index1 \in 1..count
    BY <1>1, <1>2 DEF Full
  <2>2. KeyAt(b) \in Keys
    BY <2>1, EntryKey DEF IInv, KeyAt
  <2> QED BY <1>1, <2>1, <2>2, HomeInRange
<1> QED BY <1>1, <1>2

(* From a bucket that leads to another the next link leads there too. *)
LEMMA LeadsOn ==
  ASSUME HashMapAssumption, IInv, NEW a \in 1..capacity, NEW b \in 1..capacity,
         Leads(a, b), a # b
  PROVE  /\ buckets[a].next1 \in 1..capacity
         /\ Leads(buckets[a].next1, b)
<1> DEFINE n == buckets[a].next1
<1>1. n # 0
  <2> SUFFICES ASSUME n = 0 PROVE FALSE
    OBVIOUS
  <2>1. {a} \in SUBSET (1..capacity) /\ Closed({a})
    BY DEF Closed
  <2> QED BY <2>1 DEF Leads
<1>2. n \in 1..capacity
  BY <1>1, BucketFacts
<1>3. Leads(n, b)
  <2> SUFFICES ASSUME NEW S \in SUBSET (1..capacity), Closed(S), n \in S
               PROVE  b \in S
    BY DEF Leads
  <2>1. S \cup {a} \in SUBSET (1..capacity) /\ Closed(S \cup {a})
    BY DEF Closed
  <2> QED BY <2>1 DEF Leads
<1> QED BY <1>2, <1>3

(* A bucket that leads to a full one is full. *)
LEMMA LeadsFromFull ==
  ASSUME HashMapAssumption, IInv, NEW a \in 1..capacity, NEW b \in 1..capacity,
         Leads(a, b), Full(b)
  PROVE  Full(a) /\ Home(KeyAt(a)) = Home(KeyAt(b))
<1>1. Full(a)
  <2>1. CASE a = b
    BY <2>1
  <2>2. CASE a # b
    <3>1. buckets[a].next1 \in 1..capacity
      BY <2>2, LeadsOn
    <3> QED BY <3>1 DEF IInv, Links
  <2> QED BY <2>1, <2>2
<1> DEFINE S == {x \in 1..capacity : Full(x) /\ Home(KeyAt(x)) = Home(KeyAt(a))}
<1>2. S \in SUBSET (1..capacity) /\ a \in S
  BY <1>1
<1>3. Closed(S)
  <2> SUFFICES ASSUME NEW x \in 1..capacity, Full(x), Home(KeyAt(x)) = Home(KeyAt(a)),
                      buckets[x].next1 # 0
               PROVE  buckets[x].next1 \in S
    BY DEF Closed
  <2>1. buckets[x].next1 \in 1..capacity
    BY BucketFacts
  <2> QED BY <2>1 DEF IInv, Links
<1>4. b \in S
  <2> HIDE DEF S
  <2> QED BY <1>2, <1>3 DEF Leads
<1> QED BY <1>1, <1>4

(* The home of a stored key is taken, by an entry of that home. *)
LEMMA HomeIsTaken ==
  ASSUME HashMapAssumption, IInv, Reachable, NEW b \in 1..capacity, Full(b)
  PROVE  LET h == Home(KeyAt(b))
         IN  h \in 1..capacity /\ Full(h) /\ Home(KeyAt(h)) = h
<1>1. Home(KeyAt(b)) \in 1..capacity /\ Leads(Home(KeyAt(b)), b)
  BY BucketFacts DEF Reachable
<1> QED BY <1>1, LeadsFromFull

-----------------------------------------------------------------------------
(* Steps that leave the table as it is. *)

LEMMA SameChains ==
  ASSUME UNCHANGED <<capacity, buckets, entries>>
  PROVE  /\ \A a, b : Leads(a, b)' <=> Leads(a, b)
         /\ \A i : HasBucket(i)' <=> HasBucket(i)
         /\ \A k : Holds(k)' <=> Holds(k)
         /\ \A b : (Full(b)' <=> Full(b)) /\ KeyAt(b)' = KeyAt(b)
         /\ \A k : Home(k)' = Home(k)
         /\ Reachable' <=> Reachable
         /\ DistinctKeys' <=> DistinctKeys
         /\ count' = count
BY DEF Leads, Closed, HasBucket, Holds, Full, KeyAt, Home, Reachable, DistinctKeys, count

(* The calls that begin, and the steps that end a call which changed       *)
(* nothing.                                                                *)
LEMMA QuietComplete ==
  ASSUME HashMapAssumption, LInv,
         \/ \E k \in Keys : Get(k) \/ GetUnallocated(k) \/ Remove(k)
         \/ \E k \in Keys, v \in Maybe : capacity # 0 /\ Set(k, v)
         \/ \E k \in FallbackKeys, v \in Maybe : ChangeFallback(k, v)
         \/ Found \/ NotFound \/ NothingToRemove
  PROVE  Complete'
<1>1. UNCHANGED <<capacity, buckets, entries>>
  BY DEF Get, GetUnallocated, Remove, Set, StartProbe, ChangeFallback, Found, NotFound,
         NothingToRemove, table
<1>2. Reachable' /\ DistinctKeys' /\ \A i \in 1..count' : HasBucket(i)'
  <2>1. pc \notin Placing
    BY DEF Get, GetUnallocated, Remove, Set, StartProbe, ChangeFallback, Found, NotFound,
           NothingToRemove, Placing
  <2> QED BY <1>1, <2>1, SameChains DEF LInv, Complete, Filed
<1>3. CASE pc' = "idle" /\ op' = NoOp
  BY <1>2, <1>3 DEF Complete, Searching, Placing, Filed
<1>4. CASE \/ \E k \in Keys : Get(k) \/ Remove(k)
           \/ \E k \in Keys, v \in Maybe : capacity # 0 /\ Set(k, v)
  <2>1. pc' = "probe" /\ cur' = Home(op'.key)
    BY <1>4 DEF Get, Remove, Set, StartProbe, Goto
  <2>2. \A b \in 1..capacity' : Full(b)' /\ KeyAt(b)' = op'.key => Leads(cur', b)
    BY <1>1, <2>1, SameChains DEF LInv, Complete, Reachable
  <2>3. \A b \in 1..capacity' : Full(b)' /\ KeyAt(b)' = op'.key => Leads(cur, b)'
    BY <1>1, <2>2 DEF Leads, Closed
  <2> QED BY <1>2, <2>1, <2>3 DEF Complete, Searching, Placing, Filed
<1>5. CASE pc = "idle" /\ UNCHANGED locals
  BY <1>2, <1>5 DEF LInv, Complete, Searching, Placing, Filed, locals
<1> QED BY <1>3, <1>4, <1>5 DEF GetUnallocated, ChangeFallback, Found, NotFound,
       NothingToRemove, Return

LEMMA ProbeNextComplete ==
  ASSUME HashMapAssumption, LInv, ProbeNext
  PROVE  Complete'
<1>1. /\ UNCHANGED <<capacity, buckets, entries, op, pc>> /\ pc = "probe"
      /\ cur' = buckets[cur].next1
  BY DEF ProbeNext, table
<1>2. cur \in 1..capacity /\ KeyAt(cur) # op.key
  BY DEF LInv, IInv, Running, Located, ProbeNext, Hit, ChainEnds
<1>3. Reachable' /\ DistinctKeys' /\ \A i \in 1..count' : HasBucket(i)'
  BY <1>1, SameChains DEF LInv, Complete, Filed, Placing
<1>4. ASSUME NEW b \in 1..capacity, Full(b), KeyAt(b) = op.key
      PROVE  Leads(cur', b)
  <2>1. Leads(cur, b) /\ cur # b
    BY <1>1, <1>2, <1>4 DEF LInv, Complete, Searching
  <2> QED BY <1>1, <1>2, <2>1, LeadsOn DEF LInv
<1>5. \A b \in 1..capacity' : Full(b)' /\ KeyAt(b)' = op'.key => Leads(cur, b)'
  BY <1>1, <1>4 DEF Leads, Closed, Full, KeyAt
<1> QED BY <1>1, <1>3, <1>5 DEF Complete, Searching, Placing, Filed

(* At the end of its chain the probe has met every entry of the key. *)
LEMMA EndMeansAbsent ==
  ASSUME HashMapAssumption, LInv, pc = "probe", ChainEnds
  PROVE  ~Holds(op.key)
<1> SUFFICES ASSUME NEW i \in 1..count, entries[i].key = op.key
             PROVE  FALSE
  BY DEF Holds
<1>1. cur \in 1..capacity /\ count \in Nat
  BY BucketFacts DEF LInv, IInv, Running, Located
<1>2. PICK b \in 1..capacity : buckets[b].index1 = i
  BY DEF LInv, Complete, Filed, Placing, HasBucket
<1>3. Full(b) /\ KeyAt(b) = op.key
  BY <1>1, <1>2 DEF Full, KeyAt
<1>4. Leads(cur, b)
  BY <1>3 DEF LInv, Complete, Searching
<1>5. Full(cur)
  BY <1>1, <1>3, <1>4, LeadsFromFull DEF LInv
<1>6. cur # b /\ buckets[cur].next1 = 0
  BY <1>3, <1>5 DEF ChainEnds, Hit
<1> QED BY <1>1, <1>4, <1>6, LeadsOn DEF LInv

(* The steps that only move the scan, or the program counter. *)
LEMMA SeekComplete ==
  ASSUME HashMapAssumption, LInv,
         \/ HomeTaken \/ SeekFree \/ FoundFree \/ SeekPredecessor \/ SeekTail
         \/ RemoveLast \/ RemoveFromMiddle \/ SeekLast \/ FoundLast \/ NoGrow
  PROVE  Complete'
<1>1. UNCHANGED <<capacity, buckets, entries, op, index>>
  BY DEF HomeTaken, SeekFree, FoundFree, SeekPredecessor, SeekTail, FollowBlindly, RemoveLast,
         RemoveFromMiddle, SeekLast, FoundLast, NoGrow, Room, table, locals
<1>2. /\ Reachable' /\ DistinctKeys' /\ count' = count
      /\ \A a, b : Leads(a, b)' <=> Leads(a, b)
      /\ \A i : HasBucket(i)' <=> HasBucket(i)
      /\ \A k : Holds(k)' <=> Holds(k)
  BY <1>1, SameChains DEF LInv, Complete
<1>3. pc \in Placing <=> pc' \in Placing
  BY DEF HomeTaken, SeekFree, FoundFree, SeekPredecessor, SeekTail, FollowBlindly, RemoveLast,
         RemoveFromMiddle, SeekLast, FoundLast, NoGrow, Room, Goto, Placing, locals
<1>4. \A i \in 1..Filed' : HasBucket(i)'
  BY <1>1, <1>2, <1>3 DEF LInv, Complete, Filed
<1>5. (pc \in Placing =>
        IF entries[index].key = op.key THEN index = count ELSE ~Holds(op.key))'
  <2>1. Holds(op.key)' <=> Holds(op.key)
    BY <1>1 DEF Holds, count
  <2> QED BY <1>1, <1>2, <1>3, <2>1 DEF LInv, Complete, Searching
<1>6. Searching'
  <2>1. CASE HomeTaken \/ SeekFree \/ SeekTail
    <3>1. pc' \in {"free", "tail"}
      BY <2>1 DEF HomeTaken, SeekFree, SeekTail, Goto, locals
    <3> QED BY <3>1, <1>5 DEF Searching
  <2>2. CASE FoundFree
    <3>1. cur \in 1..capacity /\ Full(cur) /\ cur' = cur
      BY <2>2, PlacingFacts DEF LInv, IInv, Running, FoundFree, Placing
    <3>2. /\ pc' \in {"predecessor", "tail"}
          /\ pc' = "predecessor" => scan' = Home(KeyAt(cur))
      BY <2>2 DEF FoundFree, Goto
    <3>3. pc' = "predecessor" => Leads(scan', cur)
      BY <3>1, <3>2 DEF LInv, Complete, Reachable
    <3>4. (pc = "predecessor" => Leads(scan, cur))'
      BY <1>1, <3>1, <3>3 DEF Leads, Closed
    <3> QED BY <1>5, <3>2, <3>4 DEF Searching
  <2>3. CASE SeekPredecessor
    <3>1. /\ Leads(scan, cur) /\ scan # cur /\ scan \in 1..capacity /\ cur \in 1..capacity
          /\ scan' = buckets[scan].next1 /\ cur' = cur /\ pc' = "predecessor"
      BY <2>3, PlacingFacts DEF LInv, IInv, Complete, Searching, Running, SeekPredecessor,
         FollowBlindly, Placing
    <3>2. Leads(scan', cur)
      BY <3>1, LeadsOn DEF LInv
    <3>3. Leads(scan, cur)'
      BY <1>1, <3>1, <3>2 DEF Leads, Closed
    <3> QED BY <1>5, <3>1, <3>3 DEF Searching
  <2>4. CASE RemoveLast \/ FoundLast
    <3>1. pc' = "unlink"
      BY <2>4 DEF RemoveLast, FoundLast, Goto
    <3> QED BY <3>1 DEF Searching, Placing
  <2>5. CASE RemoveFromMiddle
    <3>1. pc' = "last" /\ scan' = Home(entries[count].key)
      BY <2>5 DEF RemoveFromMiddle, Goto
    <3>2. ASSUME NEW b \in 1..capacity, buckets[b].index1 = count
          PROVE  Leads(scan', b)
      <4>1. cur \in 1..capacity /\ Full(cur)
        BY <2>5 DEF LInv, IInv, Running, Located, RemoveFromMiddle, Hit
      <4>2. count # 0
        BY <4>1, BucketFacts DEF LInv
      <4>3. Full(b) /\ KeyAt(b) = entries[count].key
        BY <3>2, <4>2 DEF Full, KeyAt
      <4> QED BY <3>1, <4>3 DEF LInv, Complete, Reachable
    <3>3. (\A b \in 1..capacity : buckets[b].index1 = count => Leads(scan, b))'
      BY <1>1, <1>2, <3>2 DEF Leads, Closed
    <3> QED BY <3>1, <3>3 DEF Searching, Placing
  <2>6. CASE SeekLast
    <3>1. /\ pc = "last" /\ pc' = "last" /\ scan \in 1..capacity
          /\ buckets[scan].index1 # count /\ scan' = buckets[scan].next1
      BY <2>6 DEF LInv, IInv, Running, SeekLast, FollowBlindly
    <3>2. ASSUME NEW b \in 1..capacity, buckets[b].index1 = count
          PROVE  Leads(scan', b)
      <4>1. Leads(scan, b) /\ scan # b
        BY <3>1, <3>2 DEF LInv, Complete, Searching
      <4> QED BY <3>1, <4>1, LeadsOn DEF LInv
    <3>3. (\A b \in 1..capacity : buckets[b].index1 = count => Leads(scan, b))'
      BY <1>1, <1>2, <3>2 DEF Leads, Closed
    <3> QED BY <3>1, <3>3 DEF Searching, Placing
  <2>7. CASE NoGrow
    <3>1. pc' = "append" /\ ~Holds(op.key)
      BY <2>7, EndMeansAbsent DEF NoGrow, Goto
    <3>2. ~Holds(op.key)'
      BY <1>1, <3>1 DEF Holds, count
    <3> QED BY <3>1, <3>2 DEF Searching, Placing
  <2> QED BY <2>1, <2>2, <2>3, <2>4, <2>5, <2>6, <2>7
<1> QED BY <1>2, <1>4, <1>6 DEF Complete

-----------------------------------------------------------------------------
(* Steps that change the table. *)

(* The first allocation: there are no entries yet. *)
LEMMA AllocateComplete ==
  ASSUME HashMapAssumption, LInv, capacity = 0,
         NEW k \in Keys, NEW v \in Maybe, Set(k, v)
  PROVE  Complete'
<1>1. FirstCapacity \in Nat /\ Allocate(FirstCapacity) /\ UNCHANGED entries /\ pc' = "probe"
  BY DEF HashMapAssumption, Set, StartProbe, Goto
<1>2. count' = 0 /\ \A b \in 1..capacity' : ~Full(b)'
  <2>1. count = 0
    BY BucketFacts DEF LInv, IInv, TypeOK
  <2> QED BY <1>1, <2>1 DEF Allocate, Empty, Full, count
<1> QED BY <1>1, <1>2 DEF Complete, Reachable, DistinctKeys, Filed, Searching, Placing

LEMMA GrowComplete ==
  ASSUME HashMapAssumption, LInv, Grow
  PROVE  Complete'
<1>1. /\ 2 * capacity \in Nat /\ Allocate(2 * capacity) /\ UNCHANGED <<entries, op>>
      /\ count \in Nat /\ count' = count
      /\ IF count = 0 THEN pc' = "append" ELSE pc' = "place" /\ index' = 1
  BY BucketFacts DEF LInv, Grow, Room, Goto, count
<1>2. \A b \in 1..capacity' : ~Full(b)'
  BY <1>1 DEF Allocate, Empty, Full
<1>3. ~Holds(op.key) /\ ~Holds(op.key)'
  BY <1>1, EndMeansAbsent DEF Grow, Room, Holds
<1>4. Reachable' /\ DistinctKeys'
  BY <1>1, <1>2 DEF LInv, Complete, Reachable, DistinctKeys
<1>5. Filed' = 0
  BY <1>1 DEF Filed, Placing
<1>6. Searching'
  <2>1. count # 0 => entries[1].key # op.key
    BY <1>1, <1>3 DEF Holds
  <2> QED BY <1>1, <1>3, <2>1 DEF Searching, Placing
<1> QED BY <1>4, <1>5, <1>6 DEF Complete

(* The chains are the same as long as the links are and as the full        *)
(* buckets hold the same keys.                                             *)
LEMMA SameLinks ==
  ASSUME UNCHANGED <<capacity, buckets>>,
         \A b \in 1..capacity : Full(b) => KeyAt(b)' = KeyAt(b)
  PROVE  /\ Reachable' <=> Reachable
         /\ \A i : HasBucket(i)' <=> HasBucket(i)
BY DEF Reachable, Leads, Closed, Full, Home, HasBucket

LEMMA UpdateComplete ==
  ASSUME HashMapAssumption, LInv, Update
  PROVE  Complete'
<1>1. UNCHANGED <<capacity, buckets>> /\ pc = "probe" /\ pc' = "idle" /\ op' = NoOp
  BY DEF Update, Return
<1>2. count' = count /\ \A i \in 1..count : entries'[i].key = entries[i].key
  BY UpdatedEntries DEF LInv
<1>3. \A b \in 1..capacity : Full(b) => KeyAt(b)' = KeyAt(b)
  BY <1>1, <1>2, BucketFacts DEF LInv, KeyAt
<1>4. Reachable' /\ \A i : HasBucket(i)' <=> HasBucket(i)
  BY <1>1, <1>3, SameLinks DEF LInv, Complete
<1>5. DistinctKeys'
  BY <1>2 DEF LInv, Complete, DistinctKeys
<1> QED BY <1>1, <1>2, <1>4, <1>5 DEF LInv, Complete, Filed, Searching, Placing

LEMMA AppendedEntries ==
  ASSUME HashMapAssumption, IInv, AppendEntry
  PROVE  /\ count \in Nat /\ count' = count + 1
         /\ \A i \in 1..count : entries'[i] = entries[i]
         /\ entries'[count + 1].key = op.key
         /\ entries'[count + 1].value = Or(Or(op.value, Elsewhere(op.key)), Zero)
<1> DEFINE e == [key |-> op.key, value |-> Or(Or(op.value, Elsewhere(op.key)), Zero)]
<1>1. op.key \in Keys /\ op.value \in Maybe
  BY DEF IInv, TypeOK, Running, AppendEntry, Ops
<1>2. e \in Entry
  BY <1>1 DEF IInv, TypeOK, HashMapAssumption, Entry, Or, Elsewhere, Maybe
<1>3. entries' = Append(entries, e) /\ entries \in Seq(Entry)
  BY DEF IInv, TypeOK, AppendEntry
<1>4. e.key = op.key /\ e.value = Or(Or(op.value, Elsewhere(op.key)), Zero)
  OBVIOUS
<1> HIDE DEF e
<1> QED BY <1>2, <1>3, <1>4, AppendProperties, LenProperties DEF count

LEMMA AppendEntryComplete ==
  ASSUME HashMapAssumption, LInv, AppendEntry
  PROVE  Complete'
<1>1. /\ count \in Nat /\ count' = count + 1
      /\ \A i \in 1..count : entries'[i] = entries[i]
      /\ entries'[count + 1].key = op.key
  BY AppendedEntries DEF LInv
<1>2. UNCHANGED <<capacity, buckets, op>> /\ pc = "append" /\ pc' = "place" /\ index' = count + 1
  BY DEF AppendEntry, Goto
<1>3. \A b \in 1..capacity : Full(b) => KeyAt(b)' = KeyAt(b)
  BY <1>1, <1>2, BucketFacts DEF LInv, KeyAt
<1>4. Reachable' /\ \A i : HasBucket(i)' <=> HasBucket(i)
  BY <1>2, <1>3, SameLinks DEF LInv, Complete
<1>5. \A i \in 1..count : entries[i].key # op.key
  BY <1>2 DEF LInv, Complete, Searching, Holds
<1>6. DistinctKeys'
  BY <1>1, <1>5 DEF LInv, Complete, DistinctKeys
<1>7. \A i \in 1..Filed' : HasBucket(i)'
  BY <1>1, <1>2, <1>4 DEF LInv, Complete, Filed, Placing
<1>8. Searching'
  BY <1>1, <1>2 DEF Searching, Placing
<1> QED BY <1>4, <1>6, <1>7, <1>8 DEF Complete

-----------------------------------------------------------------------------
(* Entry number `index' is given its bucket. *)

LEMMA PlacedComplete ==
  ASSUME HashMapAssumption, LInv, pc \in Placing, Placed,
         UNCHANGED <<capacity, entries>>, Reachable', \A i \in 1..index : HasBucket(i)'
  PROVE  Complete'
<1>1. count \in Nat /\ index \in 1..count /\ count' = count
  BY PlacingFacts DEF LInv, count
<1>2. DistinctKeys' /\ (~Holds(op.key) /\ op' = op => ~Holds(op.key)')
  BY DEF LInv, Complete, DistinctKeys, Holds, count
<1>3. CASE entries[index].key = op.key
  <2>1. index = count /\ pc' = "idle" /\ op' = NoOp
    BY <1>3 DEF LInv, Complete, Searching, Placed, Return
  <2> QED BY <1>1, <1>2, <2>1 DEF Complete, Filed, Searching, Placing
<1>4. CASE entries[index].key # op.key
  <2>1. ~Holds(op.key) /\ op' = op /\ ~Holds(op.key)'
    BY <1>2, <1>4 DEF LInv, Complete, Searching, Placed
  <2>2. CASE index < count
    <3>1. pc' = "place" /\ index' = index + 1
      BY <1>4, <2>2 DEF Placed, Goto
    <3>2. Filed' = index
      BY <1>1, <3>1 DEF Filed, Placing
    <3>3. entries'[index'].key # op'.key
      BY <1>1, <2>1, <2>2, <3>1 DEF Holds
    <3> QED BY <1>2, <2>1, <3>1, <3>2, <3>3 DEF Complete, Searching
  <2>3. CASE ~(index < count)
    <3>1. pc' = "append" /\ index = count
      BY <1>1, <1>4, <2>3 DEF Placed, Goto
    <3> QED BY <1>1, <1>2, <2>1, <3>1 DEF Complete, Filed, Searching, Placing
  <2> QED BY <2>2, <2>3
<1> QED BY <1>3, <1>4

LEMMA PlaceAtHomeComplete ==
  ASSUME HashMapAssumption, LInv, PlaceAtHome
  PROVE  Complete'
<1> PICK h : h = Home(entries[index].key)
  OBVIOUS
<1>1. pc \in Placing /\ Placed /\ UNCHANGED <<capacity, entries>> /\ ~Full(h)
  BY DEF PlaceAtHome, Placing
<1>2. /\ capacity \in Nat /\ index \in 1..count /\ count \in Nat /\ h \in 1..capacity
      /\ \A b \in 1..capacity : Full(b) => buckets[b].index1 \in 1..count
  BY <1>1, PlacingFacts DEF LInv
<1>3. \A b \in 1..capacity : /\ buckets'[b].next1 = buckets[b].next1
                            /\ buckets'[b].index1 = IF b = h THEN index ELSE buckets[b].index1
  BY HomeFilled DEF LInv
<1>4. \A i \in 1..index : HasBucket(i)'
  <2> SUFFICES ASSUME NEW i \in 1..index
               PROVE  \E b \in 1..capacity : buckets'[b].index1 = i
    BY <1>1 DEF HasBucket
  <2>1. CASE i = index
    BY <1>2, <1>3, <2>1
  <2>2. CASE i # index
    <3>1. PICK b \in 1..capacity : buckets[b].index1 = i
      BY <1>1, <1>2, <2>2 DEF LInv, Complete, Filed, HasBucket
    <3> QED BY <1>1, <1>2, <1>3, <3>1 DEF Full
  <2> QED BY <2>1, <2>2
<1>5. Reachable'
  <2> SUFFICES ASSUME NEW b \in 1..capacity, Full(b)',
                      NEW S \in SUBSET (1..capacity), Closed(S)', Home(KeyAt(b))' \in S
               PROVE  b \in S
    BY <1>1 DEF Reachable, Leads
  <2>1. CASE b = h
    BY <1>1, <1>3, <2>1 DEF KeyAt, Home
  <2>2. CASE b # h
    <3>1. Full(b) /\ Home(KeyAt(b)) \in S
      BY <1>1, <1>3, <2>2 DEF Full, KeyAt, Home
    <3>2. Closed(S)
      BY <1>3 DEF Closed
    <3> QED BY <3>1, <3>2 DEF LInv, Complete, Reachable, Leads
  <2> QED BY <2>1, <2>2
<1> QED BY <1>1, <1>4, <1>5, PlacedComplete

LEMMA AppendToChainComplete ==
  ASSUME HashMapAssumption, LInv, AppendToChain
  PROVE  Complete'
<1> PICK f : f = lastfree
  OBVIOUS
<1>1. /\ pc \in Placing /\ Placed /\ UNCHANGED <<capacity, entries>>
      /\ f \in 1..capacity /\ ~Full(f) /\ scan \in 1..capacity /\ Full(scan)
      /\ buckets[scan].next1 = 0 /\ Home(KeyAt(scan)) = Home(entries[index].key)
  BY DEF LInv, IInv, TypeOK, Running, AppendToChain, Extended, Placing
<1>2. /\ capacity \in Nat /\ index \in 1..count /\ count \in Nat
      /\ \A b \in 1..capacity : Full(b) => buckets[b].index1 \in 1..count
  BY <1>1, PlacingFacts DEF LInv
<1>3. \A b \in 1..capacity :
        /\ buckets'[b].next1 = IF b = f THEN 0 ELSE IF b = scan THEN f ELSE buckets[b].next1
        /\ buckets'[b].index1 = IF b = f THEN index ELSE buckets[b].index1
  BY ChainExtended DEF LInv
<1>4. \A i \in 1..index : HasBucket(i)'
  <2> SUFFICES ASSUME NEW i \in 1..index
               PROVE  \E b \in 1..capacity : buckets'[b].index1 = i
    BY <1>1 DEF HasBucket
  <2>1. CASE i = index
    BY <1>1, <1>3, <2>1
  <2>2. CASE i # index
    <3>1. PICK b \in 1..capacity : buckets[b].index1 = i
      BY <1>1, <1>2, <2>2 DEF LInv, Complete, Filed, HasBucket
    <3> QED BY <1>1, <1>2, <1>3, <3>1 DEF Full
  <2> QED BY <2>1, <2>2
<1>5. Reachable'
  <2> SUFFICES ASSUME NEW b \in 1..capacity, Full(b)',
                      NEW S \in SUBSET (1..capacity), Closed(S)', Home(KeyAt(b))' \in S
               PROVE  b \in S
    BY <1>1 DEF Reachable, Leads
  <2> DEFINE T == S \ {f}
  <2>1. T \in SUBSET (1..capacity) /\ Closed(T)
    <3> SUFFICES ASSUME NEW x \in T, buckets[x].next1 # 0
                 PROVE  buckets[x].next1 \in T
      BY DEF Closed
    <3>1. x \in 1..capacity /\ x # f /\ x # scan
      BY <1>1
    <3>2. buckets[x].next1 \in S
      BY <1>3, <3>1 DEF Closed
    <3>3. buckets[x].next1 # f
      BY <1>1, <3>1 DEF LInv, IInv, Links
    <3> QED BY <3>2, <3>3
  (* An entry whose home is in S has its bucket there, if it had one before. *)
  <2>2. ASSUME NEW a \in 1..capacity, Full(a), Home(KeyAt(a)) \in S
        PROVE  a \in T
    <3>1. Home(KeyAt(a)) # f
      BY <1>1, <2>2, HomeIsTaken DEF LInv, Complete
    <3> HIDE DEF T
    <3>2. Home(KeyAt(a)) \in T
      BY <2>2, <3>1 DEF T
    <3> QED BY <2>1, <2>2, <3>2 DEF LInv, Complete, Reachable, Leads
  <2>3. CASE b = f
    <3>1. Home(KeyAt(scan)) \in S
      BY <1>1, <1>3, <2>3 DEF KeyAt, Home
    <3>2. scan \in S
      BY <1>1, <2>2, <3>1
    <3>3. buckets'[scan].next1 = f /\ f # 0
      BY <1>1, <1>3
    <3> QED BY <2>3, <3>2, <3>3 DEF Closed
  <2>4. CASE b # f
    <3>1. Full(b) /\ Home(KeyAt(b)) \in S
      BY <1>1, <1>3, <2>4 DEF Full, KeyAt, Home
    <3> QED BY <2>2, <3>1
  <2> QED BY <2>3, <2>4
<1> QED BY <1>1, <1>4, <1>5, PlacedComplete

LEMMA MoveMidChainComplete ==
  ASSUME HashMapAssumption, LInv, MoveMidChain
  PROVE  Complete'
<1> PICK f, c, s : f = lastfree /\ c = cur /\ s = scan
  OBVIOUS
<1>1. /\ pc \in Placing /\ Placed /\ UNCHANGED <<capacity, entries>>
      /\ f \in 1..capacity /\ ~Full(f) /\ s \in 1..capacity /\ buckets[s].next1 = c
      /\ c = Home(entries[index].key) /\ Full(c) /\ Home(KeyAt(c)) # c /\ s # c
  BY DEF LInv, IInv, TypeOK, Running, MoveMidChain, Moved, Placing
<1>2. /\ capacity \in Nat /\ index \in 1..count /\ count \in Nat /\ c \in 1..capacity
      /\ \A b \in 1..capacity : Full(b) => buckets[b].index1 \in 1..count
  BY <1>1, PlacingFacts DEF LInv
<1>3. \A b \in 1..capacity :
        /\ buckets'[b].next1 = IF b = c THEN 0
                               ELSE IF b = f THEN buckets[c].next1
                               ELSE IF b = s THEN f ELSE buckets[b].next1
        /\ buckets'[b].index1 = IF b = c THEN index
                                ELSE IF b = f THEN buckets[c].index1 ELSE buckets[b].index1
  BY EntryMoved DEF LInv
<1>4. /\ f # c /\ f # s /\ Full(s)
      /\ \A a \in 1..capacity : buckets[a].next1 = c => a = s
      /\ \A a \in 1..capacity : buckets[a].next1 # f
  BY <1>1, <1>2 DEF LInv, IInv, Links
<1>5. \A i \in 1..index : HasBucket(i)'
  <2> SUFFICES ASSUME NEW i \in 1..index
               PROVE  \E b \in 1..capacity : buckets'[b].index1 = i
    BY <1>1 DEF HasBucket
  <2>1. CASE i = index
    BY <1>2, <1>3, <2>1
  <2>2. CASE i # index
    <3>1. PICK b \in 1..capacity : buckets[b].index1 = i
      BY <1>1, <1>2, <2>2 DEF LInv, Complete, Filed, HasBucket
    <3>2. CASE b = c
      BY <1>1, <1>3, <1>4, <3>1, <3>2
    <3>3. CASE b # c
      <4>1. b # f
        BY <1>1, <1>2, <3>1 DEF Full
      <4> QED BY <1>3, <3>1, <3>3, <4>1
    <3> QED BY <3>2, <3>3
  <2> QED BY <2>1, <2>2
<1>6. Reachable'
  <2> SUFFICES ASSUME NEW b \in 1..capacity, Full(b)',
                      NEW S \in SUBSET (1..capacity), Closed(S)', Home(KeyAt(b))' \in S
               PROVE  b \in S
    BY <1>1 DEF Reachable, Leads
  (* The set before the move: the moved entry was in bucket c, not in f. *)
  <2> DEFINE T == {x \in 1..capacity : x # f /\ IF x = c THEN f \in S ELSE x \in S}
  <2>1. Closed(T)
    <3> SUFFICES ASSUME NEW x \in T, buckets[x].next1 # 0
                 PROVE  buckets[x].next1 \in T
      BY DEF Closed
    <3> DEFINE n == buckets[x].next1
    <3>1. x \in 1..capacity /\ x # f /\ n \in 1..capacity /\ n # f
      BY <1>4, BucketFacts DEF LInv
    <3>2. CASE x = c
      <4>1. f \in S /\ buckets'[f].next1 = n
        BY <1>1, <1>3, <1>4, <3>2
      <4>2. n \in S /\ n # c
        BY <1>1, <1>2, <1>4, <3>1, <3>2, <4>1 DEF Closed
      <4> QED BY <3>1, <4>2
    <3>3. CASE x = s
      <4>1. x \in S /\ buckets'[x].next1 = f /\ f # 0
        BY <1>1, <1>3, <1>4, <3>3
      <4>2. f \in S
        BY <4>1 DEF Closed
      <4> QED BY <1>1, <3>1, <3>3, <4>2
    <3>4. CASE x # c /\ x # s
      <4>1. x \in S /\ buckets'[x].next1 = n
        BY <1>3, <3>1, <3>4
      <4>2. n \in S /\ n # c
        BY <1>4, <3>1, <3>4, <4>1 DEF Closed
      <4> QED BY <3>1, <4>2
    <3> QED BY <3>2, <3>3, <3>4
  (* Nothing has its home in c, where the entry of another chain was, nor in *)
  (* f, which was empty.                                                     *)
  <2>2. ASSUME NEW a \in 1..capacity, Full(a), Home(KeyAt(a)) \in S
        PROVE  a \in T
    <3>1. Home(KeyAt(a)) \in 1..capacity /\ Home(KeyAt(a)) # f /\ Home(KeyAt(a)) # c
      BY <1>1, <2>2, HomeIsTaken DEF LInv, Complete
    <3>2. Home(KeyAt(a)) \in T
      BY <2>2, <3>1
    <3>3. T \in SUBSET (1..capacity)
      OBVIOUS
    <3> HIDE DEF T
    <3> QED BY <2>1, <2>2, <3>2, <3>3 DEF LInv, Complete, Reachable, Leads
  <2>3. CASE b = c
    BY <1>1, <1>3, <2>3 DEF KeyAt, Home
  <2>4. CASE b = f
    <3>1. Home(KeyAt(c)) \in S
      BY <1>1, <1>3, <1>4, <2>4 DEF KeyAt, Home
    <3>2. c \in T
      BY <1>1, <1>2, <2>2, <3>1
    <3> QED BY <2>4, <3>2
  <2>5. CASE b # c /\ b # f
    <3>1. Full(b) /\ Home(KeyAt(b)) \in S
      BY <1>1, <1>3, <2>5 DEF Full, KeyAt, Home
    <3>2. b \in T
      BY <2>2, <3>1
    <3> QED BY <2>5, <3>2
  <2> QED BY <2>3, <2>4, <2>5
<1> QED BY <1>1, <1>5, <1>6, PlacedComplete

-----------------------------------------------------------------------------
(* The last step of a removal. *)

(* No bucket links to itself: it would be cut off from its home. *)
LEMMA NoSelfLink ==
  ASSUME HashMapAssumption, LInv, NEW c \in 1..capacity
  PROVE  buckets[c].next1 # c
<1> SUFFICES ASSUME buckets[c].next1 = c PROVE FALSE
  OBVIOUS
<1>1. /\ Full(c) /\ Home(KeyAt(c)) # c
      /\ \A e \in 1..capacity : buckets[e].next1 = c => e = c
  BY DEF LInv, IInv, Links
<1> DEFINE S == (1..capacity) \ {c}
<1>2. Closed(S)
  <2> SUFFICES ASSUME NEW x \in S, buckets[x].next1 # 0
               PROVE  buckets[x].next1 \in S
    BY DEF Closed
  <2> QED BY <1>1, BucketFacts DEF LInv
<1>3. Home(KeyAt(c)) \in S /\ S \in SUBSET (1..capacity)
  BY <1>1, BucketFacts DEF LInv
<1>4. c \in S
  <2> HIDE DEF S
  <2> QED BY <1>1, <1>2, <1>3 DEF LInv, Complete, Reachable, Leads
<1> QED BY <1>4

LEMMA UnlinkComplete ==
  ASSUME HashMapAssumption, LInv, Unlink
  PROVE  Complete'
<1> PICK c, p, s, n, r, z : /\ c = cur /\ p = prev /\ s = scan /\ n = buckets[cur].next1
                            /\ r = buckets[cur].index1 /\ z = ToClear
  OBVIOUS
<1>1. /\ pc = "unlink" /\ pc' = "idle" /\ op' = NoOp
      /\ c \in 1..capacity /\ s \in 1..capacity /\ Full(c) /\ buckets[s].index1 = count
      /\ p = 0 => Home(KeyAt(c)) = c
      /\ p # 0 => p \in 1..capacity /\ buckets[p].next1 = c
      /\ z = IF p = 0 /\ n # 0 THEN n ELSE c
  BY DEF LInv, IInv, TypeOK, Running, Located, Unlink, Raised, ToClear, Return
<1>2. /\ capacity \in Nat /\ count \in Nat
      /\ \A b \in 1..capacity : Full(b) => buckets[b].index1 \in 1..count
      /\ n \in 0..capacity /\ r \in 1..count /\ r = buckets[c].index1 /\ n = buckets[c].next1
  BY <1>1, BucketFacts DEF LInv
<1>3. /\ capacity' = capacity /\ count' = count - 1
      /\ \A i \in 1..(count - 1) : entries'[i] = IF i = r THEN entries[count] ELSE entries[i]
      /\ \A b \in 1..capacity : Source(b) = IF b = c THEN n ELSE b
      /\ \A b \in 1..capacity :
           /\ buckets'[b].index1 = IF b = z THEN 0
                                   ELSE IF Source(b) = s THEN r ELSE buckets[Source(b)].index1
           /\ buckets'[b].next1 = IF b = z THEN 0
                                  ELSE IF b = p THEN n ELSE buckets[Source(b)].next1
      /\ \A b \in 1..capacity : Full(b)' => b # z /\ Full(Source(b)) /\ KeyAt(b)' = KeyAt(Source(b))
  BY UnlinkStep DEF LInv, Source
(* The chain around c. *)
<1>4. /\ p = 0 => n # c /\ \A a \in 1..capacity : buckets[a].next1 # c
      /\ p # 0 => p # c /\ Home(KeyAt(c)) # c /\ \A a \in 1..capacity : buckets[a].next1 = c => a = p
      /\ n # 0 => /\ n # c /\ Home(KeyAt(n)) # n
                  /\ \A a \in 1..capacity : buckets[a].next1 = n => a = c
  <2>1. \A a, b \in 1..capacity : buckets[a].next1 = b =>
          /\ Home(KeyAt(a)) = Home(KeyAt(b)) /\ Home(KeyAt(b)) # b
          /\ \A e \in 1..capacity : buckets[e].next1 = b => e = a
    BY DEF LInv, IInv, Links
  <2>2. CASE p = 0
    BY <1>1, <1>2, <2>1, <2>2
  <2>3. CASE p # 0
    <3>1. buckets[p].next1 # p /\ buckets[c].next1 # c
      BY <1>1, <2>3, NoSelfLink
    <3> QED BY <1>1, <1>2, <2>1, <2>3, <3>1
  <2> QED BY <2>2, <2>3
<1>5. ASSUME NEW i \in 1..count' PROVE HasBucket(i)'
  <2> SUFFICES \E b \in 1..capacity : buckets'[b].index1 = i
    BY <1>3 DEF HasBucket
  <2> DEFINE o == IF i = r THEN count ELSE i
  <2>1. i \in 1..(count - 1) /\ o \in 1..count /\ (o = r => FALSE)
    BY <1>2, <1>3
  (* The bucket that the entry had before. *)
  <2>2. PICK d \in 1..capacity : buckets[d].index1 = o
    BY <1>1, <2>1 DEF LInv, Complete, Filed, Placing, HasBucket
  <2>3. d # c /\ (d = s <=> i = r)
    <3>1. d # c
      BY <1>2, <2>1, <2>2
    <3>2. i = r => d = s
      <4>1. \A a, b \in 1..capacity : Full(a) /\ buckets[a].index1 = buckets[b].index1 => a = b
        BY DEF LInv, IInv, OneBucketEach
      <4>2. Full(d)
        BY <1>2, <2>1, <2>2 DEF Full
      <4> QED BY <1>1, <2>2, <4>1, <4>2
    <3>3. d = s => i = r
      BY <1>1, <1>2, <2>1, <2>2
    <3> QED BY <3>1, <3>2, <3>3
  <2>4. ASSUME NEW b \in 1..capacity, b # z, Source(b) = d
        PROVE  buckets'[b].index1 = i
    BY <1>3, <2>1, <2>2, <2>3, <2>4
  <2>5. CASE d = z
    <3>1. p = 0 /\ n # 0 /\ Source(c) = d /\ c # z
      BY <1>1, <1>3, <2>3, <2>5
    <3> QED BY <1>1, <2>4, <3>1
  <2>6. CASE d # z
    <3>1. Source(d) = d
      BY <1>3, <2>3
    <3> QED BY <2>4, <2>6, <3>1
  <2> QED BY <2>5, <2>6
<1>6. DistinctKeys'
  <2> SUFFICES ASSUME NEW i \in 1..(count - 1), NEW j \in 1..(count - 1),
                      entries'[i].key = entries'[j].key
               PROVE  i = j
    BY <1>3 DEF DistinctKeys
  <2> DEFINE o(x) == IF x = r THEN count ELSE x
  <2>1. /\ entries[o(i)].key = entries[o(j)].key
        /\ o(i) \in 1..count /\ o(j) \in 1..count
    BY <1>2, <1>3
  <2>2. o(i) = o(j)
    <3> HIDE DEF o
    <3> QED BY <2>1 DEF LInv, Complete, DistinctKeys
  <2> QED BY <1>2, <2>2
<1>7. Reachable'
  <2> SUFFICES ASSUME NEW b \in 1..capacity, Full(b)',
                      NEW S \in SUBSET (1..capacity), Closed(S)', Home(KeyAt(b))' \in S
               PROVE  b \in S
    BY <1>3 DEF Reachable, Leads
  <2> DEFINE o == Source(b)
  <2>1. b # z /\ o \in 1..capacity /\ Full(o) /\ Home(KeyAt(o)) \in S
    <3>1. b # z /\ Full(o) /\ KeyAt(b)' = KeyAt(o)
      BY <1>3
    <3>2. o \in 1..capacity
      BY <1>1, <1>2, <1>3, <3>1
    <3> QED BY <1>3, <3>1, <3>2 DEF Home
  <2>2. LET h == Home(KeyAt(o)) IN h \in 1..capacity /\ Full(h) /\ Home(KeyAt(h)) = h
    BY <2>1, HomeIsTaken DEF LInv, Complete
  <2> HIDE DEF o
  <2>3. ASSUME NEW T \in SUBSET (1..capacity), Closed(T), Home(KeyAt(o)) \in T
        PROVE  o \in T
    BY <2>1, <2>3 DEF LInv, Complete, Reachable, Leads
  (* The removed bucket z follows bucket y, which now links past it. *)
  <2>4. ASSUME z # c \/ p # 0
        PROVE  o \in IF IF z = c THEN p \in S ELSE c \in S THEN S \cup {z} ELSE S \ {z}
    <3> DEFINE y == IF z = c THEN p ELSE c
               T == IF y \in S THEN S \cup {z} ELSE S \ {z}
    <3>1. /\ y \in 1..capacity /\ z \in 1..capacity /\ y # z /\ buckets[y].next1 = z
          /\ Home(KeyAt(z)) # z
          /\ \A a \in 1..capacity : buckets[a].next1 = z => a = y
          /\ buckets'[y].next1 = buckets[z].next1
          /\ \A a \in 1..capacity : a # y /\ a # z => buckets'[a].next1 = buckets[a].next1
      <4>1. CASE p # 0
        <5>1. z = c /\ y = p /\ Source(p) = p /\ n = buckets[c].next1
          BY <1>1, <1>2, <1>3, <1>4, <4>1
        <5>2. \A a \in 1..capacity : a # c => Source(a) = a
          BY <1>3
        <5> HIDE DEF y
        <5> QED BY <1>1, <1>2, <1>3, <1>4, <4>1, <5>1, <5>2
      <4>2. CASE p = 0
        <5>1. z = n /\ n # 0 /\ y = c /\ Source(c) = n /\ n \in 1..capacity
          BY <1>1, <1>2, <1>3, <1>4, <2>4, <4>2
        <5>2. \A a \in 1..capacity : a # c => Source(a) = a
          BY <1>3
        <5> HIDE DEF y
        <5> QED BY <1>1, <1>2, <1>3, <1>4, <4>2, <5>1, <5>2
      <4> QED BY <4>1, <4>2
    <3> HIDE DEF y
    <3>2. T \in SUBSET (1..capacity)
      BY <3>1
    <3>3. Closed(T)
      <4> SUFFICES ASSUME NEW x \in T, buckets[x].next1 # 0
                   PROVE  buckets[x].next1 \in T
        BY DEF Closed
      <4> DEFINE m == buckets[x].next1
      <4>1. x \in 1..capacity /\ m \in 1..capacity
        BY <3>2, BucketFacts DEF LInv
      <4>2. CASE x = y
        BY <3>1, <4>1, <4>2
      <4>3. CASE x = z
        <5>1. y \in S /\ buckets'[y].next1 = m /\ m # z
          BY <3>1, <4>1, <4>3
        <5>2. m \in S
          BY <5>1 DEF Closed
        <5> QED BY <5>1, <5>2
      <4>4. CASE x # y /\ x # z
        <5>1. x \in S /\ buckets'[x].next1 = m /\ m # z
          BY <3>1, <4>1, <4>4
        <5>2. m \in S
          BY <5>1 DEF Closed
        <5> QED BY <5>1, <5>2
      <4> QED BY <4>2, <4>3, <4>4
    <3>4. Home(KeyAt(o)) \in T
      <4>1. Home(KeyAt(o)) # z
        BY <2>2, <3>1
      <4> QED BY <2>1, <4>1
    <3>5. o \in T
      <4> HIDE DEF T
      <4> QED BY <2>3, <3>2, <3>3, <3>4
    <3> QED BY <3>5 DEF y
  <2>5. CASE p # 0
    <3>1. z = c /\ b # c /\ o = b
      BY <1>1, <1>3, <2>1, <2>5 DEF o
    <3> QED BY <2>1, <2>4, <2>5, <3>1
  <2>6. CASE p = 0 /\ n # 0
    <3>1. z = n /\ n # c /\ b # n
      BY <1>1, <1>4, <2>1, <2>6
    <3>2. o = IF b = c THEN n ELSE b
      BY <1>3 DEF o
    <3> QED BY <2>4, <3>1, <3>2
  <2>7. CASE p = 0 /\ n = 0
    <3>1. z = c /\ b # c /\ o = b
      BY <1>1, <1>3, <2>1, <2>7 DEF o
    <3>2. \A a \in 1..capacity : buckets'[a].next1 = buckets[a].next1
      <4> SUFFICES ASSUME NEW a \in 1..capacity
                   PROVE  buckets'[a].next1 = buckets[a].next1
        OBVIOUS
      <4>1. a = c => buckets[a].next1 = 0
        BY <1>2, <2>7
      <4>2. a # c => Source(a) = a /\ a # p
        BY <1>2, <1>3, <2>7
      <4> QED BY <1>3, <3>1, <4>1, <4>2
    <3>3. Closed(S)
      BY <3>2 DEF Closed
    <3> QED BY <2>1, <2>3, <3>1, <3>3
  <2> QED BY <2>5, <2>6, <2>7
<1>8. Complete'
  <2>1. \A i \in 1..Filed' : HasBucket(i)'
    BY <1>1, <1>5 DEF Filed, Placing
  <2> QED BY <1>1, <1>6, <1>7, <2>1 DEF Complete, Searching, Placing
<1> QED BY <1>8

-----------------------------------------------------------------------------
LEMMA InitComplete == HashMapAssumption /\ Init => LInv
<1> SUFFICES ASSUME HashMapAssumption, Init PROVE LInv
  OBVIOUS
<1>1. IInv
  BY InitInv
<1>2. Complete
  BY DEF Init, Complete, Reachable, DistinctKeys, Filed, Searching, Placing, count
<1> QED BY <1>1, <1>2 DEF LInv

LEMMA StepComplete == HashMapAssumption /\ LInv /\ [Next]_vars => LInv'
<1> SUFFICES ASSUME HashMapAssumption, LInv, [Next]_vars
             PROVE  LInv'
  OBVIOUS
<1>1. IInv'
  BY StepInv DEF LInv
<1>2. Complete'
  <2>1. CASE Call
    <3>1. CASE RemoveRandom
      <4>1. \A i \in 1..count : entries[i].key \in Keys
        BY EntryKey DEF LInv, IInv
      <4>2. PICK k \in Keys : Remove(k)
        BY <3>1, <4>1 DEF RemoveRandom
      <4> QED BY <4>2, QuietComplete
    <3>2. CASE \E k \in Keys, v \in Maybe : Set(k, v)
      BY <3>2, QuietComplete, AllocateComplete
    <3> QED BY <2>1, <3>1, <3>2, QuietComplete DEF Call
  <2>2. CASE Probe
    BY <2>2, ProbeNextComplete, QuietComplete, UpdateComplete DEF Probe
  <2>3. CASE Insert
    BY <2>3, GrowComplete, SeekComplete, AppendEntryComplete DEF Insert
  <2>4. CASE SetBucket
    BY <2>4, PlaceAtHomeComplete, SeekComplete, MoveMidChainComplete, AppendToChainComplete
       DEF SetBucket
  <2>5. CASE Delete
    BY <2>5, SeekComplete, UnlinkComplete DEF Delete
  <2>6. CASE UNCHANGED vars
    <3>1. UNCHANGED <<capacity, buckets, entries, pc, op, cur, scan, index>>
      BY <2>6 DEF vars, table, locals
    <3>2. /\ Reachable' /\ DistinctKeys' /\ count' = count /\ Filed' = Filed
          /\ \A i : HasBucket(i)' <=> HasBucket(i)
      BY <3>1, SameChains DEF LInv, Complete, Filed
    <3>3. Searching'
      BY <3>1, <3>2 DEF LInv, Complete, Searching, Holds, Leads, Closed, Full, KeyAt
    <3> QED BY <3>2, <3>3 DEF LInv, Complete
  <2> QED BY <2>1, <2>2, <2>3, <2>4, <2>5, <2>6 DEF Next, Step
<1> QED BY <1>1, <1>2 DEF LInv

LEMMA LookupInvariance == Spec => []LInv
<1>1. Init => LInv
  BY InitComplete, HashMapAssumption
<1>2. LInv /\ [Next]_vars => LInv'
  BY StepComplete, HashMapAssumption
<1> QED BY <1>1, <1>2, PTL DEF Spec

-----------------------------------------------------------------------------
(* Induction on a bounded number, from the least counterexample. *)
LEMMA Induction ==
  ASSUME NEW N \in Nat, NEW S, 0 \in S,
         \A m \in 0..(N - 1) : m \in S => m + 1 \in S
  PROVE  \A m \in 0..N : m \in S
<1> SUFFICES ASSUME NEW k \in 0..N, k \notin S
             PROVE  FALSE
  OBVIOUS
<1> DEFINE Less == OpToRel(<, Nat)
           T == {m \in 0..N : m \notin S}
<1>1. IsWellFoundedOn(Less, Nat)
  BY NatLessThanWellFounded
<1>2. T \subseteq Nat /\ T # {}
  OBVIOUS
<1>3. PICK x \in T : \A y \in T : <<y, x>> \notin Less
  <2> HIDE DEF T, Less
  <2> QED BY <1>1, <1>2, WFMin
<1>4. x # 0 /\ x - 1 \in 0..(N - 1) /\ x - 1 \in Nat /\ x \in Nat
  OBVIOUS
<1>5. x - 1 \in T
  BY <1>4
<1>6. <<x - 1, x>> \in Less
  BY <1>4 DEF OpToRel
<1> QED BY <1>3, <1>5, <1>6

(* Chain, as its definition unfolds it: the buckets after n links. *)
Follow(R) == R \cup ({buckets[x].next1 : x \in R} \ {0})

Walks(r, b, N) == r = [n \in 0..N |-> IF n = 0 THEN {b} ELSE Follow(r[n - 1])]

LEMMA WalkExists ==
  ASSUME NEW N \in Nat, NEW b
  PROVE  \E r : Walks(r, b, N)
<1> DEFINE S == {m \in 0..N : \E r : Walks(r, b, m)}
<1>1. 0 \in S
  <2>1. Walks([n \in 0..0 |-> {b}], b, 0)
    BY DEF Walks
  <2> QED BY <2>1
<1>2. ASSUME NEW m \in 0..(N - 1), m \in S
      PROVE  m + 1 \in S
  <2>1. PICK r : Walks(r, b, m)
    BY <1>2
  <2> DEFINE q == [n \in 0..(m + 1) |-> IF n = m + 1 THEN Follow(r[m]) ELSE r[n]]
  <2>2. \A n \in 0..(m + 1) : q[n] = IF n = 0 THEN {b} ELSE Follow(q[n - 1])
    <3> SUFFICES ASSUME NEW n \in 0..(m + 1)
                 PROVE  q[n] = IF n = 0 THEN {b} ELSE Follow(q[n - 1])
      OBVIOUS
    <3>1. CASE n = m + 1
      <4>1. q[n] = Follow(r[m]) /\ n # 0 /\ n - 1 = m /\ q[m] = r[m]
        BY <3>1
      <4> QED BY <4>1
    <3>2. CASE n # m + 1
      <4>1. n \in 0..m /\ q[n] = r[n]
        BY <3>2
      <4>2. r[n] = IF n = 0 THEN {b} ELSE Follow(r[n - 1])
        BY <2>1, <4>1 DEF Walks
      <4>3. n # 0 => n - 1 \in 0..(m + 1) /\ n - 1 # m + 1
        BY <4>1
      <4>4. n # 0 => q[n - 1] = r[n - 1]
        BY <4>3
      <4> QED BY <4>1, <4>2, <4>4
    <3> QED BY <3>1, <3>2
  <2>3. q = [n \in 0..(m + 1) |-> q[n]]
    OBVIOUS
  <2>4. Walks(q, b, m + 1)
    <3> HIDE DEF q
    <3> QED BY <2>2, <2>3 DEF Walks
  <2>5. m + 1 \in 0..N
    OBVIOUS
  <2> QED BY <2>4, <2>5
<1>3. N \in S
  <2> HIDE DEF S
  <2> QED BY <1>1, <1>2, Induction
<1> QED BY <1>3

LEMMA ChainUnfolds ==
  ASSUME NEW b, capacity \in Nat
  PROVE  \E r : Walks(r, b, capacity) /\ Chain(b) = r[capacity]
<1> DEFINE reach == CHOOSE r : Walks(r, b, capacity)
<1>1. Walks(reach, b, capacity)
  BY WalkExists
<1>2. Chain(b) = reach[capacity]
  BY DEF Chain, Walks, Follow
<1> QED BY <1>1, <1>2

(* After as many links as there are buckets no link leads on: each set of  *)
(* buckets on the way that is not closed is larger than the one before.    *)
LEMMA ChainIsClosed ==
  ASSUME HashMapAssumption, IInv, NEW b \in 1..capacity
  PROVE  Chain(b) \in SUBSET (1..capacity) /\ b \in Chain(b) /\ Closed(Chain(b))
<1> PICK N \in Nat : N = capacity
  BY DEF IInv, TypeOK
<1>1. PICK r : Walks(r, b, N) /\ Chain(b) = r[N]
  BY ChainUnfolds
<1>2. /\ r[0] = {b}
      /\ \A n \in 0..(N - 1) : r[n + 1] = Follow(r[n])
  <2>1. \A n \in 0..N : r[n] = IF n = 0 THEN {b} ELSE Follow(r[n - 1])
    BY <1>1 DEF Walks
  <2>2. r[0] = {b}
    BY <2>1
  <2>3. ASSUME NEW n \in 0..(N - 1)
        PROVE  r[n + 1] = Follow(r[n])
    <3>1. n + 1 \in 0..N /\ n + 1 # 0 /\ (n + 1) - 1 = n
      OBVIOUS
    <3> QED BY <2>1, <3>1
  <2> QED BY <2>2, <2>3
<1>3. \A R \in SUBSET (1..N) : Follow(R) \in SUBSET (1..N) /\ R \subseteq Follow(R)
  <2>1. \A x \in 1..N : buckets[x].next1 \in 0..N
    BY BucketFacts
  <2> SUFFICES ASSUME NEW R \in SUBSET (1..N), NEW x \in Follow(R)
               PROVE  x \in 1..N
    BY DEF Follow
  <2>2. CASE x \in R
    BY <2>2
  <2>3. CASE x \notin R
    <3>1. PICK y \in R : x = buckets[y].next1 /\ x # 0
      BY <2>3 DEF Follow
    <3> QED BY <2>1, <3>1
  <2> QED BY <2>2, <2>3
<1>4. \A R : Follow(R) = R => Closed(R)
  BY DEF Follow, Closed
<1> DEFINE Inside == {n \in 0..N : r[n] \in SUBSET (1..N) /\ b \in r[n]}
<1>5. \A n \in 0..N : n \in Inside
  <2>1. 0 \in Inside
    BY <1>2
  <2>2. ASSUME NEW n \in 0..(N - 1), n \in Inside
        PROVE  n + 1 \in Inside
    <3>1. n + 1 \in 0..N /\ r[n + 1] = Follow(r[n])
      BY <1>2
    <3>2. r[n] \in SUBSET (1..N) /\ b \in r[n]
      BY <2>2
    <3> QED BY <1>3, <3>1, <3>2
  <2> HIDE DEF Inside
  <2> QED BY <2>1, <2>2, Induction
<1>6. \A n \in 0..N : r[n] \in SUBSET (1..N) /\ b \in r[n]
  BY <1>5
<1>7. Follow(r[N]) = r[N]
  <2> SUFFICES ASSUME Follow(r[N]) # r[N]
               PROVE  FALSE
    OBVIOUS
  (* A set that is closed stays as it is. *)
  <2>1. ASSUME NEW m \in 0..N PROVE Follow(r[m]) # r[m]
    <3> SUFFICES ASSUME Follow(r[m]) = r[m] PROVE FALSE
      OBVIOUS
    <3> DEFINE Same == {k \in 0..(N - m) : r[m + k] = r[m]}
    <3>1. 0 \in Same /\ N - m \in Nat
      OBVIOUS
    <3>2. ASSUME NEW k \in 0..((N - m) - 1), k \in Same
          PROVE  k + 1 \in Same
      <4>1. m + k \in 0..(N - 1) /\ k + 1 \in 0..(N - m) /\ (m + k) + 1 = m + (k + 1)
        OBVIOUS
      <4>2. r[(m + k) + 1] = Follow(r[m + k])
        BY <1>2, <4>1
      <4> QED BY <3>2, <4>1, <4>2
    <3>3. N - m \in Same
      <4> HIDE DEF Same
      <4> QED BY <3>1, <3>2, Induction
    <3>4. m + (N - m) = N
      OBVIOUS
    <3> QED BY <3>3, <3>4
  <2> DEFINE Large == {n \in 0..N : Cardinality(r[n]) >= n + 1}
  <2>2. /\ IsFiniteSet(1..N) /\ Cardinality(1..N) = N
        /\ \A n \in 0..N : IsFiniteSet(r[n]) /\ Cardinality(r[n]) \in Nat /\ Cardinality(r[n]) <= N
    <3>1. IsFiniteSet(1..N) /\ Cardinality(1..N) = N
      BY FS_Interval
    <3> QED BY <1>6, <3>1, FS_Subset, FS_CardinalityType
  <2>3. 0 \in Large
    <3>1. Cardinality(r[0]) = 1
      BY <1>2, FS_Singleton
    <3> QED BY <3>1
  <2>4. ASSUME NEW n \in 0..(N - 1), n \in Large
        PROVE  n + 1 \in Large
    <3>1. n \in 0..N /\ n + 1 \in 0..N /\ r[n + 1] = Follow(r[n])
      BY <1>2
    <3>2. r[n] \subseteq r[n + 1] /\ r[n] # r[n + 1]
      BY <1>3, <1>6, <2>1, <3>1
    <3>3. Cardinality(r[n]) <= Cardinality(r[n + 1]) /\ Cardinality(r[n]) # Cardinality(r[n + 1])
      BY <2>2, <3>1, <3>2, FS_Subset
    <3>4. Cardinality(r[n]) >= n + 1
      BY <2>4
    <3> HIDE DEF Large
    <3>5. Cardinality(r[n]) \in Nat /\ Cardinality(r[n + 1]) \in Nat
      BY <2>2, <3>1, Zenon
    <3>6. Cardinality(r[n + 1]) >= (n + 1) + 1
      BY <3>3, <3>4, <3>5
    <3> QED BY <3>1, <3>6 DEF Large
  <2>5. N \in Large
    <3> HIDE DEF Large
    <3> QED BY <2>3, <2>4, Induction
  <2> QED BY <2>2, <2>5
<1> QED BY <1>1, <1>4, <1>6, <1>7

-----------------------------------------------------------------------------
(* Whatever is set and removed and however the hashes collide: the two     *)
(* loops of hashmap.c that follow links without looking for their end      *)
(* (lines 134 and 300) never run off a chain, the assertion of line 145    *)
(* holds, and every entry sits in the chain that starts at its home, where *)
(* sss_hashmap_get_raw looks for it.                                       *)
THEOREM EntriesAreFound == Spec => []ChainsComplete
<1>1. ASSUME HashMapAssumption, LInv
      PROVE  WalksInBounds
  <2>1. ASSUME pc = "predecessor", buckets[scan].next1 # cur
        PROVE  buckets[scan].next1 # 0
    <3>1. Leads(scan, cur) /\ scan # cur /\ scan \in 1..capacity /\ cur \in 1..capacity
      BY <1>1, <2>1, PlacingFacts DEF LInv, IInv, Complete, Searching, Running, Placing
    <3>2. buckets[scan].next1 \in 1..capacity
      BY <1>1, <3>1, LeadsOn DEF LInv
    <3> QED BY <3>2
  <2>2. ASSUME pc = "last", buckets[scan].index1 # count
        PROVE  buckets[scan].next1 # 0
    <3>1. scan \in 1..capacity /\ cur \in 1..capacity /\ Full(cur)
      BY <1>1, <2>2 DEF LInv, IInv, Running, Located
    <3>2. count \in 1..count
      BY <1>1, <3>1, BucketFacts DEF LInv
    <3>3. PICK b \in 1..capacity : buckets[b].index1 = count
      BY <1>1, <2>2, <3>2 DEF LInv, Complete, Filed, Placing, HasBucket
    <3>4. Leads(scan, b) /\ scan # b
      BY <1>1, <2>2, <3>3 DEF LInv, Complete, Searching
    <3>5. buckets[scan].next1 \in 1..capacity
      BY <1>1, <3>1, <3>4, LeadsOn DEF LInv
    <3> QED BY <3>5
  <2> QED BY <2>1, <2>2 DEF WalksInBounds
<1>2. ASSUME HashMapAssumption, LInv
      PROVE  NoDuplicate
  <2> SUFFICES ASSUME pc = "tail", KeyAt(scan) = entries[index].key
               PROVE  FALSE
    BY DEF NoDuplicate, NotTheSameKey
  <2>1. /\ scan \in 1..capacity /\ Full(scan)
        /\ index \in 1..count /\ buckets[scan].index1 < index
    BY <1>2 DEF LInv, IInv, Running, Placing
  <2>2. buckets[scan].index1 \in 1..count
    BY <1>2, <2>1, BucketFacts DEF LInv
  <2>3. buckets[scan].index1 = index
    BY <1>2, <2>1, <2>2 DEF LInv, Complete, DistinctKeys, KeyAt
  <2> QED BY <2>1, <2>2, <2>3
<1>3. ASSUME HashMapAssumption, LInv
      PROVE  Brent
  <2>1. ASSUME NEW b \in 1..capacity, Full(b)
        PROVE  b \in Chain(Home(KeyAt(b)))
    <3> PICK h : h = Home(KeyAt(b))
      OBVIOUS
    <3>1. h \in 1..capacity /\ Leads(h, b)
      BY <1>3, <2>1, BucketFacts DEF LInv, Complete, Reachable
    <3>2. Chain(h) \in SUBSET (1..capacity) /\ h \in Chain(h) /\ Closed(Chain(h))
      BY <1>3, <3>1, ChainIsClosed DEF LInv
    <3> QED BY <3>1, <3>2 DEF Leads
  <2>2. ASSUME pc = "idle", NEW i \in 1..count
        PROVE  Cardinality({b \in 1..capacity : buckets[b].index1 = i}) = 1
    <3>1. PICK b \in 1..capacity : buckets[b].index1 = i
      BY <1>3, <2>2 DEF LInv, Complete, Filed, Placing, HasBucket
    <3>2. Full(b)
      BY <1>3, <3>1, BucketFacts DEF LInv, Full
    <3>3. {a \in 1..capacity : buckets[a].index1 = i} = {b}
      BY <1>3, <3>1, <3>2 DEF LInv, IInv, OneBucketEach
    <3> QED BY <3>3, FS_Singleton
  <2> QED BY <2>1, <2>2 DEF Brent
<1>4. LInv => ChainsComplete
  BY <1>1, <1>2, <1>3, HashMapAssumption DEF ChainsComplete
<1> QED BY <1>4, LookupInvariance, PTL

-----------------------------------------------------------------------------
(* The map implements the table.                                           *)

(* The steps of Table.tla, one by one, as the map sees them. *)
AbstractVars == <<Contents, fallback, answer, Pending>>

LEMMA Begins ==
  ASSUME Pending = NoOp, Pending' \in Ops, Pending'.kind # "none",
         UNCHANGED <<Contents, fallback, answer>>
  PROVE  Abstract!Next
<1>1. Pending' \in Abstract!Calls
  BY DEF Ops, Maybe, Abstract!Calls, Abstract!Maybe
<1>2. Abstract!Begin(Pending')
  BY DEF NoOp, Abstract!Begin, Abstract!NoCall
<1> QED BY <1>1, <1>2 DEF Abstract!Next

LEMMA LooksUp ==
  ASSUME NEW k \in Keys, Pending' = NoOp,
         Pending = NoOp \/ Pending = [kind |-> "get", key |-> k],
         answer' = Or(Contents[k], Elsewhere(k)), UNCHANGED <<Contents, fallback>>
  PROVE  Abstract!Next
<1>1. Abstract!Get(k)
  BY DEF NoOp, Or, Elsewhere, Abstract!Get, Abstract!Does, Abstract!NoCall, Abstract!Lookup, Abstract!Or
<1> QED BY <1>1 DEF Abstract!Next

LEMMA Puts ==
  ASSUME NEW k \in Keys, NEW v \in Maybe, NEW w,
         Pending = [kind |-> "set", key |-> k, value |-> v], Pending' = NoOp,
         w = IF v # NoValue THEN v
             ELSE Or(Contents[k], Or(Or(Contents[k], Elsewhere(k)), Zero)),
         Contents' = [Contents EXCEPT ![k] = w], UNCHANGED <<fallback, answer>>
  PROVE  Abstract!Next
<1>1. CASE v # NoValue
  <2>1. Abstract!Put(k, v) /\ v \in Values
    BY <1>1 DEF NoOp, Maybe, Abstract!Put, Abstract!Does, Abstract!NoCall
  <2> QED BY <2>1 DEF Abstract!Next
<1>2. CASE v = NoValue
  <2>1. Abstract!Create(k)
    BY <1>2 DEF NoOp, Or, Elsewhere, Abstract!Create, Abstract!Does, Abstract!NoCall,
       Abstract!Lookup, Abstract!Or
  <2> QED BY <2>1 DEF Abstract!Next
<1> QED BY <1>1, <1>2

LEMMA Deletes ==
  ASSUME NEW k \in Keys, Pending = [kind |-> "remove", key |-> k], Pending' = NoOp,
         Contents' = [Contents EXCEPT ![k] = NoValue], UNCHANGED <<fallback, answer>>
  PROVE  Abstract!Next
<1>1. Abstract!Remove(k)
  BY DEF NoOp, Abstract!Remove, Abstract!Does, Abstract!NoCall
<1> QED BY <1>1 DEF Abstract!Next

LEMMA Falls ==
  ASSUME NEW k \in FallbackKeys, NEW v \in Maybe, fallback' = [fallback EXCEPT ![k] = v],
         UNCHANGED <<Contents, answer, Pending>>
  PROVE  Abstract!Next
<1>1. Abstract!ChangeFallback(k, v) /\ v \in Abstract!Maybe
  BY DEF Maybe, Abstract!ChangeFallback, Abstract!Maybe
<1> QED BY <1>1 DEF Abstract!Next

(* The contents of a list of entries with different keys. *)
MapOf(e) ==
  [k \in Keys |-> IF \E i \in 1..Len(e) : e[i].key = k
                  THEN e[CHOOSE i \in 1..Len(e) : e[i].key = k].value
                  ELSE NoValue]

LEMMA MapFacts ==
  ASSUME NEW e, \A i, j \in 1..Len(e) : e[i].key = e[j].key => i = j
  PROVE  /\ MapOf(e) = [k \in Keys |-> MapOf(e)[k]]
         /\ \A i \in 1..Len(e) : e[i].key \in Keys => MapOf(e)[e[i].key] = e[i].value
         /\ \A k \in Keys : (\A i \in 1..Len(e) : e[i].key # k) => MapOf(e)[k] = NoValue
<1>1. ASSUME NEW i \in 1..Len(e), e[i].key \in Keys
      PROVE  MapOf(e)[e[i].key] = e[i].value
  <2> PICK k : k = e[i].key
    OBVIOUS
  <2> DEFINE c == CHOOSE j \in 1..Len(e) : e[j].key = k
  <2>1. c \in 1..Len(e) /\ e[c].key = k
    OBVIOUS
  <2>2. c = i
    <3> HIDE DEF c
    <3> QED BY <2>1
  <2>3. MapOf(e)[k] = e[c].value
    BY <1>1 DEF MapOf
  <2> QED BY <2>2, <2>3
<1>2. \A k \in Keys : (\A i \in 1..Len(e) : e[i].key # k) => MapOf(e)[k] = NoValue
  BY DEF MapOf
<1>3. MapOf(e) = [k \in Keys |-> MapOf(e)[k]]
  BY DEF MapOf
<1> QED BY <1>1, <1>2, <1>3

LEMMA ContentsFacts ==
  ASSUME HashMapAssumption, LInv
  PROVE  /\ Contents = MapOf(entries) /\ Contents = [k \in Keys |-> Contents[k]]
         /\ \A i \in 1..count : entries[i].key \in Keys /\ Contents[entries[i].key] = entries[i].value
         /\ \A k \in Keys : ~Holds(k) => Contents[k] = NoValue
<1>1. Contents = MapOf(entries)
  BY DEF Contents, MapOf, count
<1>2. \A i \in 1..count : entries[i].key \in Keys
  BY EntryKey DEF LInv, IInv
<1>3. \A i, j \in 1..Len(entries) : entries[i].key = entries[j].key => i = j
  BY DEF LInv, Complete, DistinctKeys, count
<1> QED BY <1>1, <1>2, <1>3, MapFacts DEF Holds, count

(* Which call has not had its effect yet. *)
LEMMA PendingIs ==
  /\ Pending = IF op.kind = "set" /\ pc # "probe" /\ Holds(op.key) THEN NoOp ELSE op
  /\ Pending' = IF op'.kind = "set" /\ pc' # "probe" /\ \E i \in 1..count' : entries'[i].key = op'.key
                THEN NoOp ELSE op'
BY DEF Pending, Holds

(* The call that is running, as the record it is. *)
LEMMA OpIs ==
  ASSUME op \in Ops
  PROVE  /\ op.kind = "get" => op.key \in Keys /\ op = [kind |-> "get", key |-> op.key]
         /\ op.kind = "remove" => op.key \in Keys /\ op = [kind |-> "remove", key |-> op.key]
         /\ op.kind = "set" =>
              /\ op.key \in Keys /\ op.value \in Maybe
              /\ op = [kind |-> "set", key |-> op.key, value |-> op.value]
         /\ op.kind = "none" => op = NoOp
BY DEF Ops, NoOp

-----------------------------------------------------------------------------
LEMMA SameContents ==
  ASSUME UNCHANGED entries
  PROVE  UNCHANGED Contents /\ count' = count
BY DEF Contents, count

LEMMA CallsImplement ==
  ASSUME HashMapAssumption, LInv, LInv', Call
  PROVE  Abstract!Next
<1>1. pc = "idle" /\ op = NoOp /\ Pending = NoOp
  <2>1. pc = "idle"
    BY DEF Call, Get, GetUnallocated, Remove, RemoveRandom, Set, StartProbe, ChangeFallback
  <2> QED BY <2>1, PendingIs DEF LInv, Complete, Searching, NoOp
<1>2. UNCHANGED entries
  BY DEF Call, Get, GetUnallocated, Remove, RemoveRandom, Set, StartProbe, ChangeFallback, table
<1>3. UNCHANGED Contents
  BY <1>2, SameContents
<1>4. CASE pc' = "probe" /\ op'.kind # "none" /\ UNCHANGED <<fallback, answer>>
  <2>1. Pending' = op'
    BY <1>4, PendingIs
  <2>2. op' \in Ops
    BY DEF LInv, IInv, TypeOK, Ops, Maybe
  <2> QED BY <1>1, <1>3, <1>4, <2>1, <2>2, Begins
<1>5. CASE \E k \in Keys : GetUnallocated(k)
  <2>1. PICK k \in Keys : GetUnallocated(k)
    BY <1>5
  <2>2. ~Holds(k) /\ Pending' = NoOp
    <3>1. count = 0
      BY <2>1, BucketFacts DEF GetUnallocated, LInv, IInv, TypeOK
    <3>2. op' = NoOp
      BY <1>1, <2>1 DEF GetUnallocated, locals
    <3> QED BY <3>1, <3>2, PendingIs DEF Holds, NoOp
  <2>3. Contents[k] = NoValue
    BY <2>2, ContentsFacts
  <2>4. answer' = Or(Contents[k], Elsewhere(k)) /\ UNCHANGED fallback
    BY <2>1, <2>3 DEF GetUnallocated, Or
  <2> QED BY <1>1, <1>3, <2>2, <2>4, LooksUp
<1>6. CASE \E k \in FallbackKeys, v \in Maybe : ChangeFallback(k, v)
  <2>1. PICK k \in FallbackKeys, v \in Maybe : ChangeFallback(k, v)
    BY <1>6
  <2>2. Pending' = NoOp
    <3>1. op' = NoOp
      BY <1>1, <2>1 DEF ChangeFallback, locals
    <3> QED BY <3>1, PendingIs DEF NoOp
  <2> QED BY <1>1, <1>3, <2>1, <2>2, Falls DEF ChangeFallback
<1>7. CASE \/ \E k \in Keys : Get(k) \/ Remove(k)
           \/ RemoveRandom
           \/ \E k \in Keys, v \in Maybe : Set(k, v)
  <2>1. pc' = "probe" /\ op'.kind # "none" /\ UNCHANGED <<fallback, answer>>
    BY <1>7 DEF Get, Remove, RemoveRandom, Set, StartProbe, Goto
  <2> QED BY <1>4, <2>1
<1> QED BY <1>5, <1>6, <1>7 DEF Call

(* The steps inside a call. *)
LEMMA StepsInside ==
  ASSUME HashMapAssumption, LInv,
         \/ ProbeNext \/ Grow \/ NoGrow
         \/ HomeTaken \/ SeekFree \/ FoundFree \/ SeekPredecessor \/ SeekTail
         \/ RemoveLast \/ RemoveFromMiddle \/ SeekLast \/ FoundLast
  PROVE  UNCHANGED AbstractVars
<1>1. UNCHANGED <<entries, fallback, answer, op>>
  BY DEF ProbeNext, Grow, NoGrow, Room, Allocate, HomeTaken, SeekFree, FoundFree, SeekPredecessor,
         SeekTail, FollowBlindly, RemoveLast, RemoveFromMiddle, SeekLast, FoundLast, table, locals
<1>2. UNCHANGED Contents /\ count' = count
  BY <1>1, SameContents
<1>3. UNCHANGED Pending
  <2>1. CASE ProbeNext
    BY <1>1, <1>2, <2>1, PendingIs DEF ProbeNext, Holds
  <2>2. CASE Grow \/ NoGrow
    <3>1. ~Holds(op.key)
      BY <2>2, EndMeansAbsent DEF Grow, NoGrow
    <3> QED BY <1>1, <1>2, <3>1, PendingIs DEF Holds
  <2>3. CASE HomeTaken \/ SeekFree \/ FoundFree \/ SeekPredecessor \/ SeekTail
    <3>1. pc # "probe" /\ pc' # "probe"
      BY <2>3 DEF HomeTaken, SeekFree, FoundFree, SeekPredecessor, SeekTail, FollowBlindly,
         Goto, locals
    <3> QED BY <1>1, <1>2, <3>1, PendingIs DEF Holds
  <2>4. CASE RemoveLast \/ RemoveFromMiddle \/ SeekLast \/ FoundLast
    <3>1. op.kind = "remove"
      BY <2>4 DEF LInv, IInv, Running, RemoveLast, RemoveFromMiddle, SeekLast, FoundLast
    <3> QED BY <1>1, <3>1, PendingIs
  <2> QED BY <2>1, <2>2, <2>3, <2>4
<1> QED BY <1>1, <1>2, <1>3 DEF AbstractVars

(* The new entry, and each one that is rehashed, is given a bucket. *)
LEMMA PlacingInside ==
  ASSUME HashMapAssumption, LInv, PlaceAtHome \/ MoveMidChain \/ AppendToChain
  PROVE  UNCHANGED AbstractVars
<1>1. UNCHANGED <<entries, fallback, answer>> /\ pc \in Placing /\ Placed
  BY DEF PlaceAtHome, MoveMidChain, AppendToChain, Placing
<1>2. UNCHANGED Contents /\ count' = count /\ index \in 1..count
  BY <1>1, SameContents, PlacingFacts DEF LInv
<1>3. op.kind = "set" /\ pc # "probe"
  BY <1>1 DEF LInv, IInv, Running, Placing
<1>4. UNCHANGED Pending
  <2>1. CASE entries[index].key = op.key
    <3>1. Holds(op.key) /\ op' = NoOp
      BY <1>1, <1>2, <2>1 DEF Holds, Placed, Return
    <3> QED BY <1>3, <3>1, PendingIs DEF NoOp
  <2>2. CASE entries[index].key # op.key
    <3>1. op' = op /\ pc' # "probe"
      BY <1>1, <2>2 DEF Placed, Goto
    <3> QED BY <1>1, <1>2, <1>3, <3>1, PendingIs DEF Holds
  <2> QED BY <2>1, <2>2
<1> QED BY <1>1, <1>2, <1>4 DEF AbstractVars

-----------------------------------------------------------------------------
(* The step in which a call has its effect. *)

LEMMA FoundImplements ==
  ASSUME HashMapAssumption, LInv, Found
  PROVE  Abstract!Next
<1>1. /\ cur \in 1..capacity /\ Full(cur) /\ KeyAt(cur) = op.key /\ op.kind = "get"
      /\ answer' = entries[buckets[cur].index1].value /\ op' = NoOp
      /\ UNCHANGED <<entries, fallback>>
  BY DEF LInv, IInv, Running, Located, Found, Hit, Return, table
<1>2. op.key \in Keys /\ Pending = [kind |-> "get", key |-> op.key] /\ Pending' = NoOp
  <2>1. op.key \in Keys /\ op = [kind |-> "get", key |-> op.key]
    BY <1>1, OpIs DEF LInv, IInv, TypeOK
  <2>2. Pending = op /\ Pending' = NoOp
    BY <1>1, PendingIs DEF NoOp
  <2> QED BY <2>1, <2>2
<1>3. Contents[op.key] = answer' /\ answer' \in Values
  <2>1. buckets[cur].index1 \in 1..count
    BY <1>1, BucketFacts DEF LInv
  <2> QED BY <1>1, <2>1, ContentsFacts, EntryKey DEF LInv, IInv, KeyAt
<1>4. answer' = Or(Contents[op.key], Elsewhere(op.key))
  BY <1>3 DEF HashMapAssumption, Or
<1> QED BY <1>1, <1>2, <1>4, SameContents, LooksUp

LEMMA NotFoundImplements ==
  ASSUME HashMapAssumption, LInv, NotFound
  PROVE  Abstract!Next
<1>1. /\ op.kind = "get" /\ answer' = Elsewhere(op.key) /\ op' = NoOp
      /\ UNCHANGED <<entries, fallback>>
  BY DEF NotFound, Return, table
<1>2. op.key \in Keys /\ Pending = [kind |-> "get", key |-> op.key] /\ Pending' = NoOp
  <2>1. op.key \in Keys /\ op = [kind |-> "get", key |-> op.key]
    BY <1>1, OpIs DEF LInv, IInv, TypeOK
  <2>2. Pending = op /\ Pending' = NoOp
    BY <1>1, PendingIs DEF NoOp
  <2> QED BY <2>1, <2>2
<1>3. Contents[op.key] = NoValue
  BY <1>2, EndMeansAbsent, ContentsFacts DEF NotFound
<1>4. answer' = Or(Contents[op.key], Elsewhere(op.key))
  BY <1>1, <1>3 DEF Or
<1> QED BY <1>1, <1>2, <1>4, SameContents, LooksUp

LEMMA NothingToRemoveImplements ==
  ASSUME HashMapAssumption, LInv, NothingToRemove
  PROVE  Abstract!Next
<1>1. op.kind = "remove" /\ op' = NoOp /\ UNCHANGED <<entries, fallback, answer>>
  BY DEF NothingToRemove, Return, table
<1>2. op.key \in Keys /\ Pending = [kind |-> "remove", key |-> op.key] /\ Pending' = NoOp
  <2>1. op.key \in Keys /\ op = [kind |-> "remove", key |-> op.key]
    BY <1>1, OpIs DEF LInv, IInv, TypeOK
  <2>2. Pending = op /\ Pending' = NoOp
    BY <1>1, PendingIs DEF NoOp
  <2> QED BY <2>1, <2>2
<1>3. Contents[op.key] = NoValue /\ Contents = [k \in Keys |-> Contents[k]]
  BY <1>2, EndMeansAbsent, ContentsFacts DEF NothingToRemove
<1>4. Contents' = [Contents EXCEPT ![op.key] = NoValue]
  BY <1>1, <1>2, <1>3, SameContents
<1> QED BY <1>1, <1>2, <1>4, Deletes

(* Two maps are the same but at k if they agree on all the other keys. *)
LEMMA SameButAt ==
  ASSUME NEW k \in Keys, NEW w, NEW f, NEW g,
         f = [x \in Keys |-> f[x]], g = [x \in Keys |-> g[x]],
         g[k] = w, \A x \in Keys \ {k} : g[x] = f[x]
  PROVE  g = [f EXCEPT ![k] = w]
OBVIOUS

(* The contents after a step. *)
LEMMA ContentsAfter ==
  ASSUME LInv'
  PROVE  /\ Contents' = [k \in Keys |-> Contents'[k]]
         /\ \A i \in 1..count' :
              entries'[i].key \in Keys => Contents'[entries'[i].key] = entries'[i].value
         /\ \A k \in Keys :
              (\A i \in 1..count' : entries'[i].key # k) => Contents'[k] = NoValue
<1>1. Contents' = MapOf(entries') /\ count' = Len(entries')
  BY DEF Contents, MapOf, count
<1>2. \A i, j \in 1..Len(entries') : entries'[i].key = entries'[j].key => i = j
  BY DEF LInv, Complete, DistinctKeys, count
<1>3. /\ MapOf(entries') = [k \in Keys |-> MapOf(entries')[k]]
      /\ \A i \in 1..Len(entries') :
           entries'[i].key \in Keys => MapOf(entries')[entries'[i].key] = entries'[i].value
      /\ \A k \in Keys : (\A i \in 1..Len(entries') : entries'[i].key # k)
                           => MapOf(entries')[k] = NoValue
  BY <1>2, MapFacts
<1> QED BY <1>1, <1>3

LEMMA UpdateImplements ==
  ASSUME HashMapAssumption, LInv, LInv', Update
  PROVE  Abstract!Next
<1> PICK r : r = buckets[cur].index1
  OBVIOUS
<1>1. /\ cur \in 1..capacity /\ Full(cur) /\ KeyAt(cur) = op.key /\ op.kind = "set"
      /\ pc = "probe" /\ op' = NoOp /\ UNCHANGED <<fallback, answer>>
  BY DEF LInv, IInv, Running, Located, Update, Hit, Return
<1>2. /\ op.key \in Keys /\ op.value \in Maybe
      /\ Pending = [kind |-> "set", key |-> op.key, value |-> op.value] /\ Pending' = NoOp
  <2>1. /\ op.key \in Keys /\ op.value \in Maybe
        /\ op = [kind |-> "set", key |-> op.key, value |-> op.value]
    BY <1>1, OpIs DEF LInv, IInv, TypeOK
  <2>2. Pending = op /\ Pending' = NoOp
    BY <1>1, PendingIs DEF NoOp
  <2> QED BY <2>1, <2>2
<1>3. r \in 1..count /\ entries[r].key = op.key
  BY <1>1, BucketFacts DEF LInv, KeyAt
<1>4. /\ count' = count
      /\ \A i \in 1..count : entries'[i].key = entries[i].key
      /\ \A i \in 1..count : entries'[i].value = IF i = r /\ op.value # NoValue
                                                   THEN op.value ELSE entries[i].value
  BY UpdatedEntries DEF LInv
<1> DEFINE w == IF op.value # NoValue THEN op.value
                ELSE Or(Contents[op.key], Or(Or(Contents[op.key], Elsewhere(op.key)), Zero))
<1>5. /\ Contents = [k \in Keys |-> Contents[k]]
      /\ \A i \in 1..count : entries[i].key \in Keys /\ Contents[entries[i].key] = entries[i].value
      /\ \A k \in Keys : (\A i \in 1..count : entries[i].key # k) => Contents[k] = NoValue
  BY ContentsFacts DEF Holds
<1>6. /\ Contents' = [k \in Keys |-> Contents'[k]]
      /\ \A i \in 1..count : Contents'[entries[i].key] = entries'[i].value
      /\ \A k \in Keys : (\A i \in 1..count : entries[i].key # k) => Contents'[k] = NoValue
  BY <1>4, <1>5, ContentsAfter
<1>7. Contents'[op.key] = w
  <2>1. Contents'[op.key] = entries'[r].value /\ Contents[op.key] = entries[r].value
    BY <1>3, <1>5, <1>6
  <2>2. entries[r].value \in Values
    BY <1>3, EntryKey DEF LInv, IInv
  <2>3. Contents[op.key] # NoValue
    BY <2>1, <2>2 DEF HashMapAssumption
  <2> QED BY <1>3, <1>4, <2>1, <2>3 DEF Or
<1>8. \A x \in Keys \ {op.key} : Contents'[x] = Contents[x]
  <2> SUFFICES ASSUME NEW x \in Keys, x # op.key
               PROVE  Contents'[x] = Contents[x]
    OBVIOUS
  <2>1. CASE \A i \in 1..count : entries[i].key # x
    BY <1>5, <1>6, <2>1
  <2>2. CASE \E i \in 1..count : entries[i].key = x
    <3>1. PICK i \in 1..count : entries[i].key = x
      BY <2>2
    <3>2. i # r
      BY <1>3, <3>1
    <3> QED BY <1>4, <1>5, <1>6, <3>1, <3>2
  <2> QED BY <2>1, <2>2
<1>9. Contents' = [Contents EXCEPT ![op.key] = w]
  <2> HIDE DEF w
  <2> QED BY <1>2, <1>5, <1>6, <1>7, <1>8, SameButAt
<1> QED BY <1>1, <1>2, <1>9, Puts

LEMMA AppendEntryImplements ==
  ASSUME HashMapAssumption, LInv, LInv', AppendEntry
  PROVE  Abstract!Next
<1>1. /\ pc = "append" /\ pc' = "place" /\ op.kind = "set" /\ op' = op
      /\ UNCHANGED <<fallback, answer>>
  BY DEF LInv, IInv, Running, AppendEntry, Goto
<1>2. /\ count \in Nat /\ count' = count + 1
      /\ \A i \in 1..count : entries'[i] = entries[i]
      /\ entries'[count + 1].key = op.key
      /\ entries'[count + 1].value = Or(Or(op.value, Elsewhere(op.key)), Zero)
  BY AppendedEntries DEF LInv
<1>3. ~Holds(op.key)
  BY <1>1 DEF LInv, Complete, Searching
<1>4. /\ op.key \in Keys /\ op.value \in Maybe
      /\ Pending = [kind |-> "set", key |-> op.key, value |-> op.value] /\ Pending' = NoOp
  <2>1. /\ op.key \in Keys /\ op.value \in Maybe
        /\ op = [kind |-> "set", key |-> op.key, value |-> op.value]
    BY <1>1, OpIs DEF LInv, IInv, TypeOK
  <2>2. Pending = op
    BY <1>3, PendingIs
  <2>3. \E i \in 1..count' : entries'[i].key = op'.key
    BY <1>1, <1>2
  <2>4. Pending' = NoOp
    BY <1>1, <2>3, PendingIs
  <2> QED BY <2>1, <2>2, <2>4
<1> DEFINE w == IF op.value # NoValue THEN op.value
                ELSE Or(Contents[op.key], Or(Or(Contents[op.key], Elsewhere(op.key)), Zero))
<1>5. /\ Contents = [k \in Keys |-> Contents[k]] /\ Contents[op.key] = NoValue
      /\ \A i \in 1..count : entries[i].key \in Keys /\ Contents[entries[i].key] = entries[i].value
      /\ \A k \in Keys : (\A i \in 1..count : entries[i].key # k) => Contents[k] = NoValue
  BY <1>3, <1>4, ContentsFacts DEF Holds
<1>6. /\ Contents' = [k \in Keys |-> Contents'[k]]
      /\ \A i \in 1..(count + 1) :
           entries'[i].key \in Keys => Contents'[entries'[i].key] = entries'[i].value
      /\ \A k \in Keys : (\A i \in 1..(count + 1) : entries'[i].key # k) => Contents'[k] = NoValue
  BY <1>2, ContentsAfter
<1>7. Contents'[op.key] = w
  <2>1. Contents'[op.key] = Or(Or(op.value, Elsewhere(op.key)), Zero)
    <3>1. count + 1 \in 1..(count + 1)
      BY <1>2
    <3> QED BY <1>2, <1>4, <1>6, <3>1
  <2> QED BY <1>5, <2>1 DEF Or
<1>8. \A x \in Keys \ {op.key} : Contents'[x] = Contents[x]
  <2> SUFFICES ASSUME NEW x \in Keys, x # op.key
               PROVE  Contents'[x] = Contents[x]
    OBVIOUS
  <2>1. CASE \A i \in 1..count : entries[i].key # x
    <3>1. \A i \in 1..(count + 1) : entries'[i].key # x
      BY <1>2, <2>1
    <3> QED BY <1>5, <1>6, <2>1, <3>1
  <2>2. CASE \E i \in 1..count : entries[i].key = x
    <3>1. PICK i \in 1..count : entries[i].key = x
      BY <2>2
    <3>2. i \in 1..(count + 1) /\ entries'[i] = entries[i]
      BY <1>2
    <3> QED BY <1>5, <1>6, <3>1, <3>2
  <2> QED BY <2>1, <2>2
<1>9. Contents' = [Contents EXCEPT ![op.key] = w]
  <2> HIDE DEF w
  <2> QED BY <1>4, <1>5, <1>6, <1>7, <1>8, SameButAt
<1> QED BY <1>1, <1>4, <1>9, Puts

LEMMA UnlinkImplements ==
  ASSUME HashMapAssumption, LInv, LInv', Unlink
  PROVE  Abstract!Next
<1> PICK r : r = buckets[cur].index1
  OBVIOUS
<1>1. /\ pc = "unlink" /\ op' = NoOp /\ op.kind = "remove"
      /\ cur \in 1..capacity /\ Full(cur) /\ KeyAt(cur) = op.key
  BY DEF LInv, IInv, Running, Located, Unlink, Return, Raised
<1>2. /\ count \in Nat /\ r \in 1..count /\ entries[r].key = op.key
  BY <1>1, BucketFacts DEF LInv, KeyAt
<1>3. /\ count' = count - 1 /\ UNCHANGED <<fallback, answer>>
      /\ \A i \in 1..(count - 1) : entries'[i] = IF i = r THEN entries[count] ELSE entries[i]
  BY UnlinkStep DEF LInv
<1>4. op.key \in Keys /\ Pending = [kind |-> "remove", key |-> op.key] /\ Pending' = NoOp
  <2>1. op.key \in Keys /\ op = [kind |-> "remove", key |-> op.key]
    BY <1>1, OpIs DEF LInv, IInv, TypeOK
  <2>2. Pending = op /\ Pending' = NoOp
    BY <1>1, PendingIs DEF NoOp
  <2> QED BY <2>1, <2>2
<1>5. /\ Contents = [k \in Keys |-> Contents[k]]
      /\ \A i \in 1..count : entries[i].key \in Keys /\ Contents[entries[i].key] = entries[i].value
      /\ \A k \in Keys : (\A i \in 1..count : entries[i].key # k) => Contents[k] = NoValue
  BY ContentsFacts DEF Holds
<1>6. /\ Contents' = [k \in Keys |-> Contents'[k]]
      /\ \A i \in 1..(count - 1) :
           entries'[i].key \in Keys => Contents'[entries'[i].key] = entries'[i].value
      /\ \A k \in Keys : (\A i \in 1..(count - 1) : entries'[i].key # k) => Contents'[k] = NoValue
  BY <1>3, ContentsAfter
<1>7. \A i, j \in 1..count : entries[i].key = entries[j].key => i = j
  BY DEF LInv, Complete, DistinctKeys
<1>8. Contents'[op.key] = NoValue
  <2> SUFFICES ASSUME NEW i \in 1..(count - 1)
               PROVE  entries'[i].key # op.key
    BY <1>4, <1>6
  <2>1. PICK o \in 1..count : o # r /\ entries'[i] = entries[o]
    <3>1. CASE i = r
      BY <1>2, <1>3, <3>1
    <3>2. CASE i # r
      BY <1>2, <1>3, <3>2
    <3> QED BY <3>1, <3>2
  <2> QED BY <1>2, <1>7, <2>1
<1>9. \A x \in Keys \ {op.key} : Contents'[x] = Contents[x]
  <2> SUFFICES ASSUME NEW x \in Keys, x # op.key
               PROVE  Contents'[x] = Contents[x]
    OBVIOUS
  <2>1. CASE \A i \in 1..count : entries[i].key # x
    <3>1. \A i \in 1..(count - 1) : entries'[i].key # x
      BY <1>2, <1>3, <2>1
    <3> QED BY <1>5, <1>6, <2>1, <3>1
  <2>2. CASE \E i \in 1..count : entries[i].key = x
    <3>1. PICK o \in 1..count : entries[o].key = x
      BY <2>2
    <3>2. o # r
      BY <1>2, <3>1
    <3>3. PICK i \in 1..(count - 1) : entries'[i] = entries[o]
      <4>1. CASE o = count
        <5>1. r \in 1..(count - 1)
          BY <1>2, <3>2, <4>1
        <5> QED BY <1>3, <4>1, <5>1
      <4>2. CASE o # count
        <5>1. o \in 1..(count - 1)
          BY <1>2, <4>2
        <5> QED BY <1>3, <3>2, <5>1
      <4> QED BY <4>1, <4>2
    <3> QED BY <1>5, <1>6, <3>1, <3>3
  <2> QED BY <2>1, <2>2
<1>10. Contents' = [Contents EXCEPT ![op.key] = NoValue]
  BY <1>4, <1>5, <1>6, <1>8, <1>9, SameButAt
<1> QED BY <1>3, <1>4, <1>10, Deletes

(* Every step of the map is a step of the table or changes nothing there:  *)
(* buckets, chains and growth are invisible, each call has its effect once,*)
(* and a lookup answers with what was stored last under the key, with what *)
(* the fallback answers, or with the default value, in this order.         *)
THEOREM MapIsTable == Spec => ImplementsTable
<1>1. Init => Abstract!Init
  <2> SUFFICES ASSUME Init PROVE Abstract!Init
    OBVIOUS
  <2>1. Contents = [k \in Keys |-> NoValue]
    BY DEF Init, Contents, count
  <2>2. Pending = NoOp
    BY PendingIs DEF Init, NoOp
  <2> QED BY <2>1, <2>2 DEF Init, NoOp, Abstract!Init, Abstract!NoCall
<1>2. ASSUME HashMapAssumption, LInv, LInv', [Next]_vars
      PROVE  Abstract!Next \/ UNCHANGED AbstractVars
  <2>1. CASE Call
    BY <1>2, <2>1, CallsImplement
  <2>2. CASE Probe
    BY <1>2, <2>2, StepsInside, FoundImplements, NotFoundImplements, UpdateImplements,
       NothingToRemoveImplements DEF Probe
  <2>3. CASE Insert
    BY <1>2, <2>3, StepsInside, AppendEntryImplements DEF Insert
  <2>4. CASE SetBucket
    BY <1>2, <2>4, StepsInside, PlacingInside DEF SetBucket
  <2>5. CASE Delete
    BY <1>2, <2>5, StepsInside, UnlinkImplements DEF Delete
  <2>6. CASE UNCHANGED vars
    BY <2>6 DEF vars, table, locals, AbstractVars, Contents, Pending, count
  <2> QED BY <1>2, <2>1, <2>2, <2>3, <2>4, <2>5, <2>6 DEF Next, Step
<1>3. LInv /\ LInv' /\ [Next]_vars => [Abstract!Next]_(Abstract!vars)
  BY <1>2, HashMapAssumption DEF AbstractVars, Abstract!vars
<1> QED BY <1>1, <1>3, LookupInvariance, PTL DEF Spec, ImplementsTable, Abstract!Spec

-----------------------------------------------------------------------------
(* That every call comes to its end.  What is left of a call are three     *)
(* numbers, of which a step makes one less and leaves those before it: the *)
(* entries that wait for a bucket; the loops of set_bucket and remove that *)
(* are still to come; and for the running loop how far it can still go.    *)
Unfiled ==
  CASE pc = "probe" -> count + 3
    [] pc = "append" -> 1
    [] pc \in Placing -> IF entries[index].key = op.key THEN 0 ELSE (count - index) + 2
    [] OTHER -> 0

Stage ==
  CASE pc = "place" -> 3
    [] pc = "free" -> 2
    [] pc \in {"predecessor", "tail", "last"} -> 1
    [] OTHER -> 0

Ahead(b) == {c \in 1..capacity : Leads(b, c)}

Distance ==
  CASE pc = "probe" -> Cardinality(Ahead(cur))
    [] pc \in {"predecessor", "tail", "last"} -> Cardinality(Ahead(scan))
    [] pc = "free" -> lastfree
    [] OTHER -> 0

Closer ==
  \/ Unfiled' < Unfiled
  \/ Unfiled' = Unfiled /\ Stage' < Stage
  \/ Unfiled' = Unfiled /\ Stage' = Stage /\ Distance' < Distance

(* No link leads back: a bucket is not ahead of the one that follows it.   *)
LEMMA NoWayBack ==
  ASSUME HashMapAssumption, IInv, Reachable, NEW b \in 1..capacity, buckets[b].next1 # 0
  PROVE  ~Leads(buckets[b].next1, b)
<1> DEFINE n == buckets[b].next1
           h == Home(KeyAt(b))
           Ring == {c \in 1..capacity : Leads(n, c) /\ Leads(c, b)}
           S == (1..capacity) \ Ring
<1>1. n \in 1..capacity /\ Full(b) /\ Full(n) /\ h \in 1..capacity /\ Leads(h, b)
      /\ Home(KeyAt(n)) = h /\ h # n
  <2>1. n \in 1..capacity
    BY BucketFacts
  <2>2. Full(b) /\ Full(n) /\ Home(KeyAt(n)) = h /\ h # n
    BY <2>1 DEF IInv, Links
  <2> QED BY <2>1, <2>2, BucketFacts DEF Reachable
<1> SUFFICES ASSUME Leads(n, b)
             PROVE  FALSE
  OBVIOUS
<1>2. \A x \in 1..capacity : buckets[x].next1 # h
  <2> SUFFICES ASSUME NEW x \in 1..capacity, buckets[x].next1 = h
               PROVE  FALSE
    OBVIOUS
  <2>1. Home(KeyAt(h)) # h
    BY <1>1 DEF IInv, Links
  <2>2. Home(KeyAt(h)) = h
    BY <1>1, HomeIsTaken
  <2> QED BY <2>1, <2>2
<1>3. h \in S
  <2>1. (1..capacity) \ {h} \in SUBSET (1..capacity) /\ Closed((1..capacity) \ {h})
        /\ n \in (1..capacity) \ {h} /\ h \notin (1..capacity) \ {h}
    BY <1>1, <1>2, BucketFacts DEF Closed
  <2>2. ~Leads(n, h)
    <3> HIDE DEF n, h
    <3> QED BY <2>1 DEF Leads
  <2> QED BY <1>1, <2>2
<1>4. b \notin S
  BY DEF Leads
<1>5. ASSUME NEW x \in S, buckets[x].next1 # 0, buckets[x].next1 \in Ring
      PROVE  FALSE
  <2> DEFINE d == buckets[x].next1
  <2>1. x \in 1..capacity /\ d \in 1..capacity /\ Leads(n, d) /\ Leads(d, b)
    BY <1>5
  <2>2. \A c \in 1..capacity : buckets[c].next1 = d => c = x
    BY <2>1 DEF IInv, Links
  <2>3. d # n
    BY <2>2, <1>4, <1>5
  <2>4. Leads(n, x)
    <3> SUFFICES ASSUME NEW T \in SUBSET (1..capacity), Closed(T), n \in T, x \notin T
                 PROVE  FALSE
      BY DEF Leads
    <3>1. T \ {d} \in SUBSET (1..capacity) /\ n \in T \ {d} /\ Closed(T \ {d})
      BY <2>2, <2>3 DEF Closed
    <3>2. d \in T \ {d}
      <4> HIDE DEF d, n
      <4> QED BY <2>1, <3>1 DEF Leads
    <3> QED BY <3>2
  <2>5. Leads(x, b)
    <3> SUFFICES ASSUME NEW T \in SUBSET (1..capacity), Closed(T), x \in T
                 PROVE  b \in T
      BY DEF Leads
    <3>1. d \in T
      BY <1>5 DEF Closed
    <3> QED BY <2>1, <3>1 DEF Leads
  <2> QED BY <1>5, <2>1, <2>4, <2>5
<1>6. S \in SUBSET (1..capacity) /\ Closed(S)
  <2> SUFFICES ASSUME NEW x \in S, buckets[x].next1 # 0
               PROVE  buckets[x].next1 \in S
    BY DEF Closed
  <2>1. buckets[x].next1 \in 1..capacity
    BY BucketFacts
  <2> QED BY <2>1, <1>5
<1>7. b \in S
  <2> HIDE DEF S, h
  <2> QED BY <1>1, <1>3, <1>6 DEF Leads
<1> QED BY <1>4, <1>7

(* So the buckets ahead become fewer with every link.                      *)
LEMMA FewerAhead ==
  ASSUME HashMapAssumption, IInv, Reachable, NEW b \in 1..capacity, buckets[b].next1 # 0
  PROVE  Cardinality(Ahead(buckets[b].next1)) < Cardinality(Ahead(b))
<1> DEFINE n == buckets[b].next1
<1>1. Ahead(n) \subseteq Ahead(b)
  <2> SUFFICES ASSUME NEW c \in 1..capacity, Leads(n, c), NEW S \in SUBSET (1..capacity), Closed(S), b \in S
               PROVE  c \in S
    BY DEF Ahead, Leads
  <2>1. n \in S
    BY DEF Closed
  <2> QED BY <2>1 DEF Leads
<1>2. b \in Ahead(b)
  BY DEF Ahead, Leads
<1>3. b \notin Ahead(n)
  BY NoWayBack DEF Ahead
<1>4. IsFiniteSet(Ahead(b))
  <2>1. IsFiniteSet(1..capacity) /\ Ahead(b) \subseteq 1..capacity
    BY FS_Interval, BucketFacts DEF Ahead
  <2> QED BY <2>1, FS_Subset
<1>5. Ahead(n) # Ahead(b)
  BY <1>2, <1>3
<1>6. Cardinality(Ahead(b)) \in Nat /\ Cardinality(Ahead(n)) \in Nat
  BY <1>1, <1>4, FS_Subset, FS_CardinalityType
<1>7. Cardinality(Ahead(n)) <= Cardinality(Ahead(b)) /\ Cardinality(Ahead(n)) # Cardinality(Ahead(b))
  BY <1>1, <1>4, <1>5, FS_Subset
<1> DEFINE p == Cardinality(Ahead(n))
           q == Cardinality(Ahead(b))
<1>8. p \in Nat /\ q \in Nat /\ p <= q /\ p # q => p < q
  <2> HIDE DEF p, q
  <2> QED OBVIOUS
<1> QED BY <1>6, <1>7, <1>8

LEMMA AheadIsFinite ==
  ASSUME HashMapAssumption, IInv, NEW b
  PROVE  Cardinality(Ahead(b)) \in Nat
<1>1. IsFiniteSet(1..capacity) /\ Ahead(b) \subseteq 1..capacity
  BY FS_Interval, BucketFacts DEF Ahead
<1> QED BY <1>1, FS_Subset, FS_CardinalityType

LEMMA LeftIsNat ==
  ASSUME HashMapAssumption, IInv
  PROVE  Unfiled \in Nat /\ Stage \in Nat /\ Distance \in Nat
<1>1. count \in Nat /\ lastfree \in Nat /\ index \in 0..count
  BY BucketFacts DEF IInv, TypeOK
<1>2. Cardinality(Ahead(cur)) \in Nat /\ Cardinality(Ahead(scan)) \in Nat
  BY AheadIsFinite
<1>3. Unfiled \in Nat
  BY <1>1 DEF Unfiled
<1>4. Stage \in Nat
  BY DEF Stage
<1>5. Distance \in Nat
  BY <1>1, <1>2 DEF Distance
<1> QED BY <1>3, <1>4, <1>5

(* The steps that follow a link, and the search for a free bucket.         *)
LEMMA WalksComeCloser ==
  ASSUME HashMapAssumption, LInv, LInv',
         ProbeNext \/ SeekPredecessor \/ SeekTail \/ SeekLast \/ SeekFree
  PROVE  Closer
<1>1. IInv /\ Reachable
  BY DEF LInv, Complete
<1>2. /\ UNCHANGED <<capacity, buckets, entries, pc, op, index>>
      /\ \A b : Ahead(b)' = Ahead(b)
  <2>1. UNCHANGED <<capacity, buckets, entries, pc, op, index>>
    BY DEF ProbeNext, SeekPredecessor, SeekTail, SeekLast, SeekFree, FollowBlindly, table, locals
  <2>2. ASSUME NEW b PROVE Ahead(b)' = Ahead(b)
    BY <2>1 DEF Ahead, Leads, Closed
  <2> QED BY <2>1, <2>2
<1>3. Unfiled' = Unfiled /\ Stage' = Stage
  BY <1>2 DEF Unfiled, Stage, count
<1>4. Distance' < Distance
  <2>1. CASE ProbeNext
    <3>1. pc = "probe" /\ cur \in 1..capacity /\ buckets[cur].next1 # 0 /\ cur' = buckets[cur].next1
      BY <1>1, <2>1 DEF ProbeNext, ChainEnds, IInv, Running, Located
    <3>2. Distance = Cardinality(Ahead(cur)) /\ Distance' = Cardinality(Ahead(buckets[cur].next1))
      BY <1>2, <3>1 DEF Distance
    <3> QED BY <1>1, <3>1, <3>2, FewerAhead
  <2>2. CASE SeekPredecessor \/ SeekTail \/ SeekLast
    <3>1. /\ pc \in {"predecessor", "tail", "last"} /\ scan \in 1..capacity
          /\ buckets[scan].next1 # 0 /\ scan' = buckets[scan].next1
      BY <1>1, <2>2 DEF SeekPredecessor, SeekTail, SeekLast, FollowBlindly, IInv, Running
    <3>2. Distance = Cardinality(Ahead(scan)) /\ Distance' = Cardinality(Ahead(buckets[scan].next1))
      BY <1>2, <3>1 DEF Distance
    <3> QED BY <1>1, <3>1, <3>2, FewerAhead
  <2>3. CASE SeekFree
    <3>1. pc = "free" /\ pc' = "free" /\ lastfree' = lastfree - 1 /\ lastfree \in Nat
      BY <1>1, <1>2, <2>3 DEF SeekFree, IInv, TypeOK
    <3> QED BY <3>1 DEF Distance
  <2> QED BY <2>1, <2>2, <2>3
<1> QED BY <1>3, <1>4 DEF Closer

(* The steps from one loop to the next.                                    *)
LEMMA StagesComeCloser ==
  ASSUME HashMapAssumption, LInv,
         \/ Grow \/ NoGrow \/ AppendEntry
         \/ HomeTaken \/ FoundFree
         \/ RemoveLast \/ RemoveFromMiddle \/ FoundLast
  PROVE  Closer
<1>1. count \in Nat /\ index \in 0..count
  BY BucketFacts DEF LInv, IInv, TypeOK
<1>2. CASE Grow \/ NoGrow
  <2>1. pc = "probe" /\ count' = count /\ entries' = entries
    BY <1>2 DEF Grow, NoGrow, table, count
  <2>2. pc' = "append" \/ (pc' = "place" /\ index' = 1)
    BY <1>2 DEF Grow, NoGrow, Goto
  <2>3. Unfiled = count + 3
    BY <2>1 DEF Unfiled, Placing
  <2>4. Unfiled' \in {0, 1, (count - 1) + 2}
    BY <2>1, <2>2 DEF Unfiled, Placing
  <2> QED BY <1>1, <2>3, <2>4 DEF Closer
<1>3. CASE AppendEntry
  <2>1. pc = "append" /\ pc' = "place" /\ op' = op /\ index' = count + 1
        /\ entries' = Append(entries, [key |-> op.key, value |-> Or(Or(op.value, Elsewhere(op.key)), Zero)])
    BY <1>3 DEF AppendEntry, Goto
  <2>2. entries'[index'].key = op'.key
    <3>1. entries \in Seq(Entry) /\ index' = Len(entries) + 1
      BY <2>1 DEF LInv, IInv, TypeOK, count
    <3>2. entries'[index'] = [key |-> op.key, value |-> Or(Or(op.value, Elsewhere(op.key)), Zero)]
      BY <2>1, <3>1, AppendProperties
    <3>3. [key |-> op.key, value |-> Or(Or(op.value, Elsewhere(op.key)), Zero)].key = op.key
      OBVIOUS
    <3> QED BY <2>1, <3>2, <3>3, Zenon
  <2>3. Unfiled = 1 /\ Unfiled' = 0
    BY <2>1, <2>2 DEF Unfiled, Placing
  <2> QED BY <2>3 DEF Closer
<1>4. CASE HomeTaken \/ FoundFree
  <2>1. /\ UNCHANGED <<entries, op, index>>
        /\ \/ pc = "place" /\ pc' = "free"
           \/ pc = "free" /\ pc' \in {"predecessor", "tail"}
    BY <1>4 DEF HomeTaken, FoundFree, Goto, table
  <2>2. Unfiled' = Unfiled
    BY <2>1 DEF Unfiled, Placing, count
  <2>3. Stage' < Stage
    BY <2>1 DEF Stage
  <2> QED BY <2>2, <2>3 DEF Closer
<1>5. CASE RemoveLast \/ RemoveFromMiddle
  <2>1. pc = "probe" /\ pc' \in {"unlink", "last"}
    BY <1>5 DEF RemoveLast, RemoveFromMiddle, Goto
  <2>2. Unfiled = count + 3 /\ Unfiled' = 0
    BY <2>1 DEF Unfiled, Placing
  <2> QED BY <1>1, <2>2 DEF Closer
<1>6. CASE FoundLast
  <2>1. pc = "last" /\ pc' = "unlink"
    BY <1>6 DEF FoundLast, Goto
  <2>2. Unfiled' = 0 /\ Unfiled = 0 /\ Stage = 1 /\ Stage' = 0
    BY <2>1 DEF Unfiled, Stage, Placing
  <2> QED BY <2>2 DEF Closer
<1> QED BY <1>2, <1>3, <1>4, <1>5, <1>6

(* An entry that is filed leaves one less, or is the last of the call.     *)
LEMMA FilingComesCloser ==
  ASSUME HashMapAssumption, LInv, PlaceAtHome \/ MoveMidChain \/ AppendToChain
  PROVE  pc' = "idle" \/ Closer
<1>1. count \in Nat /\ index \in 1..count
  BY BucketFacts DEF LInv, IInv, Running, Placing, PlaceAtHome, MoveMidChain, AppendToChain
<1>2. pc \in Placing /\ Placed /\ entries' = entries
  BY DEF PlaceAtHome, MoveMidChain, AppendToChain, Placing
<1>3. CASE entries[index].key = op.key
  BY <1>2, <1>3 DEF Placed, Return
<1>4. CASE entries[index].key # op.key
  <2>1. Unfiled = (count - index) + 2
    BY <1>2, <1>4 DEF Unfiled, Placing
  <2>2. \/ index < count /\ pc' = "place" /\ index' = index + 1
        \/ index = count /\ pc' = "append"
    BY <1>1, <1>2, <1>4 DEF Placed, Goto
  <2>3. Unfiled' \in {0, (count - (index + 1)) + 2} \/ (index = count /\ Unfiled' = 1)
    BY <1>2, <2>2 DEF Unfiled, Placing, count
  <2> QED BY <1>1, <2>1, <2>2, <2>3 DEF Closer
<1> QED BY <1>3, <1>4

CallsComeCloser ==
  /\ [](Unfiled \in Nat /\ Stage \in Nat /\ Distance \in Nat)
  /\ [][pc # "idle" => pc' = "idle" \/ Closer]_vars

(* No call runs for ever: whatever it is and whatever the table holds,     *)
(* every step of it is the last one or brings it closer to its end, in     *)
(* three natural numbers of which the first that changes becomes less.     *)
(* Together with EntriesAreFound and FreeBucketFound, by which no step     *)
(* is missing, this is what CallsReturn needs but for fairness             *)
(* (the loops of libsss/hashmap.c).                                        *)
THEOREM NoCallRunsForEver == Spec => CallsComeCloser
<1>1. ASSUME HashMapAssumption, LInv, LInv', [Next]_vars
      PROVE  [pc # "idle" => pc' = "idle" \/ Closer]_vars
  <2> SUFFICES ASSUME Next, pc # "idle"
               PROVE  pc' = "idle" \/ Closer
    BY <1>1
  <2>1. CASE Call
    BY <2>1 DEF Call, Get, GetUnallocated, Set, Remove, RemoveRandom, ChangeFallback, StartProbe
  <2>2. CASE Probe
    <3>1. CASE ProbeNext
      BY <1>1, <3>1, WalksComeCloser
    <3>2. CASE Found \/ NotFound \/ Update \/ NothingToRemove
      BY <3>2 DEF Found, NotFound, Update, NothingToRemove, Return
    <3> QED BY <2>2, <3>1, <3>2 DEF Probe
  <2>3. CASE Insert
    BY <1>1, <2>3, StagesComeCloser DEF Insert
  <2>4. CASE SetBucket
    BY <1>1, <2>4, WalksComeCloser, StagesComeCloser, FilingComesCloser DEF SetBucket
  <2>5. CASE Delete
    <3>1. CASE Unlink
      BY <3>1 DEF Unlink, Return
    <3> QED BY <1>1, <2>5, <3>1, WalksComeCloser, StagesComeCloser DEF Delete
  <2> QED BY <2>1, <2>2, <2>3, <2>4, <2>5 DEF Next, Step
<1>2. LInv /\ LInv' /\ [Next]_vars => [pc # "idle" => pc' = "idle" \/ Closer]_vars
  BY <1>1, HashMapAssumption
<1>3. LInv => Unfiled \in Nat /\ Stage \in Nat /\ Distance \in Nat
  BY LeftIsNat, HashMapAssumption DEF LInv
<1> QED BY <1>2, <1>3, LookupInvariance, PTL DEF Spec, CallsComeCloser
=============================================================================
