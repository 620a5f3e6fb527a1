------------------------------- MODULE HashMap -------------------------------
(***************************************************************************)
(* The hash map of libsss/hashmap.c: entries in insertion order and a      *)
(* separate array of buckets, chained scatter with Brent's variation.      *)
(* Every iteration of every loop of sss_hashmap_get, _set, _set_bucket,    *)
(* hashmap_resize and _remove is a step.  `pc' names the loop or the       *)
(* straight-line part that runs next.  Buckets are numbered from 1 and 0   *)
(* is "none", as in the code's index1 and next1.                           *)
(***************************************************************************)
EXTENDS Integers, Sequences, FiniteSets

CONSTANTS Keys, Values, NoValue, Zero, Default, FallbackKeys,
  Hash,          \* the hash of every key
  FirstCapacity  \* the number of buckets of a table's first allocation

ASSUME HashMapAssumption ==
  /\ NoValue \notin Values
  /\ Zero \in Values
  /\ Default \in Values \cup {NoValue}
  /\ FallbackKeys \subseteq Keys
  /\ Hash \in [Keys -> Nat]
  /\ FirstCapacity \in Nat \ {0}

VARIABLES
  capacity, lastfree,  \* h->capacity, h->lastfree_index1
  buckets,             \* h->buckets
  entries,             \* the first h->count slots of h->entries
  fallback,            \* what h->fallback, and its fallbacks, answer
  answer,              \* what the last sss_hashmap_get returned
  pc, op,              \* the running call: where it is, what it was asked
  cur, prev,           \* the bucket under the probe, the one before it
  scan,                \* the cursor of the second loop of a call
  index                \* index1 of the entry that is being given a bucket

table == <<capacity, lastfree, buckets, entries>>
locals == <<pc, op, cur, prev, scan, index>>
vars == <<table, fallback, answer, locals>>

Maybe == Values \cup {NoValue}
Empty == [index1 |-> 0, next1 |-> 0]
NoOp == [kind |-> "none"]
count == Len(entries)

(* key_hash(key) % capacity, as a bucket number *)
Home(k) == 1 + (Hash[k] % capacity)
KeyAt(b) == entries[buckets[b].index1].key
Full(b) == buckets[b].index1 # 0

Or(v, w) == IF v = NoValue THEN w ELSE v

(* Bug: the default value is asked before the fallback. *)
BugDefaultFirst(k) == Or(Default, fallback[k])

(* What a lookup of a key that has no entry of its own answers. *)
Elsewhere(k) == Or(fallback[k], Default)

Init ==
  /\ capacity = 0 /\ lastfree = 0
  /\ buckets = <<>> /\ entries = <<>>
  /\ fallback = [k \in Keys |-> NoValue]
  /\ answer = NoValue
  /\ pc = "idle" /\ op = NoOp
  /\ cur = 0 /\ prev = 0 /\ scan = 0 /\ index = 0

-----------------------------------------------------------------------------
(* How calls begin and end, and the allocation of empty buckets. *)

Return ==
  /\ pc' = "idle" /\ op' = NoOp
  /\ cur' = 0 /\ prev' = 0 /\ scan' = 0 /\ index' = 0

Goto(label) == pc' = label

(* The chain walk of get_raw and of remove starts at the key's home. *)
StartProbe(call, home) ==
  /\ pc = "idle"
  /\ Goto("probe")
  /\ op' = call
  /\ cur' = home
  /\ UNCHANGED <<entries, fallback, answer, prev, scan, index>>

Allocate(n) ==
  /\ buckets' = [b \in 1..n |-> Empty]
  /\ capacity' = n
  /\ lastfree' = n

Get(k) ==
  /\ capacity # 0
  /\ StartProbe([kind |-> "get", key |-> k], Home(k))
  /\ UNCHANGED <<capacity, lastfree, buckets>>

GetUnallocated(k) ==
  /\ pc = "idle" /\ capacity = 0
  /\ answer' = Elsewhere(k)
  /\ UNCHANGED <<table, fallback, locals>>

(* v = NoValue is the NULL value of an index that creates its key. *)
Set(k, v) ==
  LET call == [kind |-> "set", key |-> k, value |-> v]
  IN  IF capacity = 0
      THEN /\ Allocate(FirstCapacity)
           /\ StartProbe(call, 1 + (Hash[k] % FirstCapacity))
      ELSE /\ StartProbe(call, Home(k))
           /\ UNCHANGED <<capacity, lastfree, buckets>>

(* On an unallocated table remove returns at once, which changes nothing. *)
Remove(k) ==
  /\ capacity # 0
  /\ StartProbe([kind |-> "remove", key |-> k], Home(k))
  /\ UNCHANGED <<capacity, lastfree, buckets>>

(* Remove with a NULL key takes a random entry.  With no entry it takes    *)
(* the key whose bytes are the zeroed first slot, which may be any key.    *)
RemoveRandom ==
  \E k \in IF count = 0 THEN Keys ELSE {entries[i].key : i \in 1..count} :
    Remove(k)

(* The program changes a fallback table between two calls. *)
ChangeFallback(k, v) ==
  /\ pc = "idle"
  /\ fallback' = [fallback EXCEPT ![k] = v]
  /\ UNCHANGED <<table, answer, locals>>

-----------------------------------------------------------------------------
(* The probe: sss_hashmap_get_raw, and the loop of sss_hashmap_remove. *)

Hit == Full(cur) /\ KeyAt(cur) = op.key
ChainEnds == ~Full(cur) \/ (~Hit /\ buckets[cur].next1 = 0)

ProbeNext ==
  /\ pc = "probe" /\ ~Hit /\ ~ChainEnds
  /\ prev' = cur
  /\ cur' = buckets[cur].next1
  /\ UNCHANGED <<table, fallback, answer, pc, op, scan, index>>

Found ==
  /\ pc = "probe" /\ Hit
  /\ op.kind = "get"
  /\ answer' = entries[buckets[cur].index1].value
  /\ Return
  /\ UNCHANGED <<table, fallback>>

NotFound ==
  /\ pc = "probe" /\ ChainEnds
  /\ op.kind = "get"
  /\ answer' = Elsewhere(op.key)
  /\ Return
  /\ UNCHANGED <<table, fallback>>

Update ==
  /\ pc = "probe" /\ Hit
  /\ op.kind = "set"
  /\ entries' = IF op.value = NoValue
                  THEN entries
                  ELSE [entries EXCEPT ![buckets[cur].index1].value = op.value]
  /\ Return
  /\ UNCHANGED <<capacity, lastfree, buckets, fallback, answer>>

NothingToRemove ==
  /\ pc = "probe" /\ ChainEnds
  /\ op.kind = "remove"
  /\ Return
  /\ UNCHANGED <<table, fallback, answer>>

-----------------------------------------------------------------------------
(* A new key: hashmap_resize when all slots are used, then the new entry.  *)

Room == count < capacity

Grow ==
  /\ pc = "probe" /\ ChainEnds
  /\ op.kind = "set" /\ ~Room
  /\ Allocate(2 * capacity)
  /\ IF count = 0 THEN Goto("append") /\ index' = 0
                  ELSE Goto("place") /\ index' = 1
  /\ cur' = 0 /\ prev' = 0
  /\ UNCHANGED <<entries, fallback, answer, op, scan>>

NoGrow ==
  /\ pc = "probe" /\ ChainEnds
  /\ op.kind = "set" /\ Room
  /\ Goto("append")
  /\ cur' = 0 /\ prev' = 0
  /\ UNCHANGED <<table, fallback, answer, op, scan, index>>

(* ++h->count and the copies of the key and of the value: the one given,   *)
(* else the fallback's, else the default, else the zeroed slot as it is.   *)
AppendEntry ==
  /\ pc = "append"
  /\ entries' = Append(entries,
                  [key |-> op.key,
                   value |-> Or(Or(op.value, Elsewhere(op.key)), Zero)])
  /\ index' = count + 1
  /\ Goto("place")
  /\ UNCHANGED <<capacity, lastfree, buckets, fallback, answer,
                 op, cur, prev, scan>>

-----------------------------------------------------------------------------
(* sss_hashmap_set_bucket for entry number `index'. *)

(* The caller goes on: with the next entry while hashmap_resize rehashes,  *)
(* then with the new entry; the new entry is the last one to be placed.    *)
Placed ==
  IF entries[index].key = op.key
  THEN Return
  ELSE /\ IF index < count THEN Goto("place") /\ index' = index + 1
                           ELSE Goto("append") /\ index' = 0
       /\ cur' = 0 /\ scan' = 0
       /\ UNCHANGED <<op, prev>>

PlaceAtHome ==
  LET home == Home(entries[index].key)
  IN  /\ pc = "place" /\ ~Full(home)
      /\ buckets' = [buckets EXCEPT ![home].index1 = index]
      /\ Placed
      /\ UNCHANGED <<capacity, lastfree, entries, fallback, answer>>

HomeTaken ==
  LET home == Home(entries[index].key)
  IN  /\ pc = "place" /\ Full(home)
      /\ cur' = home
      /\ Goto("free")
      /\ UNCHANGED <<table, fallback, answer, op, prev, scan, index>>

(* while (h->buckets[h->lastfree_index1-1].index1) --h->lastfree_index1; *)
SeekFree ==
  /\ pc = "free" /\ lastfree # 0
  /\ Full(lastfree)
  /\ lastfree' = lastfree - 1
  /\ UNCHANGED <<capacity, buckets, entries, fallback, answer, locals>>

(* What sits in the home bucket decides which of the two loops comes next. *)
FoundFree ==
  /\ pc = "free" /\ lastfree # 0
  /\ ~Full(lastfree)
  /\ IF Home(KeyAt(cur)) # cur
       THEN Goto("predecessor") /\ scan' = Home(KeyAt(cur))
       ELSE Goto("tail") /\ scan' = cur
  /\ UNCHANGED <<table, fallback, answer, op, cur, prev, index>>

(* A step of a loop that follows next1 without looking for the end of the  *)
(* chain.  After its end the code reads buckets[-1]; the model stops there *)
(* and WalksInBounds says that it never comes to this.                     *)
FollowBlindly ==
  /\ buckets[scan].next1 # 0
  /\ scan' = buckets[scan].next1
  /\ UNCHANGED <<table, fallback, answer, pc, op, cur, prev, index>>

SeekPredecessor ==
  /\ pc = "predecessor"
  /\ buckets[scan].next1 # cur
  /\ FollowBlindly

(* Bugs: the predecessor is not told; the moved entry also stays where it  *)
(* was.                                                                    *)
BugForgetPredecessor == [[buckets EXCEPT ![lastfree] = buckets[cur]]
                                  EXCEPT ![cur] = [index1 |-> index, next1 |-> 0]]
BugStayBehind == [[buckets EXCEPT ![scan].next1 = lastfree]
                           EXCEPT ![lastfree] = buckets[cur]]

(* The entry of another chain is moved to the free bucket, its             *)
(* predecessor is told, and the new entry starts a chain at its home.      *)
Moved == [[[buckets EXCEPT ![scan].next1 = lastfree]
                    EXCEPT ![lastfree] = buckets[cur]]
                    EXCEPT ![cur] = [index1 |-> index, next1 |-> 0]]

MoveMidChain ==
  /\ pc = "predecessor"
  /\ buckets[scan].next1 = cur
  /\ buckets' = Moved
  /\ lastfree' = lastfree - 1
  /\ Placed
  /\ UNCHANGED <<capacity, entries, fallback, answer>>

(* The assertion of line 145, before each step of the loop. *)
NotTheSameKey == KeyAt(scan) # entries[index].key

SeekTail ==
  /\ pc = "tail" /\ NotTheSameKey
  /\ buckets[scan].next1 # 0
  /\ scan' = buckets[scan].next1
  /\ UNCHANGED <<table, fallback, answer, pc, op, cur, prev, index>>

(* Bug: the new bucket links back to the head of its chain. *)
BugCycle == [[buckets EXCEPT ![scan].next1 = lastfree]
                      EXCEPT ![lastfree] = [index1 |-> index, next1 |-> cur]]

Extended == [[buckets EXCEPT ![scan].next1 = lastfree]
                      EXCEPT ![lastfree] = [index1 |-> index, next1 |-> 0]]

AppendToChain ==
  /\ pc = "tail" /\ NotTheSameKey
  /\ buckets[scan].next1 = 0
  /\ buckets' = Extended
  /\ lastfree' = lastfree - 1
  /\ Placed
  /\ UNCHANGED <<capacity, entries, fallback, answer>>

-----------------------------------------------------------------------------
(* sss_hashmap_remove once the key's bucket `cur' is found. *)

RemoveLast ==
  /\ pc = "probe" /\ Hit
  /\ op.kind = "remove" /\ buckets[cur].index1 = count
  /\ Goto("unlink") /\ scan' = cur
  /\ UNCHANGED <<table, fallback, answer, op, cur, prev, index>>

RemoveFromMiddle ==
  /\ pc = "probe" /\ Hit
  /\ op.kind = "remove" /\ buckets[cur].index1 # count
  /\ Goto("last") /\ scan' = Home(entries[count].key)
  /\ UNCHANGED <<table, fallback, answer, op, cur, prev, index>>

SeekLast ==
  /\ pc = "last"
  /\ buckets[scan].index1 # count
  /\ FollowBlindly

FoundLast ==
  /\ pc = "last"
  /\ buckets[scan].index1 = count
  /\ Goto("unlink")
  /\ UNCHANGED <<table, fallback, answer, op, cur, prev, scan, index>>

(* The buckets once the last entry, in bucket `scan', has taken over the   *)
(* number of the removed one, and then without the removed one's bucket.   *)
Renumbered == [buckets EXCEPT ![scan].index1 = buckets[cur].index1]

ToClear ==
  IF prev = 0 /\ buckets[cur].next1 # 0 THEN buckets[cur].next1 ELSE cur

Unlinked ==
  CASE prev # 0 ->
         [Renumbered EXCEPT ![prev].next1 = buckets[cur].next1]
    [] prev = 0 /\ buckets[cur].next1 # 0 ->
         [Renumbered EXCEPT ![cur] = Renumbered[buckets[cur].next1]]
    [] OTHER -> Renumbered

(* Bug: lastfree does not rise to the bucket that became free. *)
BugKeepLastFree == lastfree

Raised == IF ToClear > lastfree THEN ToClear ELSE lastfree

Unlink ==
  /\ pc = "unlink"
  /\ entries' = SubSeq([entries EXCEPT ![buckets[cur].index1] = entries[count]],
                       1, count - 1)
  /\ buckets' = [Unlinked EXCEPT ![ToClear] = Empty]
  /\ lastfree' = Raised
  /\ Return
  /\ UNCHANGED <<capacity, fallback, answer>>

-----------------------------------------------------------------------------
Call ==
  \/ \E k \in Keys : Get(k) \/ GetUnallocated(k) \/ Remove(k)
  \/ RemoveRandom
  \/ \E k \in Keys, v \in Maybe : Set(k, v)
  \/ \E k \in FallbackKeys, v \in Maybe : ChangeFallback(k, v)

Probe == ProbeNext \/ Found \/ NotFound \/ Update \/ NothingToRemove
Insert == Grow \/ NoGrow \/ AppendEntry
SetBucket ==
  \/ PlaceAtHome \/ HomeTaken
  \/ SeekFree \/ FoundFree
  \/ SeekPredecessor \/ MoveMidChain
  \/ SeekTail \/ AppendToChain
Delete == RemoveLast \/ RemoveFromMiddle \/ SeekLast \/ FoundLast \/ Unlink

Step == Probe \/ Insert \/ SetBucket \/ Delete
Next == Call \/ Step

Spec == Init /\ [][Next]_vars

(* The code is sequential: a call that has begun runs until it returns. *)
FairSpec == Spec /\ WF_vars(Step)

-----------------------------------------------------------------------------
Labels == {"idle", "probe", "append", "place", "free", "predecessor", "tail",
           "last", "unlink"}

Bucket == [index1 : 0..count, next1 : 0..capacity]
Entry == [key : Keys, value : Values]
Ops == [kind : {"none"}] \cup [kind : {"get", "remove"}, key : Keys]
         \cup [kind : {"set"}, key : Keys, value : Maybe]

(* The domains of the map's fields and of the running call's locals. *)
TypeOK ==
  /\ capacity \in Nat /\ lastfree \in 0..capacity
  /\ entries \in Seq(Entry) /\ count <= capacity
  /\ buckets \in [1..capacity -> Bucket]
  /\ fallback \in [Keys -> Maybe] /\ answer \in Maybe
  /\ pc \in Labels /\ op \in Ops
  /\ cur \in 0..capacity /\ prev \in 0..capacity /\ scan \in 0..capacity
  /\ index \in 0..count

(* The two loops that do not look for the end of a chain find what they    *)
(* look for: set_bucket line 134 the predecessor of the bucket it wants,   *)
(* remove line 300 the bucket of the last entry.                           *)
WalksInBounds ==
  /\ pc = "predecessor" /\ buckets[scan].next1 # cur => buckets[scan].next1 # 0
  /\ pc = "last" /\ buckets[scan].index1 # count => buckets[scan].next1 # 0

(* The assertion of set_bucket line 145: no key is entered twice. *)
NoDuplicate == pc = "tail" => NotTheSameKey

(* The buckets of a chain, from bucket b on. *)
Chain(b) ==
  LET reach[n \in 0..capacity] ==
        IF n = 0 THEN {b}
        ELSE reach[n - 1] \cup ({buckets[x].next1 : x \in reach[n - 1]} \ {0})
  IN  reach[capacity]

(* Brent's invariant of docs/tables.md: an entry sits in the chain that    *)
(* starts at its home, and, once a call has returned, every entry has      *)
(* exactly one bucket.                                                     *)
Brent ==
  /\ \A b \in 1..capacity : Full(b) => b \in Chain(Home(KeyAt(b)))
  /\ pc = "idle" =>
       \A i \in 1..count :
         Cardinality({b \in 1..capacity : buckets[b].index1 = i}) = 1

(* No walk leaves the buckets, no key is entered twice, and what was       *)
(* stored can be found: the three together, for each rests on the others.  *)
ChainsComplete == WalksInBounds /\ NoDuplicate /\ Brent

FreeBelow == \A b \in 1..capacity : b > lastfree => Full(b)

(* Lines 125-127: the search for a free bucket skips none, for none lies   *)
(* above lastfree_index1, and finds one before it runs below the first     *)
(* bucket, so that buckets[-1] is not read and the assertion on            *)
(* lastfree_index1 holds.                                                  *)
CursorSound == FreeBelow /\ (pc = "free" => lastfree # 0)

OneBucketEach ==
  \A a, b \in 1..capacity :
    Full(a) /\ buckets[a].index1 = buckets[b].index1 => a = b

Links ==
  \A a, b \in 1..capacity : buckets[a].next1 = b =>
    /\ Full(a) /\ Full(b)
    /\ Home(KeyAt(a)) = Home(KeyAt(b)) /\ Home(KeyAt(b)) # b
    /\ \A c \in 1..capacity : buckets[c].next1 = b => c = a

(* The chains are disjoint: different buckets hold different entries; a    *)
(* link leads from an entry to an entry of the same home, and a bucket has *)
(* at most one predecessor, and none when its entry is at home.            *)
ChainsSound == OneBucketEach /\ Links

(* Every call returns: no chain has a cycle for a loop to run around in. *)
CallsReturn == [](pc # "idle" => <>(pc = "idle"))

Contents ==
  [k \in Keys |->
     IF \E i \in 1..count : entries[i].key = k
     THEN entries[CHOOSE i \in 1..count : entries[i].key = k].value
     ELSE NoValue]

(* The running call, until it has looked up, stored or removed its key. *)
Pending ==
  IF op.kind = "set" /\ pc # "probe" /\ \E i \in 1..count : entries[i].key = op.key
  THEN NoOp ELSE op

(* The buckets, the chains and the growth are invisible: the map is a      *)
(* table, and a lookup answers with what was stored last under the key.    *)
Abstract == INSTANCE Table WITH table <- Contents, call <- Pending
ImplementsTable == Abstract!Spec
=============================================================================
