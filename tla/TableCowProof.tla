---------------------------- MODULE TableCowProof ----------------------------
(***************************************************************************)
(* Proofs about TableCow.tla, for any number of variables, heap cells,     *)
(* keys and values.                                                        *)
(*                                                                         *)
(* The first half is about who shares storage: the flags alone show that   *)
(* no statement writes where another cell reads.  The second half adds     *)
(* that slots and buckets stay inverse to each other, with which every     *)
(* statement is the operation on one table that its name says.             *)
(***************************************************************************)
EXTENDS TableCow, TLAPS

(* What the proofs need to know about the types. *)
Typed ==
  /\ cells \in [Cells -> [block : Blocks \cup {NoBlock}, count : Int, cow : BOOLEAN]]
  /\ refs \subseteq Vars

IInv == Typed /\ OwnedOrMarked

(* Every other cell than c shows what it showed. *)
OthersKept(c) == \A d \in Cells \ {c} : Seen(d)' = Seen(d)

(* A struct whose storage nobody else uses, and one that is marked. *)
Alone(c, h) == h.block = NoBlock \/ ~Used(h.block, c)

-----------------------------------------------------------------------------
(* Storing a struct keeps the invariant if the struct is marked or alone   *)
(* and does not point to storage that another unmarked cell may write to.  *)
LEMMA StoreKeepsOwners ==
  ASSUME IInv, NEW c \in Cells, NEW h, NEW blk,
         h \in [block : Blocks \cup {NoBlock}, count : Int, cow : BOOLEAN],
         Store(c, h, blk), UNCHANGED refs,
         c \in Writable /\ ~h.cow => Alone(c, h),
         \A d \in Writable \ {c} : ~cells[d].cow /\ cells[d].block # NoBlock
            => cells[d].block # h.block
  PROVE  IInv'
<1>1. \A d \in Cells : cells'[d] = IF d = c THEN h ELSE cells[d]
  BY DEF Store, IInv, Typed
<1>2. Typed'
  <2>1. cells' \in [Cells -> [block : Blocks \cup {NoBlock}, count : Int, cow : BOOLEAN]]
    BY DEF Store, IInv, Typed
  <2> QED BY <2>1 DEF IInv, Typed
<1>3. Writable' = Writable /\ Writable \subseteq Cells /\ Cells' = Cells
  BY DEF Writable, Cells, IInv, Typed
<1>4. OwnedOrMarked'
  <2> SUFFICES ASSUME NEW e \in Writable, ~cells'[e].cow, cells'[e].block # NoBlock,
                      NEW d \in Cells \ {e}, cells'[d].block = cells'[e].block
               PROVE  FALSE
    BY <1>3 DEF OwnedOrMarked, Used
  <2>1. CASE e = c
    BY <2>1, <1>1 DEF Alone, Used
  <2>2. CASE e # c
    <3>1. cells[e] = cells'[e]
      BY <2>2, <1>1, <1>3
    <3>2. CASE d = c
      BY <3>1, <3>2, <2>2, <1>1
    <3>3. CASE d # c
      BY <3>1, <3>3, <1>1, <1>3 DEF IInv, OwnedOrMarked, Used
    <3> QED BY <3>2, <3>3
  <2> QED BY <2>1, <2>2
<1> QED BY <1>2, <1>4 DEF IInv

(* Storing a block that nobody else uses, or that does not change, keeps   *)
(* what the other cells show.                                              *)
LEMMA StoreKeepsOthers ==
  ASSUME IInv, NEW c \in Cells, NEW h, NEW blk, Store(c, h, blk),
         Alone(c, h) \/ blk = store[h.block], NoBlock \notin Blocks
  PROVE  OthersKept(c)
<1> SUFFICES ASSUME NEW d \in Cells \ {c}
             PROVE  Seen(d)' = Seen(d)
  BY DEF OthersKept
<1>1. cells'[d] = cells[d]
  BY DEF Store, IInv, Typed
<1>2. CASE cells[d].block = NoBlock
  BY <1>1, <1>2 DEF Seen, Index, BlockOf
<1>3. CASE cells[d].block # NoBlock
  <2>1. cells[d].block \in Blocks /\ Used(cells[d].block, c)
    BY <1>3 DEF IInv, Typed, Used
  <2>2. store'[cells[d].block] = store[cells[d].block]
    BY <2>1, <1>3 DEF Store, Alone
  <2> QED BY <1>1, <2>2, <1>3 DEF Seen, Index, BlockOf
<1> QED BY <1>2, <1>3

(* A write that begins with a struct that is marked, alone or empty ends   *)
(* with storage of its own.                                                *)
Written(h, k, b) ==
  [block |-> b, cow |-> FALSE,
   count |-> IF Index(h, k) = 0 THEN h.count + 1 ELSE h.count]
WrittenBlock(h, k, v) ==
  [Target(h, k) EXCEPT !.slots[Slot(h, k)] = [key |-> k, value |-> v],
                       !.index1[k] = Slot(h, k)]

LEMMA SetStores ==
  ASSUME TableCowAssumption, NEW c, NEW h, NEW k, NEW v,
         h.cow \/ Alone(c, h), Set(c, h, k, v)
  PROVE  \E b \in Blocks : ~Used(b, c) /\ Store(c, Written(h, k, b), WrittenBlock(h, k, v))
<1>1. PICK b \in Blocks :
        /\ IF Grows(h, k) \/ Copies(h) THEN Unused # {} /\ b = CHOOSE f \in Unused : TRUE
                                       ELSE b = h.block
        /\ Store(c, [block |-> b, cow |-> FALSE,
                     count |-> IF Index(h, k) = 0 THEN h.count + 1 ELSE h.count],
                 [Target(h, k) EXCEPT !.slots[Slot(h, k)] = [key |-> k, value |-> v],
                                      !.index1[k] = Slot(h, k)])
  BY DEF Set
<1>2. ~Used(b, c)
  <2>1. CASE Grows(h, k) \/ Copies(h)
    <3>1. b \in Unused
      BY <2>1, <1>1
    <3> QED BY <3>1 DEF Unused, Used
  <2>2. CASE ~(Grows(h, k) \/ Copies(h))
    BY <2>2, <1>1 DEF Copies, Alone, TableCowAssumption
  <2> QED BY <2>1, <2>2
<1> QED BY <1>1, <1>2 DEF Written, WrittenBlock

LEMMA SetStep ==
  ASSUME TableCowAssumption, IInv, NEW c \in Cells, NEW h, NEW k \in Keys, NEW v \in Values,
         h \in [block : Blocks \cup {NoBlock}, count : Int, cow : BOOLEAN],
         h.cow \/ Alone(c, h), Set(c, h, k, v)
  PROVE  IInv' /\ OthersKept(c)
<1>1. PICK b \in Blocks : ~Used(b, c) /\ Store(c, Written(h, k, b), WrittenBlock(h, k, v))
  BY SetStores
<1> DEFINE new == Written(h, k, b)
           blk == WrittenBlock(h, k, v)
<1>3. new.block = b /\ Alone(c, new)
  BY <1>1 DEF Alone, Written
<1>4. \A d \in Writable \ {c} : cells[d].block # new.block
  BY <1>1, <1>3 DEF Used, Writable, Cells, IInv, Typed
<1>5. new \in [block : Blocks \cup {NoBlock}, count : Int, cow : BOOLEAN]
  BY DEF Written
<1>6. UNCHANGED refs /\ Store(c, new, blk)
  BY <1>1 DEF Set
<1> HIDE DEF new, blk
<1>7. IInv'
  BY <1>3, <1>4, <1>5, <1>6, StoreKeepsOwners
<1>8. OthersKept(c)
  BY <1>3, <1>6, StoreKeepsOthers DEF TableCowAssumption
<1> QED BY <1>7, <1>8

(* Copying the struct of a variable into another cell. *)
LEMMA CopyStep ==
  ASSUME TableCowAssumption, IInv, NEW c \in Cells, NEW h, NEW d \in Cells,
         h \in [block : Blocks \cup {NoBlock}, count : Int, cow : BOOLEAN],
         h.block = cells[d].block, UNCHANGED refs,
         h.cow \/ c \notin Writable, cells[d].cow \/ d \notin Writable,
         Store(c, h, BlockOf(h))
  PROVE  IInv' /\ OthersKept(c)
<1>1. \A e \in Writable \ {c} : ~cells[e].cow /\ cells[e].block # NoBlock
         => cells[e].block # h.block
  <2> SUFFICES ASSUME NEW e \in Writable, ~cells[e].cow, cells[e].block # NoBlock,
                      cells[e].block = cells[d].block
               PROVE  FALSE
    OBVIOUS
  <2>1. e # d
    OBVIOUS
  <2> QED BY <2>1 DEF IInv, OwnedOrMarked, Used
<1>2. IInv'
  BY <1>1, StoreKeepsOwners
<1>3. h.block = NoBlock \/ BlockOf(h) = store[h.block]
  BY DEF BlockOf
<1>4. OthersKept(c)
  BY <1>3, StoreKeepsOthers DEF Alone, TableCowAssumption
<1> QED BY <1>2, <1>4
(* A removal from a table that is not marked. *)
LEMMA RemoveStep ==
  ASSUME TableCowAssumption, IInv, NEW c \in Writable, NEW k \in Keys,
         ~cells[c].cow, Remove(c, k)
  PROVE  IInv' /\ OthersKept(c)
<1> DEFINE h == cells[c]
<1>1. c \in Cells /\ Alone(c, h)
  BY DEF Writable, Cells, IInv, Typed, OwnedOrMarked, Alone
<1>2. h \in [block : Blocks \cup {NoBlock}, count : Int, cow : BOOLEAN]
  BY <1>1 DEF IInv, Typed
<1>3. PICK new, blk :
        /\ new \in [block : Blocks \cup {NoBlock}, count : Int, cow : BOOLEAN]
        /\ new.block = h.block /\ new.cow = FALSE
        /\ Store(c, new, blk)
  <2>1. CASE Index(h, k) = 0
    <3> DEFINE new == [h EXCEPT !.cow = FALSE]
    <3>1. Store(c, new, BlockOf(h))
      BY <2>1 DEF Remove, Delete
    <3>2. /\ new \in [block : Blocks \cup {NoBlock}, count : Int, cow : BOOLEAN]
          /\ new.block = h.block /\ new.cow = FALSE
      BY <1>2
    <3> QED BY <3>1, <3>2
  <2>2. CASE Index(h, k) # 0
    <3> DEFINE new == [block |-> h.block, count |-> h.count - 1, cow |-> FALSE]
               blk == [FillGap(BlockOf(h), Index(h, k), h.count)
                         EXCEPT !.slots[h.count] = Zeroed, !.index1[k] = 0]
    <3>1. Store(c, new, blk)
      BY <2>2 DEF Remove, Delete
    <3>2. /\ new \in [block : Blocks \cup {NoBlock}, count : Int, cow : BOOLEAN]
          /\ new.block = h.block /\ new.cow = FALSE
      BY <1>2
    <3> QED BY <3>1, <3>2
  <2> QED BY <2>1, <2>2
<1>4. Alone(c, new)
  BY <1>1, <1>3 DEF Alone
<1>5. \A d \in Writable \ {c} : cells[d].block # NoBlock => cells[d].block # new.block
  BY <1>4, <1>3 DEF Alone, Used, Writable, Cells, IInv, Typed
<1>6. UNCHANGED refs
  BY DEF Remove, Delete
<1>7. IInv'
  BY <1>1, <1>3, <1>4, <1>5, <1>6, StoreKeepsOwners
<1>8. OthersKept(c)
  BY <1>1, <1>3, <1>4, StoreKeepsOthers DEF TableCowAssumption
<1> QED BY <1>7, <1>8

(* Marking a table, and copying it or not, changes what no cell shows but  *)
(* the one that receives the copy.                                         *)
LEMMA FetchStep ==
  ASSUME TableCowAssumption, IInv, NEW c \in Cells, NEW p \in Writable, Fetch(c, p)
  PROVE  IInv' /\ OthersKept(c)
<1>1. p \in Cells
  BY DEF Writable, Cells, IInv, Typed
<1>2. Marked(cells[p]) \in [block : Blocks \cup {NoBlock}, count : Int, cow : BOOLEAN]
  BY <1>1 DEF Marked, IInv, Typed
<1>3. \A d \in Cells :
        cells'[d] = IF d = c \/ d = p THEN Marked(IF d = c THEN cells[p] ELSE cells[d])
                                     ELSE cells[d]
  BY <1>1, <1>2 DEF Fetch, Marked, IInv, Typed
<1>4. Typed'
  <2>1. cells' \in [Cells -> [block : Blocks \cup {NoBlock}, count : Int, cow : BOOLEAN]]
    BY <1>1, <1>2 DEF Fetch, Marked, IInv, Typed
  <2> QED BY <2>1 DEF Fetch, IInv, Typed
<1>5. Writable' = Writable /\ Writable \subseteq Cells
  BY DEF Fetch, Writable, Cells, IInv, Typed
<1>6. \A d \in Cells : (d = c \/ d = p) => cells'[d].cow
  BY <1>1, <1>3 DEF Marked, IInv, Typed
<1>7. \A d \in Cells : cells'[d].block = IF d = c THEN cells[p].block ELSE cells[d].block
  BY <1>1, <1>3 DEF Marked, IInv, Typed
<1>8. OwnedOrMarked'
  <2> SUFFICES ASSUME NEW e \in Writable, ~cells'[e].cow, cells'[e].block # NoBlock,
                      NEW d \in Cells \ {e}, cells'[d].block = cells'[e].block
               PROVE  FALSE
    BY <1>5 DEF OwnedOrMarked, Used, Cells
  <2>1. e \in Cells /\ e # c /\ e # p /\ cells'[e] = cells[e]
    BY <1>3, <1>5, <1>6
  <2>2. \E f \in Cells \ {e} : cells[f].block = cells[e].block
    BY <1>1, <1>7, <2>1
  <2> QED BY <2>1, <2>2 DEF IInv, OwnedOrMarked, Used
<1>9. OthersKept(c)
  <2> SUFFICES ASSUME NEW d \in Cells \ {c}
               PROVE  Seen(d)' = Seen(d)
    BY DEF OthersKept
  <2>1. cells'[d].block = cells[d].block
    BY <1>7
  <2>2. CASE cells[d].block = NoBlock
    BY <2>1, <2>2 DEF Seen, Index, BlockOf
  <2>3. CASE cells[d].block # NoBlock
    <3>1. cells[d].block \in Blocks /\ Used(cells[d].block, c)
      BY <2>3 DEF IInv, Typed, Used
    <3>2. store'[cells[d].block] = store[cells[d].block]
      BY <3>1 DEF Fetch
    <3> QED BY <2>1, <3>2, <2>3 DEF Seen, Index, BlockOf
  <2> QED BY <2>2, <2>3
<1> QED BY <1>4, <1>8, <1>9 DEF IInv

(* Taking a reference: the variable becomes writable, and is marked. *)
LEMMA ReferStep ==
  ASSUME IInv, NEW x \in Vars, Refer(x)
  PROVE  IInv' /\ OthersKept(x)
<1>1. x \in Cells /\ refs' = refs \cup {x} /\ store' = store
  BY DEF Cells, Refer
<1>2. \A d \in Cells : /\ cells'[d].block = cells[d].block
                       /\ cells'[d].cow = (d = x \/ cells[d].cow)
  BY <1>1 DEF Refer, Marked, IInv, Typed
<1>3. Typed'
  <2>1. cells' \in [Cells -> [block : Blocks \cup {NoBlock}, count : Int, cow : BOOLEAN]]
    BY <1>1 DEF Refer, Marked, IInv, Typed
  <2> QED BY <1>1, <2>1 DEF IInv, Typed
<1>4. OwnedOrMarked'
  <2> SUFFICES ASSUME NEW e \in Writable', ~cells'[e].cow, cells'[e].block # NoBlock,
                      NEW d \in Cells \ {e}, cells'[d].block = cells'[e].block
               PROVE  FALSE
    BY DEF OwnedOrMarked, Used, Cells
  <2>1. e \in Writable /\ e \in Cells
    BY <1>1, <1>2 DEF Writable, Cells, IInv, Typed
  <2> QED BY <1>2, <2>1 DEF IInv, OwnedOrMarked, Used
<1>5. OthersKept(x)
  BY <1>1, <1>2 DEF OthersKept, Seen, Index, BlockOf
<1> QED BY <1>3, <1>4, <1>5 DEF IInv

-----------------------------------------------------------------------------
(* What each statement writes starts from a struct that is marked, alone   *)
(* or empty, so that every step changes the table of one cell at most.     *)
LEMMA NextStep ==
  ASSUME TableCowAssumption, IInv, Next
  PROVE  IInv' /\ \E c \in Cells : OthersKept(c)
<1> DEFINE S == [block : Blocks \cup {NoBlock}, count : Int, cow : BOOLEAN]
<1>1. Writable \subseteq Cells /\ Vars \subseteq Cells /\ Heap \subseteq Cells
  BY DEF Writable, Cells, IInv, Typed
<1>2. \A c \in Cells : cells[c] \in S /\ Marked(cells[c]) \in S
  BY DEF IInv, Typed, Marked
<1>3. ASSUME NEW c \in Writable, NEW k \in Keys, NEW v \in Values, Put(c, k, v)
      PROVE  IInv' /\ OthersKept(c)
  <2>1. cells[c].cow \/ Alone(c, cells[c])
    BY DEF IInv, OwnedOrMarked, Alone
  <2> QED BY <1>1, <1>2, <1>3, <2>1, SetStep DEF Put
<1>4. ASSUME NEW c \in Writable, NEW k \in Keys, NEW v \in Values, Modify(c, k, v)
      PROVE  IInv' /\ OthersKept(c)
  <2>1. Marked(cells[c]).cow
    BY <1>1, <1>2 DEF Marked
  <2> QED BY <1>1, <1>2, <1>4, <2>1, SetStep DEF Modify
<1>5. ASSUME NEW c \in Cells, NEW k \in Keys, NEW v \in Values, New(c, k, v)
      PROVE  IInv' /\ OthersKept(c)
  <2>1. EmptyTable(c) \in S /\ Alone(c, EmptyTable(c))
    BY DEF EmptyTable, Alone
  <2> QED BY <1>5, <2>1, SetStep DEF New
<1>6. ASSUME NEW x \in Vars, NEW p \in Heap, Box(p, x), cells[x].cow \/ x \notin refs
      PROVE  IInv' /\ OthersKept(p)
  <2>1. x \notin refs => x \notin Writable
    BY DEF Writable, TableCowAssumption
  <2>2. /\ Marked(cells[x]).block = cells[x].block /\ Marked(cells[x]).cow
        /\ BlockOf(Marked(cells[x])) = BlockOf(cells[x])
    BY <1>1, <1>2 DEF Marked, BlockOf
  <2> QED BY <1>1, <1>2, <1>6, <2>1, <2>2, CopyStep DEF Box
<1>7. ASSUME NEW x \in Vars, NEW c \in Cells, Assign(c, x), cells[x].cow \/ x \notin refs,
             cells[x].cow \/ c \notin Writable
      PROVE  IInv' /\ OthersKept(c)
  <2>1. x \notin refs => x \notin Writable
    BY DEF Writable, TableCowAssumption
  <2> QED BY <1>1, <1>2, <1>7, <2>1, CopyStep DEF Assign
<1> QED
  BY <1>1, <1>3, <1>4, <1>5, <1>6, <1>7, FetchStep, ReferStep, RemoveStep
  DEF Next, Writes, Copying

LEMMA InitInv == TableCowAssumption /\ Init => IInv
<1> SUFFICES ASSUME TableCowAssumption, Init
             PROVE  IInv
  OBVIOUS
<1>1. \A c \in Cells :
        /\ cells[c] \in [block : Blocks \cup {NoBlock}, count : Int, cow : BOOLEAN]
        /\ cells[c].block = NoBlock
  BY DEF Init, EmptyTable
<1>2. Writable \subseteq Cells
  BY DEF Init, Writable, Cells
<1>3. Typed
  BY <1>1 DEF Init, Typed
<1> QED BY <1>1, <1>2, <1>3 DEF IInv, OwnedOrMarked

LEMMA Invariance == Spec => []IInv
<1>1. Init => IInv
  BY InitInv, TableCowAssumption
<1>2. IInv /\ [Next]_vars => IInv'
  <2>1. IInv /\ UNCHANGED vars => IInv'
    BY DEF vars, IInv, Typed, OwnedOrMarked, Writable, Used
  <2> QED BY <2>1, NextStep, TableCowAssumption
<1> QED BY <1>1, <1>2, PTL DEF Spec

(* Storage that a table may write to without copying it first belongs to   *)
(* this table alone (the copy_on_write flag of libsss/hashmap.h).          *)
THEOREM WritersOwn == Spec => []OwnedOrMarked
<1>1. IInv => OwnedOrMarked
  BY DEF IInv
<1> QED BY <1>1, Invariance, PTL

(* The value semantics of docs/mutability.md for tables: no statement of   *)
(* these programs changes the table of two variables or heap cells.        *)
THEOREM ValueSemantics == Spec => OneAtATime
<1>1. IInv /\ [Next]_vars =>
        [\E c \in Cells : \A d \in Cells \ {c} : Seen(d)' = Seen(d)]_vars
  BY NextStep, TableCowAssumption DEF OthersKept
<1> QED BY <1>1, Invariance, PTL DEF Spec, OneAtATime

-----------------------------------------------------------------------------
(* What the slots and the buckets hold.                                    *)

(* What a block of entries and buckets shows to lookups. *)
Shown(blk) ==
  [k \in Keys |-> IF blk.index1[k] = 0 THEN NoValue ELSE blk.slots[blk.index1[k]].value]

(* Slots and buckets are inverse to each other: the buckets number exactly *)
(* the first n slots, and each of these holds the key that has its number. *)
Sound(n, blk) ==
  /\ blk \in BlockType /\ n \in Nat /\ n <= Len(blk.slots)
  /\ \A k \in Keys : /\ blk.index1[k] \in 0..n
                     /\ blk.index1[k] # 0 => blk.slots[blk.index1[k]].key = k
  /\ \A i \in 1..n : /\ blk.slots[i].key \in Keys
                     /\ blk.index1[blk.slots[i].key] = i

AllSound ==
  /\ store \in [Blocks -> BlockType]
  /\ \A c \in Cells : Sound(cells[c].count, BlockOf(cells[c]))

SlotInv == IInv /\ AllSound

LEMMA FreeSound == Free \in BlockType /\ Sound(0, Free)
<1>1. <<>> \in Seq(SlotType) /\ Len(<<>>) = 0
  OBVIOUS
<1>2. Free \in BlockType /\ Free.slots = <<>> /\ \A k \in Keys : Free.index1[k] = 0
  BY <1>1 DEF Free, BlockType
<1>3. 1..0 = {} /\ 0 \in 0..0
  OBVIOUS
<1> QED BY <1>1, <1>2, <1>3 DEF Sound

(* No two keys have the same number. *)
LEMMA NumbersDiffer ==
  ASSUME NEW n, NEW blk, Sound(n, blk), NEW j \in Keys, NEW k \in Keys,
         blk.index1[j] # 0, blk.index1[j] = blk.index1[k]
  PROVE  j = k
BY DEF Sound

(* The block with the entry (k, v) in a slot. *)
Filled(blk, slot, k, v) ==
  [blk EXCEPT !.slots[slot] = [key |-> k, value |-> v], !.index1[k] = slot]

(* Writing the entry (k, v) into a block t that holds the same n entries as *)
(* old, at the slot of k or behind all the others.                          *)
LEMMA WriteSound ==
  ASSUME NEW old, NEW n, Sound(n, old), NEW k \in Keys, NEW v \in Values,
         NEW t \in BlockType, t.index1 = old.index1, n <= Len(t.slots),
         \A i \in 1..n : t.slots[i] = old.slots[i],
         NEW slot, slot = (IF old.index1[k] = 0 THEN n + 1 ELSE old.index1[k]),
         slot <= Len(t.slots), NEW blk, blk = Filled(t, slot, k, v)
  PROVE  /\ blk \in BlockType
         /\ Sound(IF old.index1[k] = 0 THEN n + 1 ELSE n, blk)
         /\ Shown(blk) = [Shown(old) EXCEPT ![k] = v]
<1> DEFINE m == IF old.index1[k] = 0 THEN n + 1 ELSE n
           e == [key |-> k, value |-> v]
<1>1. /\ n \in Nat /\ old.index1 \in [Keys -> Nat] /\ old.index1[k] \in 0..n
      /\ t.slots \in Seq(SlotType) /\ t.capacity \in Nat /\ Len(t.slots) \in Nat
      /\ t.index1 \in [Keys -> Nat]
  BY DEF Sound, BlockType
<1>2. slot \in 1..m /\ slot \in Nat /\ m \in Nat /\ m <= Len(t.slots) /\ n <= m
  BY <1>1
<1>3. e \in SlotType /\ e.key = k /\ e.value = v
  BY DEF SlotType
<1>4. /\ blk.slots = [t.slots EXCEPT ![slot] = e]
      /\ blk.index1 = [t.index1 EXCEPT ![k] = slot]
      /\ blk.capacity = t.capacity
      /\ blk = [slots |-> blk.slots, index1 |-> blk.index1, capacity |-> blk.capacity]
  BY DEF BlockType, Filled
<1>5. /\ blk.slots \in Seq(SlotType) /\ Len(blk.slots) = Len(t.slots)
      /\ blk.slots[slot] = e
      /\ \A i \in 1..Len(t.slots) : i # slot => blk.slots[i] = t.slots[i]
  <2>1. slot \in 1..Len(t.slots) /\ t.slots \in Seq(SlotType) /\ e \in SlotType
    BY <1>1, <1>2, <1>3
  <2>2. blk.slots = [t.slots EXCEPT ![slot] = e]
    BY <1>4
  <2> HIDE DEF e
  <2> QED BY <2>1, <2>2
<1>6. /\ blk.index1 \in [Keys -> Nat] /\ blk.index1[k] = slot
      /\ \A j \in Keys : j # k => blk.index1[j] = old.index1[j]
  BY <1>1, <1>2, <1>4
<1>7. blk \in BlockType
  BY <1>1, <1>4, <1>5, <1>6 DEF BlockType
<1> HIDE DEF e, m
<1>8. ASSUME NEW j \in Keys, j # k, old.index1[j] # 0
      PROVE  /\ old.index1[j] \in 1..n /\ old.index1[j] # slot
             /\ blk.slots[old.index1[j]] = old.slots[old.index1[j]]
  <2>1. old.index1[j] \in 1..n
    BY <1>1, <1>8 DEF Sound
  <2>2. old.index1[j] # slot
    BY <1>1, <1>8, <2>1, NumbersDiffer
  <2>3. old.index1[j] \in 1..Len(t.slots)
    BY <1>1, <2>1
  <2>4. blk.slots[old.index1[j]] = t.slots[old.index1[j]]
    BY <1>5, <2>2, <2>3
  <2> QED BY <2>1, <2>2, <2>4
<1>9. Sound(m, blk)
  <2>1. ASSUME NEW j \in Keys
        PROVE  blk.index1[j] \in 0..m /\ (blk.index1[j] # 0 => blk.slots[blk.index1[j]].key = j)
    <3>1. CASE j = k
      <4>1. blk.index1[j] = slot /\ blk.slots[slot].key = k
        BY <3>1, <1>3, <1>5, <1>6
      <4> QED BY <3>1, <4>1, <1>2
    <3>2. CASE j # k /\ old.index1[j] = 0
      BY <3>2, <1>2, <1>6
    <3>3. CASE j # k /\ old.index1[j] # 0
      <4>1. /\ blk.index1[j] = old.index1[j] /\ old.index1[j] \in 1..n
            /\ blk.slots[old.index1[j]] = old.slots[old.index1[j]]
        BY <3>3, <1>6, <1>8
      <4>2. old.slots[old.index1[j]].key = j
        BY <3>3 DEF Sound
      <4>3. old.index1[j] \in 0..m
        BY <4>1, <1>1, <1>2
      <4> QED BY <4>1, <4>2, <4>3
    <3> QED BY <3>1, <3>2, <3>3
  <2>2. ASSUME NEW i \in 1..m
        PROVE  blk.slots[i].key \in Keys /\ blk.index1[blk.slots[i].key] = i
    <3>1. CASE i = slot
      BY <3>1, <1>3, <1>5, <1>6
    <3>2. CASE i # slot
      <4>1. i \in 1..n
        BY <3>2, <1>1, <1>2 DEF m
      <4>2. blk.slots[i] = old.slots[i]
        BY <4>1, <3>2, <1>1, <1>2, <1>5
      <4>3. old.slots[i].key \in Keys /\ old.index1[old.slots[i].key] = i
        BY <4>1 DEF Sound
      <4>4. old.slots[i].key # k
        BY <4>1, <4>3, <3>2
      <4> QED BY <4>2, <4>3, <4>4, <1>6
    <3> QED BY <3>1, <3>2
  <2> QED BY <2>1, <2>2, <1>2, <1>5, <1>7 DEF Sound
<1>10. ASSUME NEW j \in Keys
       PROVE  Shown(blk)[j] = IF j = k THEN v ELSE Shown(old)[j]
  <2>1. CASE j = k
    <3>1. blk.index1[j] = slot /\ slot # 0 /\ blk.slots[slot].value = v
      BY <2>1, <1>2, <1>3, <1>5, <1>6
    <3> QED BY <2>1, <3>1 DEF Shown
  <2>2. CASE j # k /\ old.index1[j] = 0
    BY <2>2, <1>6 DEF Shown
  <2>3. CASE j # k /\ old.index1[j] # 0
    <3>1. /\ blk.index1[j] = old.index1[j]
          /\ blk.slots[old.index1[j]] = old.slots[old.index1[j]]
      BY <2>3, <1>6, <1>8
    <3> QED BY <2>3, <3>1 DEF Shown
  <2> QED BY <2>1, <2>2, <2>3
<1>11. Shown(blk) = [Shown(old) EXCEPT ![k] = v]
  BY <1>10 DEF Shown
<1> QED BY <1>7, <1>9, <1>11 DEF m

(* The block after the entry of k, one of n, was removed. *)
Removed(blk, n, k) ==
  [FillGap(blk, blk.index1[k], n) EXCEPT !.slots[n] = Zeroed, !.index1[k] = 0]

LEMMA RemoveSound ==
  ASSUME NEW old, NEW n, Sound(n, old), NEW k \in Keys, old.index1[k] # 0, NEW blk,
         blk = Removed(old, n, k)
  PROVE  /\ blk \in BlockType
         /\ Sound(n - 1, blk)
         /\ Shown(blk) = [Shown(old) EXCEPT ![k] = NoValue]
<1> DEFINE gap == old.index1[k]
           moved == old.slots[n].key
<1>1. /\ n \in Nat /\ old.index1 \in [Keys -> Nat] /\ gap \in 1..n
      /\ old.slots \in Seq(SlotType) /\ old.capacity \in Nat /\ Len(old.slots) \in Nat
      /\ n <= Len(old.slots) /\ n \in 1..Len(old.slots) /\ n - 1 \in Nat
      /\ old = [slots |-> old.slots, index1 |-> old.index1, capacity |-> old.capacity]
  BY DEF Sound, BlockType
<1>2. moved \in Keys /\ old.index1[moved] = n /\ (gap = n <=> moved = k)
  BY <1>1, NumbersDiffer DEF Sound
<1>3. Zeroed \in SlotType /\ old.slots[n] \in SlotType
  BY <1>1 DEF SlotType
<1>4. /\ blk.slots = [[old.slots EXCEPT ![gap] = old.slots[n]] EXCEPT ![n] = Zeroed]
      /\ blk.index1 = [[old.index1 EXCEPT ![moved] = gap] EXCEPT ![k] = 0]
      /\ blk.capacity = old.capacity
      /\ blk = [slots |-> blk.slots, index1 |-> blk.index1, capacity |-> blk.capacity]
  <2>1. CASE gap = n
    <3>1. FillGap(old, gap, n) = old
      BY <2>1 DEF FillGap
    <3>2. /\ blk.slots = [old.slots EXCEPT ![n] = Zeroed]
          /\ blk.index1 = [old.index1 EXCEPT ![k] = 0]
          /\ blk.capacity = old.capacity
          /\ blk = [slots |-> blk.slots, index1 |-> blk.index1, capacity |-> blk.capacity]
      <4>1. blk = [old EXCEPT !.slots[n] = Zeroed, !.index1[k] = 0]
        BY <3>1 DEF Removed
      <4> QED BY <1>1, <4>1
    <3>3. [old.slots EXCEPT ![gap] = old.slots[n]] = old.slots
      BY <1>1, <2>1
    <3>4. [old.index1 EXCEPT ![moved] = gap] = old.index1
      BY <1>1, <1>2, <2>1
    <3> QED BY <3>2, <3>3, <3>4
  <2>2. CASE gap # n
    <3> DEFINE f == FillGap(old, gap, n)
    <3>1. f = [old EXCEPT !.slots[gap] = old.slots[n], !.index1[moved] = gap]
      BY <2>2 DEF FillGap
    <3>2. /\ f.slots = [old.slots EXCEPT ![gap] = old.slots[n]]
          /\ f.index1 = [old.index1 EXCEPT ![moved] = gap]
          /\ f.capacity = old.capacity
          /\ f = [slots |-> f.slots, index1 |-> f.index1, capacity |-> f.capacity]
      BY <1>1, <3>1
    <3> HIDE DEF f
    <3>3. blk = [f EXCEPT !.slots[n] = Zeroed, !.index1[k] = 0]
      BY DEF f, Removed
    <3>4. /\ blk.slots = [f.slots EXCEPT ![n] = Zeroed]
          /\ blk.index1 = [f.index1 EXCEPT ![k] = 0]
          /\ blk.capacity = f.capacity
          /\ blk = [slots |-> blk.slots, index1 |-> blk.index1, capacity |-> blk.capacity]
      BY <3>2, <3>3
    <3> QED BY <3>2, <3>4
  <2> QED BY <2>1, <2>2
<1>5. /\ blk.slots \in Seq(SlotType) /\ Len(blk.slots) = Len(old.slots)
      /\ \A i \in 1..n - 1 : blk.slots[i] = old.slots[IF i = gap THEN n ELSE i]
  <2> DEFINE q == [old.slots EXCEPT ![gap] = old.slots[n]]
  <2>1. /\ q \in Seq(SlotType) /\ Len(q) = Len(old.slots)
        /\ \A i \in 1..Len(old.slots) : q[i] = old.slots[IF i = gap THEN n ELSE i]
    BY <1>1, <1>3
  <2> HIDE DEF q
  <2>2. blk.slots = [q EXCEPT ![n] = Zeroed]
    BY <1>4 DEF q
  <2> QED BY SMTT(30), <1>1, <1>3, <2>1, <2>2
<1>6. /\ blk.index1 \in [Keys -> Nat] /\ blk.index1[k] = 0
      /\ \A j \in Keys : j # k => blk.index1[j] = IF j = moved THEN gap ELSE old.index1[j]
  <2> DEFINE q == [old.index1 EXCEPT ![moved] = gap]
  <2>1. /\ q \in [Keys -> Nat]
        /\ \A j \in Keys : q[j] = IF j = moved THEN gap ELSE old.index1[j]
    BY <1>1, <1>2
  <2> HIDE DEF q
  <2>2. blk.index1 = [q EXCEPT ![k] = 0]
    BY <1>4 DEF q
  <2> QED BY <2>1, <2>2
<1>7. blk \in BlockType
  BY <1>1, <1>4, <1>5, <1>6 DEF BlockType
(* Where the other keys are now. *)
<1>8. ASSUME NEW j \in Keys, j # k, old.index1[j] # 0
      PROVE  /\ blk.index1[j] \in 1..n - 1
             /\ blk.slots[blk.index1[j]] = old.slots[old.index1[j]]
  <2>1. old.index1[j] \in 1..n /\ old.index1[j] # gap
    BY <1>1, <1>8, NumbersDiffer DEF Sound
  <2>2. CASE j = moved
    <3>1. gap # n /\ gap \in 1..n - 1
      BY <1>1, <1>2, <1>8, <2>2
    <3> QED BY <1>2, <1>5, <1>6, <1>8, <2>2, <3>1
  <2>3. CASE j # moved
    <3>1. old.index1[j] # n
      BY <1>1, <1>2, <1>8, <2>3, NumbersDiffer
    <3>2. old.index1[j] \in 1..n - 1
      BY <1>1, <2>1, <3>1
    <3> QED BY <1>5, <1>6, <1>8, <2>1, <2>3, <3>2
  <2> QED BY <2>2, <2>3
<1>9. ASSUME NEW j \in Keys, j # k, old.index1[j] = 0
      PROVE  blk.index1[j] = 0
  BY <1>1, <1>2, <1>6, <1>9
<1>10. Sound(n - 1, blk)
  <2>1. ASSUME NEW j \in Keys
        PROVE  /\ blk.index1[j] \in 0..n - 1
               /\ blk.index1[j] # 0 => blk.slots[blk.index1[j]].key = j
    <3>1. CASE j = k
      BY <3>1, <1>1, <1>6
    <3>2. CASE j # k /\ old.index1[j] = 0
      BY <3>2, <1>1, <1>9
    <3>3. CASE j # k /\ old.index1[j] # 0
      BY <3>3, <1>1, <1>8 DEF Sound
    <3> QED BY <3>1, <3>2, <3>3
  <2>2. ASSUME NEW i \in 1..n - 1
        PROVE  blk.slots[i].key \in Keys /\ blk.index1[blk.slots[i].key] = i
    <3>1. CASE i = gap
      <4>1. blk.slots[i] = old.slots[n] /\ moved # k
        BY <1>1, <1>2, <1>5, <3>1
      <4> QED BY <1>2, <1>6, <3>1, <4>1
    <3>2. CASE i # gap
      <4>1. i \in 1..n /\ blk.slots[i] = old.slots[i] /\ i # n
        BY <1>1, <1>5, <3>2
      <4>2. old.slots[i].key \in Keys /\ old.index1[old.slots[i].key] = i
        BY <4>1 DEF Sound
      <4>3. old.slots[i].key # k /\ old.slots[i].key # moved
        BY <1>2, <3>2, <4>1, <4>2
      <4> QED BY <1>6, <4>1, <4>2, <4>3
    <3> QED BY <3>1, <3>2
  <2>3. n - 1 <= Len(blk.slots)
    BY <1>1, <1>5
  <2> QED BY <2>1, <2>2, <2>3, <1>1, <1>7 DEF Sound
<1>11. ASSUME NEW j \in Keys
       PROVE  Shown(blk)[j] = IF j = k THEN NoValue ELSE Shown(old)[j]
  <2>1. CASE j = k
    BY <2>1, <1>6 DEF Shown
  <2>2. CASE j # k /\ old.index1[j] = 0
    BY <2>2, <1>9 DEF Shown
  <2>3. CASE j # k /\ old.index1[j] # 0
    <3>1. blk.index1[j] # 0
      BY <1>1, <1>8, <2>3
    <3> QED BY <2>3, <3>1, <1>8 DEF Shown
  <2> QED BY <2>1, <2>2, <2>3
<1>12. Shown(blk) = [Shown(old) EXCEPT ![k] = NoValue]
  BY <1>11 DEF Shown
<1> QED BY <1>7, <1>10, <1>12

(* The storage a write goes to holds the entries that the old one held. *)
LEMMA TargetHolds ==
  ASSUME TableCowAssumption, NEW h, NEW k \in Keys,
         Sound(h.count, BlockOf(h)), Fits(h, k)
  PROVE  LET t == Target(h, k)
         IN  /\ t \in BlockType /\ t.index1 = BlockOf(h).index1 /\ h.count <= Len(t.slots)
             /\ \A i \in 1..h.count : t.slots[i] = BlockOf(h).slots[i]
<1> DEFINE old == BlockOf(h)
           n == IF old.capacity = 0 THEN FirstCapacity ELSE 2 * old.capacity
<1>1. /\ old \in BlockType /\ h.count \in Nat /\ h.count <= Len(old.slots)
      /\ old.slots \in Seq(SlotType) /\ Len(old.slots) \in Nat /\ old.capacity \in Nat
  BY DEF Sound, BlockType
<1>2. Index(h, k) = old.index1[k] /\ old.index1[k] \in 0..h.count
  BY DEF Index, Sound
<1>3. \A m \in Nat : /\ Padded(old.slots, m) \in Seq(SlotType)
                     /\ Len(Padded(old.slots, m)) = m
                     /\ \A i \in 1..m : i <= Len(old.slots) => Padded(old.slots, m)[i] = old.slots[i]
  BY <1>1 DEF Padded, SlotType
<1>4. CASE Grows(h, k)
  <2>1. Target(h, k) = [old EXCEPT !.slots = Padded(old.slots, n), !.capacity = n]
    BY <1>4 DEF Target
  <2>2. n \in Nat
    BY <1>1 DEF TableCowAssumption
  <2> HIDE DEF n
  <2>3. /\ Target(h, k) \in BlockType /\ Target(h, k).index1 = old.index1
        /\ Target(h, k).slots = Padded(old.slots, n)
    BY <1>1, <1>3, <2>1, <2>2 DEF BlockType
  <2>4. h.count + 1 <= n
    BY <1>2, <1>3, <1>4, <2>2, <2>3 DEF Fits, Slot, Grows
  <2>5. ASSUME NEW i \in 1..h.count
        PROVE  Target(h, k).slots[i] = old.slots[i]
    <3>1. i \in 1..n /\ i <= Len(old.slots)
      BY <1>1, <2>2, <2>4
    <3> QED BY <1>3, <2>2, <2>3, <3>1
  <2>6. h.count <= Len(Target(h, k).slots)
    <3>1. Len(Target(h, k).slots) = n
      BY <1>3, <2>2, <2>3
    <3> QED BY <1>1, <2>2, <2>4, <3>1
  <2> QED BY <2>3, <2>5, <2>6
<1>5. CASE ~Grows(h, k) /\ Copies(h)
  <2> DEFINE m == h.count + 1
             padded == Padded(old.slots, m)
             s == SubSeq(padded, 1, m)
  <2>1. Target(h, k) = [old EXCEPT !.slots = s]
    BY <1>5 DEF Target
  <2>2. m \in Nat /\ padded \in Seq(SlotType) /\ Len(padded) = m
    BY <1>1, <1>3
  <2>3. ASSUME NEW i \in 1..h.count
        PROVE  i \in 1..m /\ padded[i] = old.slots[i]
    <3>1. i \in 1..m /\ i <= Len(old.slots) /\ m \in Nat
      BY <1>1
    <3> QED BY <1>3, <3>1
  <2> HIDE DEF m, padded
  <2>4. /\ s \in Seq(SlotType) /\ Len(s) = m
        /\ \A i \in 1..m : s[i] = padded[i]
    BY <2>2
  <2> HIDE DEF s
  <2>5. /\ Target(h, k) \in BlockType /\ Target(h, k).index1 = old.index1
        /\ Target(h, k).slots = s
    BY <1>1, <2>1, <2>4 DEF BlockType
  <2>6. h.count <= m
    BY <1>1 DEF m
  <2> QED BY <2>3, <2>4, <2>5, <2>6
<1>6. CASE ~Grows(h, k) /\ ~Copies(h)
  BY <1>1, <1>6 DEF Target
<1> QED BY <1>4, <1>5, <1>6

(* Storing a struct with a sound block keeps all of them sound. *)
LEMMA StoreKeepsSound ==
  ASSUME TableCowAssumption, SlotInv, NEW c \in Cells, NEW h, NEW blk, Store(c, h, blk),
         blk \in BlockType, Sound(h.count, blk),
         h.block \in Blocks \/ (h.block = NoBlock /\ blk = Free),
         h.block \in Blocks => ~Used(h.block, c) \/ blk = store[h.block]
  PROVE  AllSound' /\ Seen(c)' = Shown(blk)
<1>1. /\ cells'[c] = h /\ \A d \in Cells \ {c} : cells'[d] = cells[d]
  BY DEF Store, SlotInv, IInv, Typed
<1>2. store' \in [Blocks -> BlockType]
  BY FreeSound DEF Store, SlotInv, AllSound
<1>3. BlockOf(h)' = blk
  BY <1>1 DEF BlockOf, Store, TableCowAssumption
<1>3a. BlockOf(cells[c])' = blk
  BY <1>1, <1>3 DEF BlockOf
<1>4. ASSUME NEW d \in Cells \ {c}
      PROVE  BlockOf(cells[d])' = BlockOf(cells[d])
  <2>1. CASE cells[d].block = NoBlock
    BY <1>1, <2>1 DEF BlockOf, Free
  <2>2. CASE cells[d].block # NoBlock
    <3>1. cells[d].block \in Blocks /\ Used(cells[d].block, c)
      BY <2>2 DEF SlotInv, IInv, Typed, Used
    <3>2. store'[cells[d].block] = store[cells[d].block]
      BY <3>1 DEF Store
    <3> QED BY <1>1, <2>2, <3>2 DEF BlockOf
  <2> QED BY <2>1, <2>2
<1>5. ASSUME NEW d \in Cells
      PROVE  Sound(cells[d].count, BlockOf(cells[d]))'
  <2>1. CASE d = c
    BY <1>1, <1>3a, <2>1 DEF Sound, BlockType, SlotType, Zeroed
  <2>2. CASE d # c
    <3>1. Sound(cells[d].count, BlockOf(cells[d]))
      BY DEF SlotInv, AllSound
    <3> QED BY ZenonT(30), <1>1, <1>4, <2>2, <3>1 DEF Sound, BlockType, SlotType, Zeroed
  <2> QED BY <2>1, <2>2
<1>6. Seen(c)' = Shown(blk)
  BY <1>3a DEF Seen, Shown, Index
<1>7. Cells' = Cells /\ Blocks' = Blocks
  BY DEF Cells
<1> QED BY <1>2, <1>5, <1>6, <1>7 DEF AllSound, BlockType, SlotType, Zeroed

-----------------------------------------------------------------------------
(* What each statement makes of the table in its cell.                     *)

LEMMA SetShows ==
  ASSUME TableCowAssumption, SlotInv, NEW c \in Cells, NEW h, NEW k \in Keys, NEW v \in Values,
         h.cow \/ Alone(c, h), Sound(h.count, BlockOf(h)), Set(c, h, k, v)
  PROVE  AllSound' /\ Seen(c)' = [Shown(BlockOf(h)) EXCEPT ![k] = v]
<1> DEFINE blk == WrittenBlock(h, k, v)
<1>1. PICK b \in Blocks : ~Used(b, c) /\ Store(c, Written(h, k, b), blk)
  BY SetStores
<1>2. Fits(h, k)
  BY DEF Set
<1>3. /\ Slot(h, k) = (IF BlockOf(h).index1[k] = 0 THEN h.count + 1 ELSE BlockOf(h).index1[k])
      /\ Slot(h, k) <= Len(Target(h, k).slots)
  BY <1>2 DEF Fits, Slot, Index
<1>t. /\ Target(h, k) \in BlockType /\ Target(h, k).index1 = BlockOf(h).index1
      /\ h.count <= Len(Target(h, k).slots)
      /\ \A i \in 1..h.count : Target(h, k).slots[i] = BlockOf(h).slots[i]
  BY <1>2, TargetHolds
<1>w. blk = Filled(Target(h, k), Slot(h, k), k, v)
  BY DEF WrittenBlock, Filled
<1> HIDE DEF blk
<1>4. /\ blk \in BlockType
      /\ Sound(IF BlockOf(h).index1[k] = 0 THEN h.count + 1 ELSE h.count, blk)
      /\ Shown(blk) = [Shown(BlockOf(h)) EXCEPT ![k] = v]
  BY <1>3, <1>t, <1>w, WriteSound
<1>5. /\ Written(h, k, b).block = b
      /\ Written(h, k, b).count = IF BlockOf(h).index1[k] = 0 THEN h.count + 1 ELSE h.count
  BY DEF Written, Index
<1> QED BY <1>1, <1>4, <1>5, StoreKeepsSound

LEMMA CopyShows ==
  ASSUME TableCowAssumption, SlotInv, NEW c \in Cells, NEW d \in Cells, NEW h,
         h.block = cells[d].block, h.count = cells[d].count, Store(c, h, BlockOf(h))
  PROVE  AllSound' /\ Seen(c)' = Seen(d)
<1>1. BlockOf(h) = BlockOf(cells[d])
  BY DEF BlockOf
<1>2. Sound(h.count, BlockOf(h)) /\ BlockOf(h) \in BlockType
  BY <1>1 DEF SlotInv, AllSound, Sound
<1>3. h.block \in Blocks \/ (h.block = NoBlock /\ BlockOf(h) = Free)
  BY DEF BlockOf, SlotInv, IInv, Typed
<1>4. h.block \in Blocks => BlockOf(h) = store[h.block]
  BY DEF BlockOf, TableCowAssumption
<1>5. Shown(BlockOf(h)) = Seen(d)
  BY <1>1 DEF Shown, Seen, Index
<1> QED BY <1>2, <1>3, <1>4, <1>5, StoreKeepsSound

LEMMA RemoveShows ==
  ASSUME TableCowAssumption, SlotInv, NEW c \in Writable, NEW k \in Keys,
         ~cells[c].cow, Remove(c, k)
  PROVE  AllSound' /\ Seen(c)' = [Seen(c) EXCEPT ![k] = NoValue]
<1> DEFINE h == cells[c]
<1>1. c \in Cells /\ h.block \in Blocks /\ ~Used(h.block, c)
  BY DEF Writable, Cells, SlotInv, IInv, Typed, OwnedOrMarked, Remove, Delete
<1>2. Sound(h.count, BlockOf(h)) /\ Shown(BlockOf(h)) = Seen(c)
  BY <1>1 DEF SlotInv, AllSound, Shown, Seen, Index
<1>3. CASE Index(h, k) = 0
  <2> DEFINE new == [h EXCEPT !.cow = FALSE]
  <2>1. Store(c, new, BlockOf(h))
    BY <1>3 DEF Remove, Delete
  <2>2. new.block = h.block /\ new.count = h.count
    BY <1>1 DEF SlotInv, IInv, Typed
  <2>3. BlockOf(h) \in BlockType
    BY <1>2 DEF Sound
  <2> HIDE DEF new
  <2>4. AllSound' /\ Seen(c)' = Seen(c)
    BY <1>1, <1>2, <2>1, <2>2, <2>3, StoreKeepsSound
  <2>5. Seen(c) = [Seen(c) EXCEPT ![k] = NoValue]
    BY <1>3 DEF Seen
  <2> QED BY <2>4, <2>5
<1>4. CASE Index(h, k) # 0
  <2> DEFINE new == [block |-> h.block, count |-> h.count - 1, cow |-> FALSE]
             blk == Removed(BlockOf(h), h.count, k)
  <2>1. Store(c, new, blk)
    BY <1>4 DEF Remove, Delete, Removed, Index
  <2>2. new.block = h.block /\ new.count = h.count - 1
    OBVIOUS
  <2>3. BlockOf(h).index1[k] # 0
    BY <1>4 DEF Index
  <2>4. /\ blk \in BlockType /\ Sound(h.count - 1, blk)
        /\ Shown(blk) = [Shown(BlockOf(h)) EXCEPT ![k] = NoValue]
    BY <1>2, <2>3, RemoveSound
  <2> HIDE DEF new, blk
  <2> QED BY <1>1, <1>2, <2>1, <2>2, <2>4, StoreKeepsSound
<1> QED BY <1>3, <1>4

(* A step that copies structs but changes no block in use. *)
LEMMA MoveShows ==
  ASSUME SlotInv, NEW from \in [Cells -> Cells],
         \A d \in Cells : /\ cells'[d].block = cells[from[d]].block
                          /\ cells'[d].count = cells[from[d]].count,
         store' \in [Blocks -> BlockType],
         \A d \in Cells : cells[from[d]].block \in Blocks
            => store'[cells[from[d]].block] = store[cells[from[d]].block]
  PROVE  AllSound' /\ \A d \in Cells : Seen(d)' = Seen(from[d])
<1> SUFFICES ASSUME NEW d \in Cells
             PROVE  Sound(cells'[d].count, BlockOf(cells[d])') /\ Seen(d)' = Seen(from[d])
  BY DEF AllSound, Sound, BlockType, SlotType, Zeroed, Cells
<1>1. BlockOf(cells[d])' = BlockOf(cells[from[d]])
  BY DEF BlockOf, Free, SlotInv, IInv, Typed
<1>2. Sound(cells'[d].count, BlockOf(cells[d])')
  BY <1>1 DEF SlotInv, AllSound
<1>3. Seen(d)' = Seen(from[d])
  BY <1>1 DEF Seen, Index
<1> QED BY <1>2, <1>3

LEMMA FetchShows ==
  ASSUME SlotInv, NEW c \in Cells, NEW p \in Writable, Fetch(c, p)
  PROVE  AllSound' /\ Seen(c)' = Seen(p)
<1> DEFINE from == [d \in Cells |-> IF d = c THEN p ELSE d]
<1>1. p \in Cells /\ from \in [Cells -> Cells] /\ from[c] = p
  BY DEF Writable, Cells, SlotInv, IInv, Typed
<1>2. \A d \in Cells : /\ cells'[d].block = cells[from[d]].block
                       /\ cells'[d].count = cells[from[d]].count
  BY <1>1 DEF Fetch, Marked, SlotInv, IInv, Typed
<1>3. store' \in [Blocks -> BlockType]
  BY FreeSound DEF Fetch, SlotInv, AllSound
<1>4. ASSUME NEW d \in Cells, cells[from[d]].block \in Blocks
      PROVE  store'[cells[from[d]].block] = store[cells[from[d]].block]
  <2>1. CASE d = c
    BY <1>4, <2>1 DEF Fetch
  <2>2. CASE d # c
    BY <1>4, <2>2 DEF Fetch, Used
  <2> QED BY <2>1, <2>2
<1> HIDE DEF from
<1> QED BY <1>1, <1>2, <1>3, <1>4, MoveShows

LEMMA ReferShows ==
  ASSUME SlotInv, NEW x \in Vars, Refer(x)
  PROVE  AllSound' /\ \A d \in Cells : Seen(d)' = Seen(d)
<1> DEFINE from == [d \in Cells |-> d]
<1>1. from \in [Cells -> Cells] /\ x \in Cells /\ \A d \in Cells : from[d] = d
  BY DEF Cells
<1>2. \A d \in Cells : /\ cells'[d].block = cells[from[d]].block
                       /\ cells'[d].count = cells[from[d]].count
  BY <1>1 DEF Refer, Marked, SlotInv, IInv, Typed
<1>3. store' = store
  BY DEF Refer
<1> HIDE DEF from
<1>4. AllSound' /\ \A d \in Cells : Seen(d)' = Seen(from[d])
  BY <1>1, <1>2, <1>3, MoveShows DEF SlotInv, AllSound
<1> QED BY <1>1, <1>4

-----------------------------------------------------------------------------
(* Every step does to the table of one cell what its statement says.       *)

LEMMA Becomes ==
  ASSUME NEW c \in Cells, OthersKept(c), NEW shown, Seen(c)' = shown
  PROVE  [d \in Cells |-> Seen(d)]' = [[d \in Cells |-> Seen(d)] EXCEPT ![c] = shown]
<1>1. \A d \in Cells : Seen(d)' = IF d = c THEN shown ELSE Seen(d)
  BY DEF OthersKept
<1>2. Cells' = Cells
  BY DEF Cells
<1> QED BY <1>1, <1>2

LEMMA PutStep ==
  ASSUME TableCowAssumption, SlotInv, NEW c \in Writable, NEW k \in Keys, NEW v \in Values,
         NEW h, h.block = cells[c].block, h.count = cells[c].count,
         h.cow \/ Alone(c, h), OthersKept(c), Set(c, h, k, v), did' = <<"put", c, k, v>>
  PROVE  AllSound' /\ Abstract!Put(c, k, v)
<1>1. c \in Cells /\ BlockOf(h) = BlockOf(cells[c])
  BY DEF Writable, Cells, BlockOf, SlotInv, IInv, Typed
<1>2. Sound(h.count, BlockOf(h)) /\ Shown(BlockOf(h)) = Seen(c)
  BY <1>1 DEF SlotInv, AllSound, Shown, Seen, Index
<1>3. AllSound' /\ Seen(c)' = [Seen(c) EXCEPT ![k] = v]
  BY <1>1, <1>2, SetShows
<1> QED BY <1>1, <1>3, Becomes DEF Abstract!Put

LEMMA NewStep ==
  ASSUME TableCowAssumption, SlotInv, NEW c \in Cells, NEW k \in Keys, NEW v \in Values,
         OthersKept(c), New(c, k, v)
  PROVE  AllSound' /\ Abstract!New(c, k, v)
<1> DEFINE h == EmptyTable(c)
<1>1. h.count = 0 /\ BlockOf(h) = Free /\ Alone(c, h)
  BY DEF EmptyTable, BlockOf, Alone
<1>2. Shown(Free) = Abstract!Empty
  BY DEF Shown, Free, Abstract!Empty
<1>3. Set(c, h, k, v) /\ did' = <<"new", c, k, v>>
  BY DEF New
<1> HIDE DEF h
<1>4. AllSound' /\ Seen(c)' = [Abstract!Empty EXCEPT ![k] = v]
  BY <1>1, <1>2, <1>3, FreeSound, SetShows
<1> QED BY <1>3, <1>4, Becomes DEF Abstract!New

LEMMA CopiedStep ==
  ASSUME NEW c \in Cells, NEW d \in Cells, OthersKept(c), Seen(c)' = Seen(d),
         did' = <<"copy", c, d>>
  PROVE  Abstract!Copy(c, d)
BY Becomes DEF Abstract!Copy

LEMMA NextRefines ==
  ASSUME TableCowAssumption, SlotInv, Next
  PROVE  AllSound' /\ [Abstract!Next]_<<[c \in Cells |-> Seen(c)], did>>
<1>1. Writable \subseteq Cells /\ Vars \subseteq Cells /\ Heap \subseteq Cells
  BY DEF Writable, Cells, SlotInv, IInv, Typed
<1>2. IInv
  BY DEF SlotInv
<1>3. ASSUME NEW c \in Writable, NEW k \in Keys, NEW v \in Values, Put(c, k, v)
      PROVE  AllSound' /\ Abstract!Put(c, k, v)
  <2>1. cells[c].cow \/ Alone(c, cells[c])
    BY <1>2 DEF IInv, OwnedOrMarked, Alone
  <2>2. cells[c] \in [block : Blocks \cup {NoBlock}, count : Int, cow : BOOLEAN]
    BY <1>1, <1>2 DEF IInv, Typed
  <2>3. OthersKept(c)
    BY <1>1, <1>2, <1>3, <2>1, <2>2, SetStep DEF Put
  <2> QED BY <1>3, <2>1, <2>3, PutStep DEF Put
<1>4. ASSUME NEW c \in Writable, NEW k \in Keys, NEW v \in Values, Modify(c, k, v)
      PROVE  AllSound' /\ Abstract!Put(c, k, v)
  <2> DEFINE h == Marked(cells[c])
  <2>1. /\ h \in [block : Blocks \cup {NoBlock}, count : Int, cow : BOOLEAN]
        /\ h.cow /\ h.block = cells[c].block /\ h.count = cells[c].count
    BY <1>1, <1>2 DEF IInv, Typed, Marked
  <2>2. Set(c, h, k, v) /\ did' = <<"put", c, k, v>>
    BY <1>4 DEF Modify
  <2> HIDE DEF h
  <2>3. OthersKept(c)
    BY <1>1, <1>2, <2>1, <2>2, SetStep
  <2> QED BY <2>1, <2>2, <2>3, PutStep
<1>5. ASSUME NEW c \in Cells, NEW k \in Keys, NEW v \in Values, New(c, k, v)
      PROVE  AllSound' /\ Abstract!New(c, k, v)
  <2>1. /\ EmptyTable(c) \in [block : Blocks \cup {NoBlock}, count : Int, cow : BOOLEAN]
        /\ Alone(c, EmptyTable(c))
    BY DEF EmptyTable, Alone
  <2>2. OthersKept(c)
    BY <1>2, <1>5, <2>1, SetStep DEF New
  <2> QED BY <1>5, <2>2, NewStep
<1>6. ASSUME NEW c \in Cells, NEW p \in Writable, Fetch(c, p)
      PROVE  AllSound' /\ Abstract!Copy(c, p)
  <2>1. OthersKept(c) /\ did' = <<"copy", c, p>>
    BY <1>2, <1>6, FetchStep DEF Fetch
  <2> QED BY <1>1, <1>6, <2>1, FetchShows, CopiedStep
<1>7. ASSUME NEW x \in Vars, NEW p \in Heap, Box(p, x), cells[x].cow \/ x \notin refs
      PROVE  AllSound' /\ Abstract!Copy(p, x)
  <2> DEFINE h == Marked(cells[x])
  <2>1. /\ h \in [block : Blocks \cup {NoBlock}, count : Int, cow : BOOLEAN]
        /\ h.cow /\ h.block = cells[x].block /\ h.count = cells[x].count
        /\ BlockOf(h) = BlockOf(cells[x])
    BY <1>1, <1>2 DEF IInv, Typed, Marked, BlockOf
  <2>2. Store(p, h, BlockOf(h)) /\ did' = <<"copy", p, x>> /\ UNCHANGED refs
    BY <1>7, <2>1 DEF Box
  <2> HIDE DEF h
  <2>3. x \notin refs => x \notin Writable
    BY DEF Writable, TableCowAssumption
  <2>4. OthersKept(p)
    BY <1>1, <1>2, <1>7, <2>1, <2>2, <2>3, CopyStep
  <2>5. AllSound' /\ Seen(p)' = Seen(x)
    BY <1>1, <2>1, <2>2, CopyShows
  <2> QED BY <1>1, <2>2, <2>4, <2>5, CopiedStep
<1>8. ASSUME NEW x \in Vars, NEW c \in Cells, Assign(c, x), cells[x].cow \/ x \notin refs,
             cells[x].cow \/ c \notin Writable
      PROVE  AllSound' /\ Abstract!Copy(c, x)
  <2>1. cells[x] \in [block : Blocks \cup {NoBlock}, count : Int, cow : BOOLEAN]
    BY <1>1, <1>2 DEF IInv, Typed
  <2>2. Store(c, cells[x], BlockOf(cells[x])) /\ did' = <<"copy", c, x>> /\ UNCHANGED refs
    BY <1>8 DEF Assign
  <2>3. x \notin refs => x \notin Writable
    BY DEF Writable, TableCowAssumption
  <2>4. OthersKept(c)
    BY <1>1, <1>2, <1>8, <2>1, <2>2, <2>3, CopyStep
  <2>5. AllSound' /\ Seen(c)' = Seen(x)
    BY <1>1, <2>2, CopyShows
  <2> QED BY <1>1, <2>2, <2>4, <2>5, CopiedStep
<1>9. ASSUME NEW c \in Writable, NEW k \in Keys, ~cells[c].cow, Remove(c, k)
      PROVE  AllSound' /\ Abstract!Remove(c, k)
  <2>1. OthersKept(c) /\ did' = <<"remove", c, k>>
    BY <1>2, <1>9, RemoveStep DEF Remove
  <2>2. AllSound' /\ Seen(c)' = [Seen(c) EXCEPT ![k] = NoValue]
    BY <1>9, RemoveShows
  <2> QED BY <1>1, <2>1, <2>2, Becomes DEF Abstract!Remove
<1>10. ASSUME NEW x \in Vars, Refer(x)
       PROVE  AllSound' /\ UNCHANGED <<[c \in Cells |-> Seen(c)], did>>
  <2>1. AllSound' /\ \A d \in Cells : Seen(d)' = Seen(d)
    BY <1>10, ReferShows
  <2>2. Cells' = Cells /\ did' = did
    BY <1>10 DEF Cells, Refer
  <2> QED BY <2>1, <2>2
<1>11. CASE \E c \in Writable, k \in Keys, v \in Values : Put(c, k, v) \/ Modify(c, k, v)
  BY <1>1, <1>3, <1>4, <1>11 DEF Abstract!Next
<1>12. CASE \E c \in Cells, p \in Writable : Fetch(c, p)
  BY <1>1, <1>6, <1>12 DEF Abstract!Next
<1>13. CASE \E x \in Vars : Refer(x)
  BY <1>10, <1>13
<1>14. CASE \E c \in Cells, k \in Keys, v \in Values : New(c, k, v)
  BY <1>5, <1>14 DEF Abstract!Next
<1>15. CASE \E x \in Vars : /\ cells[x].cow \/ x \notin refs
                            /\ \E p \in Heap : Box(p, x)
  BY <1>1, <1>7, <1>15 DEF Abstract!Next
<1>16. CASE \E x \in Vars : /\ cells[x].cow \/ x \notin refs
                            /\ \E c \in Cells : /\ cells[x].cow \/ c \notin Writable
                                                /\ Assign(c, x)
  BY <1>1, <1>8, <1>16 DEF Abstract!Next
<1>17. CASE \E c \in Writable, k \in Keys : ~cells[c].cow /\ Remove(c, k)
  BY <1>1, <1>9, <1>17 DEF Abstract!Next
<1> QED BY <1>11, <1>12, <1>13, <1>14, <1>15, <1>16, <1>17 DEF Next, Writes, Copying

LEMMA SlotInvariance == Spec => []SlotInv
<1>1. Init => SlotInv
  <2> SUFFICES ASSUME Init
               PROVE  AllSound
    BY InitInv, TableCowAssumption DEF SlotInv
  <2>1. store \in [Blocks -> BlockType]
    BY FreeSound DEF Init
  <2>2. \A c \in Cells : cells[c].count = 0 /\ BlockOf(cells[c]) = Free
    BY DEF Init, EmptyTable, BlockOf
  <2> QED BY <2>1, <2>2, FreeSound DEF AllSound
<1>2. SlotInv /\ [Next]_vars => SlotInv'
  <2> SUFFICES ASSUME SlotInv, [Next]_vars
               PROVE  SlotInv'
    OBVIOUS
  <2>1. CASE UNCHANGED vars
    <3>1. UNCHANGED <<cells, store, refs>>
      BY <2>1 DEF vars
    <3>2. AllSound'
      BY ZenonT(30), <3>1 DEF SlotInv, AllSound, Cells, BlockOf, Free, Sound, BlockType, SlotType, Zeroed
    <3>3. IInv'
      BY <3>1 DEF SlotInv, IInv, Typed, OwnedOrMarked, Writable, Used, Cells
    <3> QED BY <3>2, <3>3 DEF SlotInv
  <2>2. CASE Next
    BY <2>2, NextStep, NextRefines, TableCowAssumption DEF SlotInv
  <2> QED BY <2>1, <2>2
<1> QED BY <1>1, <1>2, PTL DEF Spec

(* The types of the structs and blocks: no count is negative, and every    *)
(* slot holds a whole entry or is zeroed (libsss/hashmap.h).               *)
THEOREM TableTypes == Spec => []TypeOK
<1>1. SlotInv => TypeOK
  <2> SUFFICES ASSUME SlotInv
               PROVE  TypeOK
    OBVIOUS
  <2>1. \A c \in Cells : cells[c].count \in Nat
    BY DEF SlotInv, AllSound, Sound
  <2>2. cells \in [Cells -> Struct]
    BY <2>1 DEF SlotInv, IInv, Typed, Struct
  <2> QED BY <2>2 DEF SlotInv, AllSound, IInv, Typed, TypeOK
<1> QED BY <1>1, SlotInvariance, PTL

(* Iteration over the first `count' entries and lookup through the buckets *)
(* show the same table, in every table that shares its storage or not      *)
(* (libsss/hashmap.c).                                                     *)
THEOREM TablesAgree == Spec => []LookupMatchesIteration
<1>1. SlotInv => LookupMatchesIteration
  <2> SUFFICES ASSUME SlotInv, NEW c \in Cells, NEW k \in Keys
               PROVE  {i \in 1..cells[c].count : BlockOf(cells[c]).slots[i].key = k} =
                        IF Index(cells[c], k) = 0 THEN {} ELSE {Index(cells[c], k)}
    BY DEF LookupMatchesIteration
  <2>1. Sound(cells[c].count, BlockOf(cells[c]))
    BY DEF SlotInv, AllSound
  <2> QED BY <2>1 DEF Sound, Index
<1> QED BY <1>1, SlotInvariance, PTL

(* Tables that share storage behave as tables that do not: every statement *)
(* changes the table in the one cell it names, in the way it says, and no  *)
(* other (docs/mutability.md).                                             *)
THEOREM TablesAreValues == Spec => ImplementsValues
<1>1. Init => Abstract!Init
  BY DEF Init, EmptyTable, Seen, Index, BlockOf, Free, Abstract!Init, Abstract!Empty
<1>2. SlotInv /\ [Next]_vars => [Abstract!Next]_<<[c \in Cells |-> Seen(c)], did>>
  <2>1. SlotInv /\ Next => [Abstract!Next]_<<[c \in Cells |-> Seen(c)], did>>
    BY NextRefines, TableCowAssumption
  <2>2. UNCHANGED vars => UNCHANGED <<[c \in Cells |-> Seen(c)], did>>
    BY DEF vars, Cells, Seen, Index, BlockOf, Free
  <2> QED BY <2>1, <2>2
<1> QED BY <1>1, <1>2, SlotInvariance, PTL DEF Spec, ImplementsValues, Abstract!Spec
=============================================================================
