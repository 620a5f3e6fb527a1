---------------------------- MODULE ArrayCowProof ----------------------------
(***************************************************************************)
(* Proofs about ArrayCow.tla, for any number of variables, heap cells,     *)
(* items and blocks, and any bound on the lengths.                         *)
(*                                                                         *)
(* What carries them is that the storage of an array that may be written   *)
(* to and is not marked is read by nothing else, and that such an array is *)
(* flat and lies in its block together with its free space: then a write   *)
(* in place is seen by nobody, and hits the items that it names.           *)
(***************************************************************************)
EXTENDS ArrayCow, TLAPS

Memory == Seq(Items \cup {Junk})

(* Where the items of an array are in its block. *)
Place(h, i) == h.off + (i - 1) * h.stride + 1
Shown(h, s) == [i \in 1..h.len |-> s[Place(h, i)]]

(* The array h fits its memory s: its items were written, and when it is   *)
(* not marked it is flat and its free space is there.                      *)
FitsIn(h, s) ==
  /\ h \in Struct /\ s \in Memory
  /\ \A i \in 1..h.len : Place(h, i) \in 1..Len(s) /\ s[Place(h, i)] \in Items
  /\ ~IsMarked(h) => h.stride = 1 /\ h.off >= 0 /\ h.off + h.len + h.free <= Len(s)

Typed ==
  /\ cells \in [Cells -> Struct]
  /\ store \in [Blocks -> Memory]
  /\ refs \subseteq Vars
  /\ loop \in LoopType \cup {NoLoop}

AllFit == \A c \in Cells : FitsIn(cells[c], Content(cells[c]))

(* What a loop has still to read is where it will look for it. *)
Ahead(l, stride) ==
  \A i \in 1..Len(l.left) : l.off + (i - 1) * stride + 1 \in 1..Len(store[l.block])
                         /\ store[l.block][l.off + (i - 1) * stride + 1] = l.left[i]
LoopInv == loop # NoLoop => loop.left # <<>> /\ Ahead(loop, cells[loop.cell].stride)

IInv == Typed /\ AllFit /\ OwnedOrMarked /\ LoopInv

-----------------------------------------------------------------------------
LEMMA StructFields ==
  ASSUME NEW h \in Struct
  PROVE  /\ h.block \in Blocks \cup {NoBlock} /\ h.off \in Int /\ h.len \in Nat /\ h.len <= MaxLen
         /\ h.stride \in Int /\ h.free \in Nat \cup {-1} /\ (~IsMarked(h) => h.free \in Nat)
BY ArrayCowAssumption DEF Struct, IsMarked

LEMMA MemoryFields ==
  ASSUME NEW s \in Memory
  PROVE  Len(s) \in Nat /\ DOMAIN s = 1..Len(s) /\ \A a \in 1..Len(s) : s[a] \in Items \cup {Junk}
BY DEF Memory

LEMMA PlaceInt ==
  ASSUME NEW h \in Struct, NEW i \in Int
  PROVE  /\ Place(h, i) \in Int
         /\ h.off + (i - 1) * h.stride + 1 = Place(h, i)
         /\ h.stride = 1 => Place(h, i) = h.off + i
<1>1. h.off \in Int /\ h.stride \in Int
  BY StructFields
<1> QED BY <1>1 DEF Place

(* What an array that fits its memory holds. *)
LEMMA ShownItems ==
  ASSUME NEW h, NEW s, FitsIn(h, s)
  PROVE  /\ Shown(h, s) \in Seq(Items) /\ Len(Shown(h, s)) = h.len
         /\ DOMAIN Shown(h, s) = 1..h.len
         /\ \A i \in 1..h.len : Shown(h, s)[i] = s[Place(h, i)] /\ Shown(h, s)[i] \in Items
<1>1. h \in Struct /\ h.len \in Nat
  BY StructFields DEF FitsIn
<1>2. Shown(h, s) \in [1..h.len -> Items]
  BY DEF Shown, FitsIn
<1> QED BY <1>1, <1>2 DEF Shown

(* The same read through the blocks, whatever they are. *)
ReadFrom(st, h) ==
  [i \in 1..h.len |-> IF h.block # NoBlock /\ h.off + (i - 1) * h.stride + 1 \in DOMAIN st[h.block]
                      THEN st[h.block][h.off + (i - 1) * h.stride + 1]
                      ELSE Junk]

LEMMA ReadShown ==
  ASSUME NEW st, NEW h, NEW s, FitsIn(h, s), s = IF h.block = NoBlock THEN <<>> ELSE st[h.block]
  PROVE  ReadFrom(st, h) = Shown(h, s)
<1>1. h \in Struct /\ s \in Memory
  BY DEF FitsIn
<1>2. ASSUME NEW i \in 1..h.len
      PROVE  ReadFrom(st, h)[i] = s[Place(h, i)]
  <2>1. i \in Int /\ Place(h, i) \in 1..Len(s)
    BY DEF FitsIn
  <2>2. h.block # NoBlock /\ s = st[h.block]
    BY <2>1
  <2>3. h.off + (i - 1) * h.stride + 1 = Place(h, i)
    BY <1>1, <2>1, PlaceInt
  <2> QED BY <1>1, <2>1, <2>2, <2>3, MemoryFields DEF ReadFrom
<1> QED BY <1>2 DEF ReadFrom, Shown

LEMMA ValueReads ==
  /\ \A c \in Cells : Value(cells[c]) = ReadFrom(store, cells[c])
  /\ \A c \in Cells : Value(cells[c])' = ReadFrom(store', cells'[c])
BY DEF Value, Item, At, ReadFrom

LEMMA ValueShown ==
  ASSUME IInv, NEW c \in Cells
  PROVE  /\ FitsIn(cells[c], Content(cells[c]))
         /\ Value(cells[c]) = Shown(cells[c], Content(cells[c]))
<1>1. FitsIn(cells[c], Content(cells[c]))
  BY DEF IInv, AllFit
<1> QED BY <1>1, ReadShown, ValueReads DEF Content

(* Every other cell than c shows what it showed. *)
OthersKept(c) == \A d \in Cells \ {c} : Value(cells[d])' = Value(cells[d])

(* Storing h with the memory s in cell c, when nothing that is read by     *)
(* another cell or a loop changes, and no other cell may write to it.      *)
LEMMA Stored ==
  ASSUME IInv, NEW c \in Cells, NEW h, NEW s, Store(c, h, s), UNCHANGED <<refs, loop>>, SameStride,
         FitsIn(h, s), h.block = NoBlock => s = <<>>,
         h.block # NoBlock => ~Held(h.block, c) \/ s = store[h.block],
         c \in Writable /\ ~IsMarked(h) /\ h.block # NoBlock => ~Held(h.block, c),
         \A d \in Writable \ {c} : ~IsMarked(cells[d]) /\ cells[d].block # NoBlock
            => cells[d].block # h.block
  PROVE  /\ IInv'
         /\ Value(cells[c])' = Shown(h, s)
         /\ OthersKept(c)
<1>1. /\ cells'[c] = h /\ (\A d \in Cells \ {c} : cells'[d] = cells[d])
      /\ cells' \in [Cells -> Struct]
  BY DEF Store, IInv, Typed, FitsIn
<1>2. Cells' = Cells /\ Writable' = Writable /\ Writable \subseteq Cells
  BY DEF Cells, Writable, IInv, Typed
<1>3. h.block \in Blocks \cup {NoBlock} /\ NoBlock \notin Blocks
  BY StructFields, ArrayCowAssumption DEF FitsIn
<1>4. Typed'
  <2>1. store' \in [Blocks -> Memory]
    <3>1. s \in Memory /\ <<>> \in Memory
      BY DEF FitsIn, Memory
    <3> QED BY <3>1 DEF Store, IInv, Typed
  <2> QED BY <1>1, <2>1 DEF IInv, Typed, LoopType, Struct, Memory, Cells
<1>5. ASSUME NEW b \in Blocks, Held(b, c)
      PROVE  store'[b] = store[b]
  BY <1>3, <1>5 DEF Store
<1>6. Content(cells[c])' = s
  BY <1>1, <1>3 DEF Content, Store
<1>7. ASSUME NEW d \in Cells \ {c}
      PROVE  Content(cells[d])' = Content(cells[d])
  <2>1. cells[d].block \in Blocks \cup {NoBlock}
    BY StructFields DEF IInv, Typed
  <2>2. CASE cells[d].block = NoBlock
    BY <1>1, <2>2 DEF Content
  <2>3. CASE cells[d].block # NoBlock
    <3>1. Held(cells[d].block, c)
      BY DEF Held
    <3> QED BY <1>1, <1>5, <2>1, <2>3, <3>1 DEF Content
  <2> QED BY <2>2, <2>3
<1>8. ASSUME NEW d \in Cells
      PROVE  FitsIn(cells[d], Content(cells[d]))'
  <2>1. CASE d = c
    <3>1. cells'[d] = h /\ Content(cells[d])' = s
      BY <1>1, <1>6, <2>1
    <3> QED BY <3>1 DEF FitsIn, Place, IsMarked, Struct, Memory
  <2>2. CASE d # c
    <3>1. cells'[d] = cells[d] /\ Content(cells[d])' = Content(cells[d])
      BY <1>1, <1>7, <2>2
    <3>2. FitsIn(cells[d], Content(cells[d]))
      BY DEF IInv, AllFit
    <3> QED BY <3>1, <3>2 DEF FitsIn, Place, IsMarked, Struct, Memory
  <2> QED BY <2>1, <2>2
<1>9. AllFit'
  BY <1>2, <1>8 DEF AllFit
<1>10. OwnedOrMarked'
  <2> SUFFICES ASSUME NEW e \in Writable, ~IsMarked(cells'[e]), cells'[e].block # NoBlock,
                      Held(cells[e].block, e)'
               PROVE  FALSE
    BY <1>2 DEF OwnedOrMarked, IsMarked
  <2>1. e \in Cells
    BY <1>2
  <2>2. \/ \E d \in Cells \ {e} : cells'[d].block = cells'[e].block
        \/ loop # NoLoop /\ loop.block = cells'[e].block
    BY <1>2 DEF Held
  <2>3. CASE e = c
    <3>1. Held(h.block, c)
      BY <1>1, <2>2, <2>3 DEF Held
    <3> QED BY <1>1, <2>3, <3>1
  <2>4. CASE e # c
    <3>1. cells'[e] = cells[e] /\ ~Held(cells[e].block, e) /\ cells[e].block # h.block
      BY <1>1, <2>1, <2>4 DEF IInv, OwnedOrMarked
    <3> QED BY <1>1, <2>2, <2>4, <3>1 DEF Held
  <2> QED BY <2>3, <2>4
<1>11. LoopInv'
  <2> SUFFICES ASSUME loop # NoLoop
               PROVE  loop.left # <<>> /\ Ahead(loop, cells[loop.cell].stride)'
    BY DEF LoopInv
  <2>1. loop \in LoopType
    BY DEF IInv, Typed
  <2>2. loop.block \in Blocks /\ Held(loop.block, c)
    BY <2>1 DEF LoopType, Held
  <2>3. store'[loop.block] = store[loop.block]
    BY <1>5, <2>2
  <2>4. cells'[loop.cell].stride = cells[loop.cell].stride
    BY DEF SameStride
  <2> QED BY <2>3, <2>4 DEF IInv, LoopInv, Ahead
<1>12. IInv'
  BY <1>4, <1>9, <1>10, <1>11 DEF IInv
<1>13. Value(cells[c])' = Shown(h, s)
  <2>1. s = IF h.block = NoBlock THEN <<>> ELSE store'[h.block]
    BY <1>3 DEF Store
  <2>2. ReadFrom(store', h) = Shown(h, s)
    BY <2>1, ReadShown
  <2> QED BY <1>1, <2>2, ValueReads
<1>14. ASSUME NEW d \in Cells \ {c}
       PROVE  Value(cells[d])' = Value(cells[d])
  <2>1. cells'[d] = cells[d] /\ Content(cells[d])' = Content(cells[d])
    BY <1>1, <1>7
  <2>2. cells[d].block # NoBlock => store'[cells[d].block] = store[cells[d].block]
    BY <2>1 DEF Content
  <2> QED BY <2>1, <2>2 DEF Value, Item, At
<1> QED BY <1>12, <1>13, <1>14 DEF OthersKept

(* A write in place: the memory belongs to the array alone. *)
LEMMA StoredInPlace ==
  ASSUME IInv, NEW c \in Writable, ~IsMarked(cells[c]), NEW h, h.block = cells[c].block,
         NEW s, Store(c, h, s), UNCHANGED <<refs, loop>>, SameStride,
         FitsIn(h, s), h.block = NoBlock => s = <<>>
  PROVE  IInv' /\ Value(cells[c])' = Shown(h, s) /\ OthersKept(c)
<1>1. c \in Cells /\ Writable \subseteq Cells
  BY DEF Writable, Cells, IInv, Typed
<1>2. h.block # NoBlock => ~Held(h.block, c)
  BY DEF IInv, OwnedOrMarked
<1>3. ASSUME NEW d \in Writable \ {c}, ~IsMarked(cells[d]), cells[d].block # NoBlock,
             cells[d].block = h.block
      PROVE  FALSE
  BY <1>1, <1>2, <1>3 DEF Held
<1> QED BY <1>1, <1>2, <1>3, Stored

(* A copy in a new block. *)
LEMMA StoredNew ==
  ASSUME IInv, NEW c \in Cells, NEW h \in Struct, NEW s \in Memory, StoreNew(c, h, s),
         UNCHANGED <<refs, loop>>, SameStride, h.stride = 1,
         h.len <= Len(s), \A i \in 1..h.len : s[i] \in Items,
         ~IsMarked(h) => h.len + h.free <= Len(s)
  PROVE  IInv' /\ Value(cells[c])' = [i \in 1..h.len |-> s[i]] /\ OthersKept(c)
<1> DEFINE b == CHOOSE f \in Unused : TRUE
           new == [h EXCEPT !.block = b, !.off = 0]
<1>1. b \in Unused /\ Store(c, new, s)
  BY DEF StoreNew
<1>2. b \in Blocks /\ b # NoBlock /\ ~Held(b, c)
  BY <1>1, ArrayCowAssumption DEF Unused
<1> HIDE DEF b
<1>3. /\ new \in Struct /\ new.block = b /\ new.off = 0 /\ new.len = h.len
      /\ new.stride = 1 /\ new.free = h.free
  <2>0. new = [h EXCEPT !.block = b, !.off = 0]
    OBVIOUS
  <2> HIDE DEF new
  <2>1. new = [block |-> b, off |-> 0, len |-> h.len, stride |-> h.stride, free |-> h.free]
    BY <2>0 DEF Struct
  <2>2. h.len \in 0..MaxLen /\ h.stride \in Int /\ h.free \in Nat \cup {-1}
    BY DEF Struct
  <2> QED BY <1>2, <2>1, <2>2 DEF Struct
<1> HIDE DEF new
<1>4. h.len \in Nat /\ Len(s) \in Nat /\ (IsMarked(new) <=> IsMarked(h))
      /\ (~IsMarked(h) => h.free \in Nat)
  BY <1>3, StructFields, MemoryFields DEF IsMarked
<1>5. \A i \in 1..h.len : Place(new, i) = i /\ i \in 1..Len(s)
  BY <1>3, <1>4 DEF Place
<1>6. FitsIn(new, s)
  BY <1>3, <1>4, <1>5 DEF FitsIn
<1>7. ASSUME NEW d \in Writable \ {c}
      PROVE  cells[d].block # b
  BY <1>2 DEF Held, Writable, Cells, IInv, Typed
<1>8. IInv' /\ Value(cells[c])' = Shown(new, s) /\ OthersKept(c)
  BY <1>1, <1>2, <1>3, <1>6, <1>7, Stored
<1>9. Shown(new, s) = [i \in 1..h.len |-> s[i]]
  BY <1>3, <1>5 DEF Shown
<1> QED BY <1>8, <1>9

(* Another struct for memory that is there already, all of them marked. *)
LEMMA StoredCopy ==
  ASSUME IInv, NEW c \in Cells, NEW d \in Cells, IsMarked(cells[d]), NEW h, IsMarked(h),
         h.block = cells[d].block, Store(c, h, Content(h)), UNCHANGED <<refs, loop>>, SameStride,
         FitsIn(h, Content(h))
  PROVE  IInv' /\ Value(cells[c])' = Shown(h, Content(h)) /\ OthersKept(c)
<1>1. ASSUME NEW e \in Writable \ {c}, ~IsMarked(cells[e]), cells[e].block # NoBlock,
             cells[e].block = h.block
      PROVE  FALSE
  <2>1. d # e /\ Held(cells[e].block, e)
    BY <1>1 DEF Held
  <2> QED BY <1>1, <2>1 DEF IInv, OwnedOrMarked
<1>2. h.block = NoBlock => Content(h) = <<>>
  BY DEF Content
<1>3. h.block # NoBlock => Content(h) = store[h.block]
  BY DEF Content
<1> QED BY <1>1, <1>2, <1>3, Stored

(* A step that marks or copies structs, and keeps all blocks that are read. *)
LEMMA MovedStructs ==
  ASSUME IInv, NEW from \in [Cells -> Cells], Cells' = Cells, refs' \subseteq Vars,
         loop' \in LoopType \cup {NoLoop}, store' \in [Blocks -> Memory],
         cells' \in [Cells -> Struct],
         \A d \in Cells : \/ cells'[d] = cells[from[d]]
                          \/ cells'[d] = Marked(cells[from[d]]),
         \A d \in Cells : cells[from[d]].block # NoBlock
                             => store'[cells[from[d]].block] = store[cells[from[d]].block]
  PROVE  Typed' /\ AllFit' /\ \A d \in Cells : Value(cells[d])' = Value(cells[from[d]])
<1>1. Typed'
  BY DEF Typed, LoopType, Struct, Memory
<1>2. ASSUME NEW d \in Cells
      PROVE  FitsIn(cells[d], Content(cells[d]))' /\ Value(cells[d])' = Value(cells[from[d]])
  <2> DEFINE h == cells[from[d]]
             s == Content(h)
  <2>1. FitsIn(h, s) /\ Value(h) = Shown(h, s) /\ h \in Struct
    BY ValueShown DEF IInv, Typed
  <2>2. /\ cells'[d].block = h.block /\ cells'[d].off = h.off /\ cells'[d].len = h.len
        /\ cells'[d].stride = h.stride /\ (~IsMarked(cells'[d]) => cells'[d] = h)
        /\ cells'[d] \in Struct
    BY <2>1 DEF Marked, Struct, IsMarked
  <2>3. s = IF cells'[d].block = NoBlock THEN <<>> ELSE store'[cells'[d].block]
    BY <2>2 DEF Content
  <2>4. Content(cells[d])' = s
    BY <2>3 DEF Content
  <2>5. /\ \A i \in 1..h.len : Place(cells'[d], i) = Place(h, i)
        /\ Shown(cells'[d], s) = Shown(h, s)
    BY <2>2 DEF Place, Shown
  <2>6. FitsIn(cells'[d], s)
    BY <2>1, <2>2, <2>5 DEF FitsIn
  <2>7. Value(cells[d])' = Shown(cells'[d], s)
    BY <2>3, <2>6, ReadShown, ValueReads
  <2>8. FitsIn(cells[d], Content(cells[d]))'
    BY <2>4, <2>6 DEF FitsIn, Place, IsMarked, Struct, Memory
  <2> QED BY <2>1, <2>5, <2>7, <2>8
<1> QED BY <1>1, <1>2 DEF AllFit

-----------------------------------------------------------------------------
(* What each statement makes of the array in its cell.                     *)

LEMMA Flat ==
  ASSUME NEW h, NEW s, FitsIn(h, s), ~IsMarked(h)
  PROVE  /\ h \in Struct /\ s \in Memory /\ h.off \in Nat /\ h.len \in Nat /\ h.free \in Nat
         /\ h.stride = 1 /\ Len(s) \in Nat /\ h.off + h.len + h.free <= Len(s)
         /\ \A i \in 1..h.len : /\ Place(h, i) = h.off + i /\ h.off + i \in 1..Len(s)
                                /\ s[h.off + i] \in Items /\ Shown(h, s)[i] = s[h.off + i]
<1>1. h \in Struct /\ s \in Memory
  BY DEF FitsIn
<1>2. h.off \in Nat /\ h.len \in Nat /\ h.free \in Nat /\ h.stride = 1 /\ Len(s) \in Nat
  BY <1>1, StructFields, MemoryFields DEF FitsIn
<1>3. ASSUME NEW i \in 1..h.len
      PROVE  Place(h, i) = h.off + i
  BY <1>2 DEF Place
<1> QED BY <1>1, <1>2, <1>3, ShownItems DEF FitsIn

(* An array that fits its memory still does when the items are replaced by *)
(* others and the rest of the memory is kept or is as good.                *)
LEMMA FlatFits ==
  ASSUME NEW h \in Struct, NEW s \in Memory, ~IsMarked(h), h.stride = 1, h.off >= 0,
         h.off + h.len + h.free <= Len(s), NEW items \in Seq(Items), Len(items) = h.len,
         \A i \in 1..h.len : s[h.off + i] = items[i]
  PROVE  FitsIn(h, s) /\ Shown(h, s) = items
<1>1. /\ h.off \in Int /\ h.len \in Nat /\ h.free \in Nat /\ Len(s) \in Nat
      /\ DOMAIN items = 1..h.len /\ \A i \in 1..h.len : items[i] \in Items
  BY StructFields, MemoryFields
<1>2. \A i \in 1..h.len : Place(h, i) = h.off + i /\ h.off + i \in 1..Len(s)
  BY SMTT(30), <1>1 DEF Place
<1>3. FitsIn(h, s)
  BY <1>1, <1>2 DEF FitsIn
<1>4. Shown(h, s) = items
  <2>1. Shown(h, s) = [i \in 1..h.len |-> items[i]]
    BY <1>2 DEF Shown
  <2>2. items = [i \in 1..h.len |-> items[i]]
    BY <1>1
  <2> QED BY <2>1, <2>2
<1> QED BY <1>3, <1>4

(* The memory after memcpy and memmove. *)
LEMMA CopiedMemory ==
  ASSUME NEW s \in Memory, NEW to \in Nat, NEW items \in Seq(Items)
  PROVE  /\ Copied(s, to, items) \in Memory /\ Len(Copied(s, to, items)) = Len(s)
         /\ \A j \in 1..Len(items) : to + j <= Len(s) => Copied(s, to, items)[to + j] = items[j]
         /\ \A a \in 1..Len(s) : a <= to => Copied(s, to, items)[a] = s[a]
<1> DEFINE t == Copied(s, to, items)
<1>1. Len(s) \in Nat /\ DOMAIN s = 1..Len(s) /\ \A a \in 1..Len(s) : s[a] \in Items \cup {Junk}
  BY MemoryFields
<1>2. Len(items) \in Nat /\ DOMAIN items = 1..Len(items) /\ \A j \in DOMAIN items : items[j] \in Items
  OBVIOUS
<1>3. t \in [1..Len(s) -> Items \cup {Junk}]
  BY <1>1, <1>2 DEF Copied
<1>4. \A a \in 1..Len(s) : t[a] = IF a - to \in 1..Len(items) THEN items[a - to] ELSE s[a]
  BY <1>1, <1>2 DEF Copied
<1> HIDE DEF t
<1>5. t \in Memory /\ Len(t) = Len(s)
  BY <1>1, <1>3 DEF Memory
<1>6. ASSUME NEW j \in 1..Len(items), to + j <= Len(s)
      PROVE  t[to + j] = items[j]
  <2>1. to + j \in 1..Len(s) /\ (to + j) - to = j
    BY <1>1, <1>2, <1>6
  <2> QED BY <1>4, <2>1
<1>7. ASSUME NEW a \in 1..Len(s), a <= to
      PROVE  t[a] = s[a]
  <2>1. a - to \notin 1..Len(items)
    BY <1>1, <1>2, <1>7
  <2> QED BY <1>4, <2>1
<1> QED BY <1>5, <1>6, <1>7 DEF t

LEMMA MovedMemory ==
  ASSUME NEW s \in Memory, NEW to \in Nat, NEW from \in Nat, NEW n \in Int
  PROVE  /\ Moved(s, to, from, n) \in Memory /\ Len(Moved(s, to, from, n)) = Len(s)
         /\ \A j \in 1..n : to + j <= Len(s) /\ from + j <= Len(s)
               => Moved(s, to, from, n)[to + j] = s[from + j]
         /\ \A a \in 1..Len(s) : a <= to => Moved(s, to, from, n)[a] = s[a]
<1> DEFINE t == Moved(s, to, from, n)
<1>1. Len(s) \in Nat /\ DOMAIN s = 1..Len(s) /\ \A a \in 1..Len(s) : s[a] \in Items \cup {Junk}
  BY MemoryFields
<1>2. t \in [1..Len(s) -> Items \cup {Junk}]
  BY <1>1 DEF Moved
<1>3. \A a \in 1..Len(s) : t[a] = IF a - to \notin 1..n THEN s[a]
                                  ELSE IF a - to + from \in 1..Len(s) THEN s[a - to + from] ELSE Junk
  BY <1>1 DEF Moved
<1> HIDE DEF t
<1>4. t \in Memory /\ Len(t) = Len(s)
  BY <1>1, <1>2 DEF Memory
<1>5. ASSUME NEW j \in 1..n, to + j <= Len(s), from + j <= Len(s)
      PROVE  t[to + j] = s[from + j]
  <2>1. /\ to + j \in 1..Len(s) /\ (to + j) - to = j
        /\ (to + j) - to + from = from + j /\ from + j \in 1..Len(s)
    BY <1>1, <1>5
  <2> QED BY <1>3, <2>1
<1>6. ASSUME NEW a \in 1..Len(s), a <= to
      PROVE  t[a] = s[a]
  <2>1. a - to \notin 1..n
    BY <1>1, <1>6
  <2> QED BY <1>3, <2>1
<1> QED BY <1>4, <1>5, <1>6 DEF t

LEMMA MakeStep ==
  ASSUME IInv, NEW c \in Cells, NEW s \in Seq(Items), Len(s) <= MaxLen, New(c, s), SameStride
  PROVE  IInv' /\ Value(cells[c])' = s /\ OthersKept(c)
<1> DEFINE h == EmptyArray(c)
<1>1. /\ h \in Struct /\ h.block = NoBlock /\ h.len = 0 /\ h.stride = 1 /\ h.off = 0
      /\ (~IsMarked(h) => h.free = 0)
  BY ArrayCowAssumption DEF EmptyArray, Struct, IsMarked
<1>2. UNCHANGED <<refs, loop>>
  BY DEF New
<1>3. CASE s = <<>>
  <2>1. Store(c, h, <<>>)
    BY <1>3 DEF New
  <2> HIDE DEF h
  <2>2. <<>> \in Memory /\ Len(<<>>) = 0 /\ 1..0 = {}
    BY DEF Memory
  <2>3. FitsIn(h, <<>>)
    BY <1>1, <2>2 DEF FitsIn
  <2>4. Shown(h, <<>>) = <<>>
    BY <2>3, <1>1, ShownItems
  <2> QED BY <1>1, <1>2, <1>3, <2>1, <2>3, <2>4, Stored
<1>4. CASE s # <<>>
  <2> DEFINE new == [h EXCEPT !.len = Len(s)]
  <2>1. StoreNew(c, new, s)
    BY <1>4 DEF New
  <2>2. new \in Struct /\ new.len = Len(s) /\ new.stride = 1 /\ new.free = h.free
    BY <1>1 DEF Struct, EmptyArray
  <2>3. s \in Memory /\ DOMAIN s = 1..Len(s) /\ \A i \in 1..Len(s) : s[i] \in Items
    BY DEF Memory
  <2>4. IsMarked(new) <=> IsMarked(h)
    BY <2>2 DEF IsMarked
  <2> HIDE DEF new, h
  <2>5. IInv' /\ Value(cells[c])' = [i \in 1..Len(s) |-> s[i]] /\ OthersKept(c)
    BY <1>1, <1>2, <2>1, <2>2, <2>3, <2>4, StoredNew
  <2>6. [i \in 1..Len(s) |-> s[i]] = s
    BY <2>3
  <2> QED BY <2>5, <2>6
<1> QED BY <1>3, <1>4

LEMMA OverwriteStep ==
  ASSUME IInv, NEW c \in Writable, NEW items \in Seq(Items), Len(items) = cells[c].len,
         Overwrite(c, items), UNCHANGED <<refs, loop>>, SameStride
  PROVE  IInv' /\ Value(cells[c])' = items /\ OthersKept(c)
<1> DEFINE h == cells[c]
           s == Content(h)
           Address(i) == h.off + (i - 1) * h.stride + 1
<1>1. c \in Cells
  BY DEF Writable, Cells, IInv, Typed
<1>2. FitsIn(h, s) /\ h \in Struct /\ h.len \in Nat
  BY <1>1, ValueShown, StructFields DEF FitsIn
<1>3. /\ DOMAIN items = 1..h.len /\ Len(items) = h.len
      /\ \A i \in 1..h.len : items[i] \in Items
  OBVIOUS
<1>4. CASE IsMarked(h)
  <2> DEFINE new == [h EXCEPT !.stride = 1, !.free = 0]
  <2>1. StoreNew(c, new, items)
    BY <1>4 DEF Overwrite, CheckCow
  <2>a. new = [h EXCEPT !.stride = 1, !.free = 0]
    OBVIOUS
  <2> HIDE DEF new, h
  <2>2. new = [block |-> h.block, off |-> h.off, len |-> h.len, stride |-> 1, free |-> 0]
    BY <1>2, <2>a DEF Struct
  <2>3. new \in Struct /\ new.len = h.len /\ new.stride = 1 /\ new.free = 0
    BY <1>2, <2>2 DEF Struct
  <2>4. items \in Memory
    BY DEF Memory
  <2>5. IInv' /\ Value(cells[c])' = [i \in 1..h.len |-> items[i]] /\ OthersKept(c)
    BY <1>1, <1>2, <1>3, <2>1, <2>3, <2>4, StoredNew DEF h
  <2>6. [i \in 1..h.len |-> items[i]] = items
    BY <1>3
  <2> QED BY <2>5, <2>6
<1>5. CASE ~IsMarked(h)
  <2> DEFINE t == [a \in DOMAIN s |-> IF \E i \in 1..h.len : a = Address(i)
                                      THEN items[CHOOSE i \in 1..h.len : a = Address(i)]
                                      ELSE s[a]]
  <2>1. Store(c, h, t)
    BY <1>5 DEF Overwrite, CheckCow
  <2>2. /\ h.off \in Nat /\ h.free \in Nat /\ h.stride = 1 /\ Len(s) \in Nat /\ s \in Memory
        /\ h.off + h.len + h.free <= Len(s)
    BY <1>2, <1>5, Flat
  <2>3. DOMAIN s = 1..Len(s) /\ \A a \in 1..Len(s) : s[a] \in Items \cup {Junk}
    BY <2>2, MemoryFields
  <2>4. \A i \in 1..h.len : Address(i) = h.off + i /\ h.off + i \in 1..Len(s)
    <3>1. \A i \in 1..h.len : Address(i) = Place(h, i)
      BY DEF Place
    <3> QED BY <1>2, <1>5, <3>1, Flat
  <2>5. ASSUME NEW i \in 1..h.len
        PROVE  t[h.off + i] = items[i]
    <3>1. (CHOOSE j \in 1..h.len : h.off + i = Address(j)) = i
      <4>1. h.off + i = Address(i)
        BY <2>4
      <4>2. \A j \in 1..h.len : h.off + i = Address(j) => j = i
        BY SMTT(30), <1>2, <2>2, <2>4
      <4> QED BY <4>1, <4>2
    <3>2. h.off + i \in DOMAIN s /\ \E j \in 1..h.len : h.off + i = Address(j)
      BY <2>3, <2>4
    <3> QED BY <3>1, <3>2
  <2>6. t \in Memory /\ Len(t) = Len(s)
    <3>1. ASSUME NEW a \in 1..Len(s)
          PROVE  t[a] \in Items \cup {Junk}
      <4>1. CASE \E i \in 1..h.len : a = Address(i)
        <5>1. (CHOOSE i \in 1..h.len : a = Address(i)) \in 1..h.len
          BY <4>1
        <5> QED BY <1>3, <2>3, <4>1, <5>1
      <4>2. CASE ~\E i \in 1..h.len : a = Address(i)
        BY <2>3, <4>2
      <4> QED BY <4>1, <4>2
    <3>2. t \in [1..Len(s) -> Items \cup {Junk}]
      BY <2>3, <3>1
    <3> HIDE DEF t
    <3> QED BY SMTT(30), <2>2, <3>2 DEF Memory
  <2>7. s = <<>> => t = <<>>
    BY <2>6, <2>2 DEF Memory
  <2> HIDE DEF t, h, s
  <2>8. FitsIn(h, t) /\ Shown(h, t) = items
    BY <1>2, <1>3, <1>5, <2>2, <2>5, <2>6, FlatFits
  <2>9. h.block = NoBlock => t = <<>>
    BY <2>7 DEF Content, s
  <2> QED BY <1>5, <2>1, <2>8, <2>9, StoredInPlace DEF h
<1> QED BY <1>4, <1>5

LEMMA PutStep ==
  ASSUME IInv, NEW c \in Writable, NEW i \in 1..cells[c].len, NEW v \in Items,
         Put(c, i, v), SameStride
  PROVE  IInv' /\ Value(cells[c])' = [Value(cells[c]) EXCEPT ![i] = v] /\ OthersKept(c)
<1> DEFINE items == [Value(cells[c]) EXCEPT ![i] = v]
<1>1. c \in Cells
  BY DEF Writable, Cells, IInv, Typed
<1>2. Value(cells[c]) \in Seq(Items) /\ Len(Value(cells[c])) = cells[c].len
  BY <1>1, ValueShown, ShownItems
<1>3. items \in Seq(Items) /\ Len(items) = cells[c].len
  BY <1>2
<1>4. Overwrite(c, items) /\ UNCHANGED <<refs, loop>>
  BY DEF Put
<1> HIDE DEF items
<1>5. IInv' /\ Value(cells[c])' = items /\ OthersKept(c)
  BY <1>3, <1>4, OverwriteStep
<1> QED BY <1>5 DEF items

LEMMA UpdateStep ==
  ASSUME IInv, NEW c \in Writable, NEW f \in [Items -> Items], Update(c, f), SameStride
  PROVE  /\ IInv' /\ OthersKept(c)
         /\ Value(cells[c])' = [i \in DOMAIN Value(cells[c]) |-> f[Value(cells[c])[i]]]
<1> DEFINE n == cells[c].len
           items == [i \in 1..n |-> f[Item(cells[c], i)]]
<1>1. c \in Cells
  BY DEF Writable, Cells, IInv, Typed
<1>2. Value(cells[c]) \in Seq(Items) /\ DOMAIN Value(cells[c]) = 1..n /\ n \in Nat
      /\ \A i \in 1..n : Value(cells[c])[i] \in Items
  <2>1. /\ FitsIn(cells[c], Content(cells[c]))
        /\ Value(cells[c]) = Shown(cells[c], Content(cells[c]))
    BY <1>1, ValueShown
  <2>2. n \in Nat
    BY <2>1, StructFields DEF FitsIn
  <2>3. /\ Shown(cells[c], Content(cells[c])) \in Seq(Items)
        /\ DOMAIN Shown(cells[c], Content(cells[c])) = 1..n
        /\ \A i \in 1..n : Shown(cells[c], Content(cells[c]))[i] \in Items
    BY <2>1, ShownItems
  <2> QED BY <2>1, <2>2, <2>3
<1>3. \A i \in 1..n : Item(cells[c], i) = Value(cells[c])[i]
  BY DEF Value
<1>4. items \in [1..n -> Items]
  BY <1>2, <1>3
<1>5. items = [i \in DOMAIN Value(cells[c]) |-> f[Value(cells[c])[i]]]
  BY <1>2, <1>3
<1>6. Overwrite(c, items) /\ UNCHANGED <<refs, loop>>
  BY DEF Update
<1> HIDE DEF items
<1>7. items \in Seq(Items) /\ Len(items) = n
  BY <1>2, <1>4
<1>8. IInv' /\ Value(cells[c])' = items /\ OthersKept(c)
  BY <1>6, <1>7, OverwriteStep
<1> QED BY <1>5, <1>8

LEMMA ReorderStep ==
  ASSUME IInv, NEW c \in Writable, NEW place \in Places(cells[c].len), Reorder(c, place), SameStride
  PROVE  /\ IInv' /\ OthersKept(c)
         /\ Value(cells[c])' = [i \in DOMAIN Value(cells[c]) |-> Value(cells[c])[place[i]]]
<1> DEFINE h == cells[c]
           s == Content(h)
           items == [i \in 1..h.len |-> Value(h)[place[i]]]
<1>1. c \in Cells
  BY DEF Writable, Cells, IInv, Typed
<1>2. /\ FitsIn(h, s) /\ h \in Struct /\ h.len \in Nat
      /\ DOMAIN Value(h) = 1..h.len /\ \A i \in 1..h.len : Value(h)[i] \in Items
  <2>1. FitsIn(h, s) /\ Value(h) = Shown(h, s)
    BY <1>1, ValueShown
  <2>2. h \in Struct /\ h.len \in Nat
    BY <2>1, StructFields DEF FitsIn
  <2> HIDE DEF h, s
  <2>3. DOMAIN Shown(h, s) = 1..h.len /\ \A i \in 1..h.len : Shown(h, s)[i] \in Items
    BY <2>1, ShownItems
  <2> QED BY <2>1, <2>2, <2>3
<1>3. place \in [1..h.len -> 1..h.len]
  BY DEF Places
<1>4. items \in [1..h.len -> Items] /\ items = [i \in DOMAIN Value(h) |-> Value(h)[place[i]]]
  BY <1>2, <1>3
<1>5. /\ IF IsMarked(h) \/ ~IsFlat(h)
         THEN StoreNew(c, [h EXCEPT !.stride = 1, !.free = 0], items)
         ELSE Store(c, h, Copied(s, h.off, items))
      /\ UNCHANGED <<refs, loop>>
  BY DEF Reorder
<1>i. h = cells[c]
  OBVIOUS
<1>s. s = Content(h)
  OBVIOUS
<1> HIDE DEF h, s, items
<1>6. items \in Seq(Items) /\ Len(items) = h.len /\ DOMAIN items = 1..h.len
  BY <1>2, <1>4
<1>7. CASE IsMarked(h) \/ ~IsFlat(h)
  <2> DEFINE new == [h EXCEPT !.stride = 1, !.free = 0]
  <2>1. StoreNew(c, new, items)
    BY <1>5, <1>7
  <2>a. new = [h EXCEPT !.stride = 1, !.free = 0]
    OBVIOUS
  <2> HIDE DEF new
  <2>2. new = [block |-> h.block, off |-> h.off, len |-> h.len, stride |-> 1, free |-> 0]
    BY <1>2, <2>a DEF Struct
  <2>3. new \in Struct /\ new.len = h.len /\ new.stride = 1 /\ new.free = 0
    BY <1>2, <2>2 DEF Struct
  <2>4. items \in Memory /\ \A i \in 1..h.len : items[i] \in Items
    BY <1>4, <1>6 DEF Memory
  <2>5. IInv' /\ Value(cells[c])' = [i \in 1..h.len |-> items[i]] /\ OthersKept(c)
    BY <1>1, <1>2, <1>5, <1>6, <2>1, <2>3, <2>4, StoredNew
  <2>6. [i \in 1..h.len |-> items[i]] = items
    BY <1>6
  <2> QED BY <1>4, <1>i, <2>5, <2>6
<1>8. CASE ~IsMarked(h) /\ IsFlat(h)
  <2> DEFINE t == Copied(s, h.off, items)
  <2>1. Store(c, h, t)
    BY <1>5, <1>8
  <2>2. /\ h.off \in Nat /\ h.free \in Nat /\ h.stride = 1 /\ Len(s) \in Nat /\ s \in Memory
        /\ h.off + h.len + h.free <= Len(s)
    BY <1>2, <1>8, Flat
  <2>3. DOMAIN s = 1..Len(s) /\ \A a \in 1..Len(s) : s[a] \in Items \cup {Junk}
    BY <2>2, MemoryFields
  <2>5. \A i \in 1..h.len : t[h.off + i] = items[i]
    <3> SUFFICES ASSUME NEW i \in 1..h.len
                 PROVE  t[h.off + i] = items[i]
      OBVIOUS
    <3>1. h.off + i <= Len(s) /\ i \in 1..Len(items)
      BY <1>2, <1>6, <2>2
    <3> QED BY <1>6, <2>2, <3>1, CopiedMemory
  <2> HIDE DEF t
  <2>6. t \in Memory /\ Len(t) = Len(s)
    BY <1>6, <2>2, CopiedMemory DEF t
  <2>7. FitsIn(h, t) /\ Shown(h, t) = items
    BY <1>2, <1>6, <1>8, <2>2, <2>5, <2>6, FlatFits
  <2>8. h.block = NoBlock => t = <<>>
    BY <1>s, <2>6 DEF Content, Memory
  <2> QED BY <1>4, <1>5, <1>8, <1>i, <2>1, <2>7, <2>8, StoredInPlace
<1> QED BY <1>7, <1>8

LEMMA Joined ==
  ASSUME NEW S, NEW a \in Seq(S), NEW b \in Seq(S)
  PROVE  /\ a \o b \in Seq(S) /\ Len(a \o b) = Len(a) + Len(b)
         /\ \A j \in 1..Len(a) : (a \o b)[j] = a[j]
         /\ \A j \in 1..Len(b) : (a \o b)[Len(a) + j] = b[j]
OBVIOUS

(* The same, the length of the first part given. *)
LEMMA JoinedAt ==
  ASSUME NEW a \in Seq(Items), NEW b \in Seq(Items), NEW n, Len(a) = n
  PROVE  /\ a \o b \in Seq(Items) /\ Len(a \o b) = n + Len(b)
         /\ \A j \in 1..n : (a \o b)[j] = a[j]
         /\ \A j \in 1..Len(b) : (a \o b)[n + j] = b[j]
OBVIOUS

LEMMA CutOut ==
  ASSUME NEW S, NEW v \in Seq(S), NEW i \in 1..Len(v) + 1, NEW k \in 0..Len(v), k >= i - 1
  PROVE  /\ SubSeq(v, i, k) \in Seq(S) /\ Len(SubSeq(v, i, k)) = k - i + 1
         /\ \A j \in 1..k - i + 1 : SubSeq(v, i, k)[j] = v[j + i - 1]
<1>1. Len(v) \in Nat /\ DOMAIN v = 1..Len(v) /\ \A j \in 1..Len(v) : v[j] \in S
  OBVIOUS
<1>2. i \in Int /\ k \in Int /\ k - i + 1 \in Nat
  BY <1>1
<1>3. SubSeq(v, i, k) = [j \in 1..k - i + 1 |-> v[i + j - 1]]
  BY <1>1, <1>2
<1>4. \A j \in 1..k - i + 1 : i + j - 1 \in 1..Len(v) /\ i + j - 1 = j + i - 1
  BY <1>1, <1>2
<1>5. SubSeq(v, i, k) \in [1..k - i + 1 -> S]
  BY <1>1, <1>3, <1>4
<1>6. SubSeq(v, i, k) \in Seq(S) /\ Len(SubSeq(v, i, k)) = k - i + 1
  BY <1>2, <1>5
<1> QED BY <1>3, <1>4, <1>6

LEMMA InsertedItems ==
  ASSUME NEW v \in Seq(Items), NEW s \in Seq(Items), NEW i \in 1..Len(v) + 1
  PROVE  /\ Abstract!Inserted(v, i, s) \in Seq(Items)
         /\ Len(Abstract!Inserted(v, i, s)) = Len(v) + Len(s)
         /\ i = Len(v) + 1 => Abstract!Inserted(v, i, s) = v \o s
<1> DEFINE before == SubSeq(v, 1, i - 1)
           after == SubSeq(v, i, Len(v))
<1>0. Len(v) \in Nat /\ i \in Nat /\ i - 1 \in 0..Len(v) /\ Len(s) \in Nat
  OBVIOUS
<1>1. before \in Seq(Items) /\ Len(before) = i - 1
  BY <1>0, CutOut
<1>2. after \in Seq(Items) /\ Len(after) = Len(v) - i + 1
  BY <1>0, CutOut
<1>3. Abstract!Inserted(v, i, s) = (before \o s) \o after
  BY DEF Abstract!Inserted
<1>4. i = Len(v) + 1 => before = v /\ after = <<>>
  BY <1>0
<1> HIDE DEF before, after
<1>5. before \o s \in Seq(Items) /\ Len(before \o s) = i - 1 + Len(s)
  BY <1>1, Joined
<1>6. (before \o s) \o after \in Seq(Items) /\ Len((before \o s) \o after) = Len(v) + Len(s)
  <2>1. /\ (before \o s) \o after \in Seq(Items)
        /\ Len((before \o s) \o after) = Len(before \o s) + Len(after)
    BY <1>2, <1>5, Joined
  <2> QED BY <1>0, <1>2, <1>5, <2>1
<1>7. (v \o s) \o <<>> = v \o s
  OBVIOUS
<1> QED BY <1>3, <1>4, <1>6, <1>7

LEMMA RemovedItems ==
  ASSUME NEW v \in Seq(Items), NEW i \in 1..Len(v), NEW n \in 1..Len(v), i + n <= Len(v) + 1
  PROVE  /\ Abstract!Removed(v, i, n) \in Seq(Items)
         /\ Len(Abstract!Removed(v, i, n)) = Len(v) - n
         /\ \A j \in 1..Len(v) - n : Abstract!Removed(v, i, n)[j] = v[IF j < i THEN j ELSE j + n]
<1> DEFINE before == SubSeq(v, 1, i - 1)
           after == SubSeq(v, i + n, Len(v))
<1>0. /\ Len(v) \in Nat /\ i \in Nat /\ n \in Nat /\ i - 1 \in 0..Len(v)
      /\ i + n \in 1..Len(v) + 1 /\ i >= 1 /\ n >= 1
  OBVIOUS
<1>1. /\ before \in Seq(Items) /\ Len(before) = i - 1
      /\ \A j \in 1..i - 1 : before[j] = v[j]
  BY <1>0, CutOut
<1>2. /\ after \in Seq(Items) /\ Len(after) = Len(v) - (i + n) + 1
      /\ \A j \in 1..Len(v) - (i + n) + 1 : after[j] = v[j + (i + n) - 1]
  BY <1>0, CutOut
<1>3. Abstract!Removed(v, i, n) = before \o after
  BY DEF Abstract!Removed
<1> HIDE DEF before, after
<1>4. /\ before \o after \in Seq(Items) /\ Len(before \o after) = Len(v) - n
      /\ \A j \in 1..i - 1 : (before \o after)[j] = before[j]
      /\ \A j \in 1..Len(v) - (i + n) + 1 : (before \o after)[i - 1 + j] = after[j]
  BY SMTT(30), <1>0, <1>1, <1>2, Joined
<1>5. ASSUME NEW j \in 1..Len(v) - n
      PROVE  (before \o after)[j] = v[IF j < i THEN j ELSE j + n]
  <2>1. CASE j < i
    BY <1>0, <1>1, <1>4, <2>1
  <2>2. CASE j >= i
    <3>1. /\ j - i + 1 \in 1..Len(v) - (i + n) + 1 /\ i - 1 + (j - i + 1) = j
          /\ (j - i + 1) + (i + n) - 1 = j + n /\ ~(j < i)
      BY <1>0, <2>2
    <3> QED BY <1>2, <1>4, <3>1
  <2>3. j < i \/ j >= i
    BY <1>0
  <2> QED BY <2>1, <2>2, <2>3
<1> QED BY <1>3, <1>4, <1>5

(* The struct of an array that got longer or shorter. *)
Resize(h, l, f) == [h EXCEPT !.len = l, !.free = f]

LEMMA Resized ==
  ASSUME NEW h \in Struct, NEW l \in 0..MaxLen, NEW f \in Nat \cup {-1}
  PROVE  /\ Resize(h, l, f) \in Struct /\ Resize(h, l, f).len = l /\ Resize(h, l, f).free = f
         /\ Resize(h, l, f).block = h.block /\ Resize(h, l, f).off = h.off
         /\ Resize(h, l, f).stride = h.stride
<1> DEFINE new == Resize(h, l, f)
<1>1. new = [h EXCEPT !.len = l, !.free = f]
  BY DEF Resize
<1> HIDE DEF new
<1>2. new = [block |-> h.block, off |-> h.off, len |-> l, stride |-> h.stride, free |-> f]
  BY <1>1 DEF Struct
<1>3. /\ new \in Struct /\ new.len = l /\ new.free = f /\ new.block = h.block
      /\ new.off = h.off /\ new.stride = h.stride
  BY <1>2 DEF Struct
<1> QED BY <1>3 DEF new

(* A copy of items in a new block, with room behind them. *)
LEMMA StoredWithRoom ==
  ASSUME IInv, NEW c \in Cells, NEW h \in Struct, h.stride = 1, NEW w \in Seq(Items),
         Len(w) = h.len, NEW n \in Nat, ~IsMarked(h) => h.free <= n,
         StoreNew(c, h, w \o Junks(n)), UNCHANGED <<refs, loop>>, SameStride
  PROVE  IInv' /\ Value(cells[c])' = w /\ OthersKept(c)
<1> DEFINE t == w \o Junks(n)
<1>1. h.len \in Nat /\ (~IsMarked(h) => h.free \in Nat)
  BY StructFields
<1>2. Junks(n) \in Memory /\ Len(Junks(n)) = n /\ w \in Memory
  <2>1. Junks(n) \in [1..n -> Items \cup {Junk}]
    BY DEF Junks
  <2> QED BY <2>1 DEF Memory
<1>3. t \in Memory /\ Len(t) = h.len + n /\ \A j \in 1..h.len : t[j] = w[j]
  <2>1. /\ w \in Seq(Items \cup {Junk}) /\ Junks(n) \in Seq(Items \cup {Junk})
        /\ Len(w) = h.len
    BY <1>2 DEF Memory
  <2>2. /\ t \in Seq(Items \cup {Junk}) /\ Len(t) = Len(w) + Len(Junks(n))
        /\ \A j \in 1..Len(w) : t[j] = w[j]
    BY <2>1, Joined
  <2> HIDE DEF t
  <2> QED BY <1>2, <2>1, <2>2 DEF Memory
<1>4. DOMAIN w = 1..h.len /\ \A j \in 1..h.len : w[j] \in Items
  OBVIOUS
<1>5. StoreNew(c, h, t)
  OBVIOUS
<1> HIDE DEF t
<1>6. h.len <= Len(t) /\ (~IsMarked(h) => h.len + h.free <= Len(t))
  BY <1>1, <1>3
<1>7. IInv' /\ Value(cells[c])' = [j \in 1..h.len |-> t[j]] /\ OthersKept(c)
  BY <1>3, <1>4, <1>5, <1>6, StoredNew
<1>8. [j \in 1..h.len |-> t[j]] = w
  BY <1>3, <1>4
<1> QED BY <1>7, <1>8

(* What array_insert_all does in place at the end of an array. *)
LEMMA AppendedMemory ==
  ASSUME NEW h, NEW m, FitsIn(h, m), ~IsMarked(h), NEW s \in Seq(Items), Len(s) <= h.free,
         NEW new \in Struct, new.len = h.len + Len(s), new.free = h.free - Len(s),
         new.off = h.off, new.stride = 1, NEW t \in Memory, Len(t) = Len(m),
         \A j \in 1..Len(s) : (h.off + h.len) + j <= Len(m) => t[(h.off + h.len) + j] = s[j],
         \A a \in 1..Len(m) : a <= h.off + h.len => t[a] = m[a]
  PROVE  FitsIn(new, t) /\ Shown(new, t) = Shown(h, m) \o s
<1> DEFINE v == Shown(h, m)
           w == v \o s
<1>1. /\ h \in Struct /\ m \in Memory /\ h.off \in Nat /\ h.len \in Nat /\ h.free \in Nat
      /\ h.stride = 1 /\ Len(m) \in Nat /\ h.off + h.len + h.free <= Len(m)
      /\ \A j \in 1..h.len : v[j] = m[h.off + j]
  BY Flat
<1>2. v \in Seq(Items) /\ Len(v) = h.len /\ Len(s) \in Nat
  BY ShownItems
<1>3. ~IsMarked(new)
  BY <1>1, <1>2 DEF IsMarked
<1> HIDE DEF v
<1>4. /\ w \in Seq(Items) /\ Len(w) = h.len + Len(s)
      /\ \A j \in 1..h.len : w[j] = v[j]
      /\ \A j \in 1..Len(s) : w[h.len + j] = s[j]
  BY SMTT(30), <1>2, JoinedAt
<1> HIDE DEF w
<1>5. ASSUME NEW j \in 1..new.len
      PROVE  t[new.off + j] = w[j]
  <2>1. CASE j <= h.len
    <3>0. j \in Nat /\ j >= 1 /\ j <= h.len
      BY <1>1, <1>2, <2>1
    <3>1. j \in 1..h.len /\ h.off + j <= h.off + h.len /\ h.off + j \in 1..Len(m)
      BY SMTT(30), <1>1, <3>0
    <3> QED BY <1>1, <1>2, <1>4, <3>1
  <2>2. CASE j > h.len
    <3>1. PICK k \in 1..Len(s) : j = h.len + k
      <4>1. j - h.len \in 1..Len(s) /\ j = h.len + (j - h.len)
        BY <1>1, <1>2, <2>2
      <4> QED BY <4>1
    <3>2. /\ h.off + (h.len + k) = (h.off + h.len) + k
          /\ (h.off + h.len) + k <= Len(m)
      BY SMTT(30), <1>1, <1>2
    <3> QED BY <1>2, <1>4, <3>1, <3>2
  <2> QED BY <1>1, <1>2, <2>1, <2>2
<1>6. new.off + new.len + new.free <= Len(t) /\ new.off >= 0 /\ Len(w) = new.len
  BY SMTT(30), <1>1, <1>2, <1>4
<1>7. FitsIn(new, t) /\ Shown(new, t) = w
  BY <1>3, <1>4, <1>5, <1>6, FlatFits
<1> QED BY <1>7 DEF v, w

LEMMA InsertStep ==
  ASSUME IInv, NEW c \in Writable, NEW i \in 1..cells[c].len + 1, NEW s \in Seq(Items), s # <<>>,
         NEW slack \in Nat, slack >= Len(s), InsertsWell(cells[c], i, Len(s)),
         Insert(c, i, s, slack), SameStride
  PROVE  /\ IInv' /\ OthersKept(c)
         /\ Value(cells[c])' = Abstract!Inserted(Value(cells[c]), i, s)
<1> DEFINE h == cells[c]
           v == Value(h)
           m == Content(h)
           n == Len(s)
           w == Abstract!Inserted(v, i, s)
<1>1. c \in Cells
  BY DEF Writable, Cells, IInv, Typed
<1>2. UNCHANGED <<refs, loop>>
  BY DEF Insert
<1>3. FitsIn(h, m) /\ v = Shown(h, m) /\ h \in Struct
  BY <1>1, ValueShown DEF FitsIn
<1>4. v \in Seq(Items) /\ Len(v) = h.len
  BY <1>3, ShownItems
<1>5. h.len \in Nat /\ n \in Nat /\ n > 0 /\ i \in Nat
  BY <1>3, StructFields
<1>6. w \in Seq(Items) /\ Len(w) = h.len + n /\ (i = h.len + 1 => w = v \o s)
  <2> HIDE DEF v
  <2>1. i \in 1..Len(v) + 1
    BY <1>4
  <2>2. w \in Seq(Items) /\ Len(w) = Len(v) + Len(s) /\ (i = Len(v) + 1 => w = v \o s)
    BY <1>4, <2>1, InsertedItems
  <2> QED BY <1>4, <2>2
<1>7. h.stride = 1 /\ h.len + n <= MaxLen
  BY DEF InsertsWell, IsFlat, Insert
<1>8. h.len + n \in 0..MaxLen
  BY <1>5, <1>7, ArrayCowAssumption
<1>9. CASE h.block = NoBlock \/ InsertCopies(h, n)
  <2> DEFINE room == IF h.block = NoBlock THEN n ELSE slack
             new == Resize(h, h.len + n, room - n)
  <2>1. room - n \in Nat
    BY <1>5
  <2>2. StoreNew(c, new, w \o Junks(room - n))
    BY <1>4, <1>9 DEF Insert, Abstract!Inserted, Resize
  <2> HIDE DEF room, w
  <2>3. new \in Struct /\ new.len = h.len + n /\ new.free = room - n /\ new.stride = 1
    <3>1. h \in Struct /\ room - n \in Nat \cup {-1}
      BY <1>3, <2>1
    <3> HIDE DEF h, n
    <3> QED BY <1>7, <1>8, <3>1, Resized
  <2> HIDE DEF new
  <2>4. ~IsMarked(new) => new.free <= room - n
    BY <2>1, <2>3
  <2>5. IInv' /\ Value(cells[c])' = w /\ OthersKept(c)
    BY <1>1, <1>2, <1>6, <2>1, <2>2, <2>3, <2>4, StoredWithRoom
  <2> QED BY <2>5 DEF w
<1>10. CASE h.block # NoBlock /\ ~InsertCopies(h, n)
  <2> DEFINE new == Resize(h, h.len + n, h.free - n)
             t == Copied(m, h.off + h.len, s)
  <2>1. i = h.len + 1 /\ ~(h.free < n)
    BY <1>10 DEF InsertsWell, InsertCopies
  <2>2. h.off \in Int /\ h.free \in Int
    BY <1>3, StructFields
  <2>3. ~IsMarked(h) /\ h.off + i - 1 = h.off + h.len /\ n <= h.free
    BY <1>5, <2>1, <2>2 DEF IsMarked
  <2>4. Store(c, new, t)
    BY <1>10, <2>1, <2>3 DEF Insert, Resize
  <2>5. h.free - n \in Nat /\ h.off + h.len \in Nat /\ m \in Memory
    BY SMTT(30), <1>3, <1>5, <2>2, <2>3, Flat
  <2>6. /\ new \in Struct /\ new.len = h.len + n /\ new.free = h.free - n
        /\ new.block = h.block /\ new.off = h.off /\ new.stride = 1
    <3>1. h \in Struct /\ h.free - n \in Nat \cup {-1}
      BY <1>3, <2>5
    <3> HIDE DEF h, n
    <3> QED BY <1>7, <1>8, <3>1, Resized
  <2>7. /\ t \in Memory /\ Len(t) = Len(m)
        /\ \A j \in 1..n : (h.off + h.len) + j <= Len(m) => t[(h.off + h.len) + j] = s[j]
        /\ \A a \in 1..Len(m) : a <= h.off + h.len => t[a] = m[a]
    BY <2>5, CopiedMemory
  <2> HIDE DEF new, t, w
  <2>8. FitsIn(new, t) /\ Shown(new, t) = v \o s
    <3> HIDE DEF h, m, v
    <3>1. FitsIn(h, m) /\ ~IsMarked(h) /\ Len(s) <= h.free /\ s \in Seq(Items)
      BY <1>3, <2>3
    <3>2. /\ new \in Struct /\ new.len = h.len + Len(s) /\ new.free = h.free - Len(s)
          /\ new.off = h.off /\ new.stride = 1
      BY <2>6
    <3>3. FitsIn(new, t) /\ Shown(new, t) = Shown(h, m) \o s
      BY ZenonT(30), <2>7, <3>1, <3>2, AppendedMemory
    <3> QED BY <1>3, <3>3
  <2>9. IInv' /\ Value(cells[c])' = v \o s /\ OthersKept(c)
    BY <1>2, <1>10, <2>3, <2>4, <2>6, <2>8, StoredInPlace
  <2> QED BY <1>6, <2>1, <2>9 DEF w
<1> QED BY <1>9, <1>10

LEMMA SameItems ==
  ASSUME NEW a \in Seq(Items), NEW b \in Seq(Items), Len(a) = Len(b),
         \A j \in 1..Len(a) : a[j] = b[j]
  PROVE  a = b
OBVIOUS

(* An array that shows fewer items of the same memory. *)
LEMMA ShortenedFits ==
  ASSUME NEW h, NEW m, FitsIn(h, m), NEW new \in Struct, new.len <= h.len,
         new.off = h.off, new.stride = h.stride, IsMarked(new) <=> IsMarked(h),
         ~IsMarked(h) => new.len + new.free = h.len + h.free
  PROVE  /\ FitsIn(new, m)
         /\ \A j \in 1..new.len : j \in 1..h.len /\ Shown(new, m)[j] = Shown(h, m)[j]
<1>1. h \in Struct /\ h.len \in Nat /\ new.len \in Nat /\ h.off \in Int /\ m \in Memory
      /\ Len(m) \in Nat
  BY StructFields, MemoryFields DEF FitsIn
<1>2. \A j \in 1..new.len : j \in 1..h.len /\ Place(new, j) = Place(h, j)
  BY <1>1 DEF Place
<1>3. ~IsMarked(h) => h.free \in Nat /\ new.free \in Nat
  BY <1>1, StructFields
<1>4. ~IsMarked(new) => new.stride = 1 /\ new.off >= 0 /\ new.off + new.len + new.free <= Len(m)
  BY <1>1, <1>3 DEF FitsIn
<1>5. FitsIn(new, m)
  BY <1>1, <1>2, <1>4 DEF FitsIn
<1> QED BY <1>2, <1>5 DEF Shown

LEMMA Shifted ==
  ASSUME NEW a \in Int, NEW i \in Int, NEW j \in Int
  PROVE  (a + i - 1) + (j - i + 1) = a + j /\ (a + i) + (j - i + 1) = a + (j + 1)
OBVIOUS

(* What array_remove does in place, for one item. *)
LEMMA RemovedMemory ==
  ASSUME NEW h, NEW m, FitsIn(h, m), ~IsMarked(h), NEW i \in 1..h.len,
         NEW new \in Struct, new.len = h.len - 1, new.free = h.free + 1,
         new.off = h.off, new.stride = 1, NEW t \in Memory, Len(t) = Len(m),
         \A j \in 1..h.len - i : (h.off + i - 1) + j <= Len(m) /\ (h.off + i) + j <= Len(m)
            => t[(h.off + i - 1) + j] = m[(h.off + i) + j],
         \A a \in 1..Len(m) : a <= h.off + i - 1 => t[a] = m[a],
         NEW w \in Seq(Items), Len(w) = h.len - 1,
         \A j \in 1..h.len - 1 : w[j] = Shown(h, m)[IF j < i THEN j ELSE j + 1]
  PROVE  FitsIn(new, t) /\ Shown(new, t) = w
<1>1. /\ h \in Struct /\ m \in Memory /\ h.off \in Nat /\ h.len \in Nat /\ h.free \in Nat
      /\ Len(m) \in Nat /\ h.off + h.len + h.free <= Len(m)
  BY Flat
<1>2. \A j \in 1..h.len : Shown(h, m)[j] = m[h.off + j]
  BY Flat
<1>3. i \in Nat /\ i >= 1 /\ i <= h.len
  BY <1>1
<1>4. ~IsMarked(new)
  BY <1>1 DEF IsMarked
<1>5. ASSUME NEW j \in 1..new.len
      PROVE  t[new.off + j] = w[j]
  <2>0. j \in Nat /\ j >= 1 /\ j <= h.len - 1 /\ j \in 1..h.len - 1
    BY <1>1
  <2>1. CASE j < i
    <3>1. j \in 1..h.len /\ h.off + j <= h.off + i - 1 /\ h.off + j \in 1..Len(m)
      BY SMTT(30), <1>1, <1>3, <2>0, <2>1
    <3>2. w[j] = Shown(h, m)[j]
      BY <2>0, <2>1
    <3>3. t[h.off + j] = m[h.off + j]
      BY <3>1
    <3> QED BY <1>2, <3>1, <3>2, <3>3
  <2>2. CASE ~(j < i)
    <3> DEFINE k == j - i + 1
    <3>1. /\ k \in 1..h.len - i /\ (h.off + i - 1) + k = h.off + j
          /\ (h.off + i) + k = h.off + (j + 1) /\ j + 1 \in 1..h.len
      <4>1. i \in Int /\ j \in Int /\ h.off \in Int /\ h.len \in Int
        BY <1>1, <1>3, <2>0
      <4>2. k \in 1..h.len - i /\ j + 1 \in 1..h.len
        BY <1>3, <2>0, <2>2, <4>1
      <4> QED BY <4>1, <4>2, Shifted
    <3>2. h.off + j <= Len(m) /\ h.off + (j + 1) <= Len(m)
      BY SMTT(30), <1>1, <2>0
    <3> HIDE DEF k
    <3>3. t[(h.off + i - 1) + k] = m[(h.off + i) + k]
      <4>1. (h.off + i - 1) + k <= Len(m) /\ (h.off + i) + k <= Len(m)
        BY <3>1, <3>2
      <4> QED BY <3>1, <4>1
    <3>4. w[j] = Shown(h, m)[j + 1]
      BY <2>0, <2>2
    <3> QED BY <1>2, <3>1, <3>3, <3>4
  <2> QED BY <2>1, <2>2
<1>6. new.off + new.len + new.free <= Len(t) /\ new.off >= 0 /\ Len(w) = new.len
  BY SMTT(30), <1>1
<1> QED BY <1>4, <1>5, <1>6, FlatFits

LEMMA RemoveStep ==
  ASSUME IInv, NEW c \in Writable, NEW i \in 1..cells[c].len, NEW n \in 1..cells[c].len,
         i + n <= cells[c].len + 1, RemovesWell(cells[c], i, n), Remove(c, i, n), SameStride
  PROVE  /\ IInv' /\ OthersKept(c)
         /\ Value(cells[c])' = Abstract!Removed(Value(cells[c]), i, n)
<1> DEFINE h == cells[c]
           v == Value(h)
           m == Content(h)
           w == Abstract!Removed(v, i, n)
           less == [h EXCEPT !.len = @ - n]
<1>1. c \in Cells
  BY DEF Writable, Cells, IInv, Typed
<1>2. UNCHANGED <<refs, loop>>
  BY DEF Remove
<1>3. FitsIn(h, m) /\ v = Shown(h, m) /\ h \in Struct
  BY <1>1, ValueShown DEF FitsIn
<1>4. v \in Seq(Items) /\ Len(v) = h.len
  BY <1>3, ShownItems
<1>5. /\ h.len \in Nat /\ h.len <= MaxLen /\ h.free \in Nat \cup {-1} /\ h.off \in Int
      /\ (~IsMarked(h) => h.free \in Nat)
  BY <1>3, StructFields
<1>6. i \in Nat /\ n \in Nat /\ i >= 1 /\ n >= 1 /\ i + n <= h.len + 1 /\ h.len - n \in 0..MaxLen
  BY <1>5, ArrayCowAssumption
<1>7. /\ w \in Seq(Items) /\ Len(w) = h.len - n
      /\ \A j \in 1..h.len - n : w[j] = v[IF j < i THEN j ELSE j + n]
  <2> HIDE DEF v
  <2>1. i \in 1..Len(v) /\ n \in 1..Len(v) /\ i + n <= Len(v) + 1
    BY <1>4
  <2>2. /\ w \in Seq(Items) /\ Len(w) = Len(v) - n
        /\ \A j \in 1..Len(v) - n : w[j] = v[IF j < i THEN j ELSE j + n]
    BY <1>4, <2>1, RemovedItems
  <2> QED BY <1>4, <2>2
<1>r. /\ i + n > h.len
           => Store(c, [less EXCEPT !.free = IF IsMarked(h) THEN @ ELSE @ + n], m)
      /\ i + n <= h.len /\ RemoveCopies(h)
           => StoreNew(c, [less EXCEPT !.free = 0],
                (SubSeq(v, 1, i - 1) \o SubSeq(v, i + n, h.len)) \o Junks(n - 1))
      /\ ~(i + n > h.len) /\ ~(i + n <= h.len /\ RemoveCopies(h))
           => Store(c, [less EXCEPT !.free = @ + n],
                Moved(m, h.off + i - 1, h.off + i - 1 + n, MoveLength(h, i, n)))
  <2>1. ASSUME i + n > h.len
        PROVE  Store(c, [less EXCEPT !.free = IF IsMarked(h) THEN @ ELSE @ + n], m)
    <3>1. ~(i + n <= h.len)
      BY <1>5, <1>6, <2>1
    <3> QED BY <2>1, <3>1, Zenon DEF Remove
  <2>2. ASSUME i + n <= h.len, RemoveCopies(h)
        PROVE  StoreNew(c, [less EXCEPT !.free = 0],
                (SubSeq(v, 1, i - 1) \o SubSeq(v, i + n, h.len)) \o Junks(n - 1))
    <3>1. ~(i + n > h.len)
      BY <1>5, <1>6, <2>2
    <3> QED BY <2>2, <3>1, Zenon DEF Remove
  <2>3. ASSUME ~(i + n > h.len), ~(i + n <= h.len /\ RemoveCopies(h))
        PROVE  Store(c, [less EXCEPT !.free = @ + n],
                Moved(m, h.off + i - 1, h.off + i - 1 + n, MoveLength(h, i, n)))
    BY <2>3, Zenon DEF Remove
  <2> QED BY <2>1, <2>2, <2>3
<1>8. /\ [less EXCEPT !.free = IF IsMarked(h) THEN @ ELSE @ + n]
           = Resize(h, h.len - n, IF IsMarked(h) THEN h.free ELSE h.free + n)
      /\ [less EXCEPT !.free = 0] = Resize(h, h.len - n, 0)
      /\ [less EXCEPT !.free = @ + n] = Resize(h, h.len - n, h.free + n)
  <2>1. less.free = h.free
    BY <1>3 DEF Struct
  <2> QED BY <2>1 DEF Resize
<1>9. CASE i + n > h.len
  <2> DEFINE f == IF IsMarked(h) THEN h.free ELSE h.free + n
             new == Resize(h, h.len - n, f)
  <2>1. Store(c, new, m)
    BY <1>r, <1>8, <1>9
  <2>2. f \in Nat \cup {-1}
    BY <1>5, <1>6
  <2>3. /\ new \in Struct /\ new.len = h.len - n /\ new.free = f
        /\ new.block = h.block /\ new.off = h.off /\ new.stride = h.stride
    <3> HIDE DEF h, f
    <3> QED BY <1>3, <1>6, <2>2, Resized
  <2> HIDE DEF new
  <2>4. IsMarked(new) <=> IsMarked(h)
    BY <1>5, <1>6, <2>3 DEF IsMarked
  <2>5. new.len <= h.len /\ (~IsMarked(h) => new.len + new.free = h.len + h.free)
    BY <1>5, <1>6, <2>3
  <2> HIDE DEF f
  <2>6. /\ FitsIn(new, m)
        /\ \A j \in 1..new.len : j \in 1..h.len /\ Shown(new, m)[j] = Shown(h, m)[j]
    BY <1>3, <2>3, <2>4, <2>5, ShortenedFits
  <2>7. Shown(new, m) = w
    <3>1. Shown(new, m) \in Seq(Items) /\ Len(Shown(new, m)) = h.len - n
      BY <2>3, <2>6, ShownItems
    <3>2. ASSUME NEW j \in 1..h.len - n
          PROVE  Shown(new, m)[j] = w[j]
      <4>1. j < i
        BY <1>5, <1>6, <1>9
      <4> QED BY <1>3, <1>7, <2>3, <2>6, <4>1
    <3> HIDE DEF w, h, v
    <3> QED BY <1>7, <3>1, <3>2, SameItems
  <2>8. CASE IsMarked(h)
    <3>1. m = Content(new)
      BY <2>3 DEF Content
    <3> QED BY <1>1, <1>2, <2>1, <2>3, <2>4, <2>6, <2>7, <2>8, <3>1, StoredCopy
  <2>9. CASE ~IsMarked(h)
    <3>1. new.block = NoBlock => m = <<>>
      BY <2>3 DEF Content
    <3> QED BY <1>1, <1>2, <2>1, <2>3, <2>6, <2>7, <2>9, <3>1, StoredInPlace
  <2> QED BY <2>8, <2>9
<1>10. CASE i + n <= h.len /\ RemoveCopies(h)
  <2> DEFINE new == Resize(h, h.len - n, 0)
  <2>1. StoreNew(c, new, w \o Junks(n - 1))
    BY <1>r, <1>4, <1>8, <1>10 DEF Abstract!Removed
  <2>2. h.stride = 1
    BY <1>5, <1>6, <1>10 DEF RemovesWell, IsFlat
  <2>3. new \in Struct /\ new.len = h.len - n /\ new.free = 0 /\ new.stride = 1
    <3>1. 0 \in Nat \cup {-1}
      OBVIOUS
    <3> HIDE DEF h
    <3> QED BY <1>3, <1>6, <2>2, <3>1, Resized
  <2>4. n - 1 \in Nat /\ new.free <= n - 1
    BY <1>6, <2>3
  <2> HIDE DEF w, new
  <2>5. IInv' /\ Value(cells[c])' = w /\ OthersKept(c)
    BY <1>1, <1>2, <1>7, <2>1, <2>3, <2>4, StoredWithRoom
  <2> QED BY <2>5 DEF w
<1>11. CASE i + n <= h.len /\ ~RemoveCopies(h)
  <2>1. n = 1 /\ ~IsMarked(h) /\ h.stride = 1
    BY <1>5, <1>6, <1>11 DEF RemovesWell, RemoveCopies, IsFlat
  <2> DEFINE new == Resize(h, h.len - 1, h.free + 1)
             t == Moved(m, h.off + i - 1, h.off + i, h.len - i)
  <2>2. Store(c, new, t)
    <3>1. h.off + i - 1 + n = h.off + i /\ MoveLength(h, i, n) = h.len - i
      BY <1>5, <1>6, <2>1 DEF MoveLength
    <3>2. ~(i + n > h.len)
      BY <1>5, <1>6, <1>11
    <3>3. Store(c, Resize(h, h.len - n, h.free + n),
                Moved(m, h.off + i - 1, h.off + i - 1 + n, MoveLength(h, i, n)))
      BY <1>r, <1>8, <1>11, <3>2
    <3> QED BY <2>1, <3>1, <3>3
  <2>3. /\ h.free + 1 \in Nat \cup {-1} /\ h.off \in Nat /\ m \in Memory
        /\ h.off + i - 1 \in Nat /\ h.off + i \in Nat /\ h.len - i \in Int
        /\ h.len - 1 \in 0..MaxLen
    <3>1. h.free \in Nat /\ h.off \in Nat /\ m \in Memory
      BY <1>3, <2>1, Flat
    <3> QED BY <1>5, <1>6, <2>1, <3>1
  <2>4. /\ new \in Struct /\ new.len = h.len - 1 /\ new.free = h.free + 1
        /\ new.block = h.block /\ new.off = h.off /\ new.stride = 1
    BY ZenonT(30), <1>3, <2>1, <2>3, Resized
  <2>5. /\ t \in Memory /\ Len(t) = Len(m)
        /\ \A j \in 1..h.len - i : (h.off + i - 1) + j <= Len(m) /\ (h.off + i) + j <= Len(m)
              => t[(h.off + i - 1) + j] = m[(h.off + i) + j]
        /\ \A a \in 1..Len(m) : a <= h.off + i - 1 => t[a] = m[a]
    BY <2>3, MovedMemory
  <2> HIDE DEF new, t, w
  <2>6. /\ w \in Seq(Items) /\ Len(w) = h.len - 1
        /\ \A j \in 1..h.len - 1 : w[j] = Shown(h, m)[IF j < i THEN j ELSE j + 1]
    BY <1>3, <1>7, <2>1
  <2>7. FitsIn(new, t) /\ Shown(new, t) = w
    <3> HIDE DEF h, m, v
    <3>1. i \in 1..h.len
      BY <1>5, <1>6
    <3> QED BY <1>3, <2>1, <2>4, <2>5, <2>6, <3>1, RemovedMemory
  <2>8. new.block = NoBlock => t = <<>>
    BY <2>4, <2>5 DEF Content, Memory
  <2>9. IInv' /\ Value(cells[c])' = w /\ OthersKept(c)
    BY <1>2, <2>1, <2>2, <2>4, <2>7, <2>8, StoredInPlace
  <2> QED BY <2>9 DEF w
<1> QED BY <1>5, <1>6, <1>9, <1>10, <1>11

-----------------------------------------------------------------------------
(* Statements that share memory, and loops.                                *)

LEMMA MarkedStruct ==
  ASSUME NEW h \in Struct
  PROVE  /\ Marked(h) \in Struct /\ IsMarked(Marked(h)) /\ Marked(h).block = h.block
         /\ Marked(h).off = h.off /\ Marked(h).len = h.len /\ Marked(h).stride = h.stride
<1>1. Marked(h) = [block |-> h.block, off |-> h.off, len |-> h.len, stride |-> h.stride, free |-> -1]
  BY DEF Marked, Struct
<1> QED BY <1>1 DEF Struct, IsMarked

(* Who may write to its memory still has it to itself, when no struct is   *)
(* copied that is not marked.                                              *)
LEMMA OwnedMoved ==
  ASSUME IInv, NEW from \in [Cells -> Cells], Writable' \subseteq Cells,
         \A d \in Cells : cells'[d].block = cells[from[d]].block,
         \A e \in Writable' : ~IsMarked(cells'[e])
            => e \in Writable /\ cells'[e] = cells[e] /\ \A d \in Cells \ {e} : from[d] # e,
         loop' # NoLoop => loop # NoLoop /\ loop'.block = loop.block
  PROVE  OwnedOrMarked'
<1> SUFFICES ASSUME NEW e \in Writable', ~IsMarked(cells'[e]), cells'[e].block # NoBlock,
                    Held(cells[e].block, e)'
             PROVE  FALSE
  BY DEF OwnedOrMarked, IsMarked
<1>1. /\ e \in Writable /\ e \in Cells /\ cells'[e] = cells[e]
      /\ \A d \in Cells \ {e} : from[d] # e
  OBVIOUS
<1>2. ~Held(cells[e].block, e)
  BY <1>1 DEF IInv, OwnedOrMarked
<1>3. \/ \E d \in Cells \ {e} : cells'[d].block = cells'[e].block
      \/ loop' # NoLoop /\ loop'.block = cells'[e].block
  BY DEF Held, Cells
<1>4. CASE \E d \in Cells \ {e} : cells'[d].block = cells'[e].block
  <2>1. PICK d \in Cells \ {e} : cells'[d].block = cells'[e].block
    BY <1>4
  <2>2. from[d] \in Cells \ {e} /\ cells[from[d]].block = cells[e].block
    BY <1>1, <2>1
  <2> QED BY <1>2, <2>2 DEF Held
<1>5. CASE loop' # NoLoop /\ loop'.block = cells'[e].block
  BY <1>1, <1>2, <1>5 DEF Held
<1> QED BY <1>3, <1>4, <1>5

LEMMA FetchStep ==
  ASSUME IInv, NEW c \in Cells, NEW p \in Writable, Fetch(c, p), SameStride
  PROVE  IInv' /\ Value(cells[c])' = Value(cells[p]) /\ OthersKept(c)
<1> DEFINE from == [d \in Cells |-> IF d = c THEN p ELSE d]
<1>1. /\ p \in Cells /\ cells \in [Cells -> Struct] /\ Writable \subseteq Cells
      /\ store \in [Blocks -> Memory] /\ Writable' = Writable /\ Cells' = Cells
  BY DEF Writable, Cells, IInv, Typed, Fetch
<1>2. /\ loop' = loop /\ refs' = refs
      /\ cells' = [cells EXCEPT ![p] = Marked(@), ![c] = Marked(cells[p])]
      /\ store' = [b \in Blocks |-> IF b = cells[p].block \/ Held(b, c) THEN store[b] ELSE <<>>]
  BY DEF Fetch
<1>3. Marked(cells[p]) \in Struct /\ IsMarked(Marked(cells[p])) /\ Marked(cells[p]).block = cells[p].block
  BY <1>1, MarkedStruct
<1>4. /\ cells'[c] = Marked(cells[p]) /\ cells'[p] = Marked(cells[p])
      /\ \A d \in Cells : d # c /\ d # p => cells'[d] = cells[d]
      /\ cells' \in [Cells -> Struct]
  BY <1>1, <1>2, <1>3
<1>5. from \in [Cells -> Cells] /\ from[c] = p /\ \A d \in Cells : d # c => from[d] = d
  BY <1>1
<1>6. ASSUME NEW b \in Blocks, b = cells[p].block \/ Held(b, c)
      PROVE  store'[b] = store[b]
  BY <1>2, <1>6
<1>7. store' \in [Blocks -> Memory]
  <2>1. <<>> \in Memory
    BY DEF Memory
  <2> QED BY <1>1, <1>2, <2>1
<1> HIDE DEF from
<1>8. \A d \in Cells : \/ cells'[d] = cells[from[d]]
                       \/ cells'[d] = Marked(cells[from[d]])
  BY <1>4, <1>5
<1>9. \A d \in Cells : cells'[d].block = cells[from[d]].block
  BY <1>3, <1>4, <1>5
<1>10. ASSUME NEW d \in Cells, cells[from[d]].block # NoBlock
       PROVE  store'[cells[from[d]].block] = store[cells[from[d]].block]
  <2>1. cells[from[d]].block \in Blocks
    <3>1. from[d] \in Cells /\ cells[from[d]] \in Struct
      BY <1>1, <1>5
    <3> QED BY <1>10, <3>1, StructFields
  <2>2. CASE d = c
    BY <1>5, <1>6, <2>1, <2>2
  <2>3. CASE d # c
    <3>1. Held(cells[from[d]].block, c)
      BY <1>5, <2>3 DEF Held
    <3> QED BY <1>6, <2>1, <3>1
  <2> QED BY <2>2, <2>3
<1>11. refs' \subseteq Vars /\ loop' \in LoopType \cup {NoLoop}
  BY <1>2 DEF IInv, Typed
<1>12. Typed' /\ AllFit' /\ \A d \in Cells : Value(cells[d])' = Value(cells[from[d]])
  BY <1>1, <1>4, <1>5, <1>7, <1>8, <1>10, <1>11, MovedStructs
<1>13. OwnedOrMarked'
  <2>1. ASSUME NEW e \in Writable', ~IsMarked(cells'[e])
        PROVE  e \in Writable /\ cells'[e] = cells[e] /\ \A d \in Cells \ {e} : from[d] # e
    <3>1. e \in Cells /\ e # c /\ e # p
      BY <1>1, <1>3, <1>4, <2>1
    <3> QED BY <1>1, <1>4, <1>5, <3>1
  <2> QED BY <1>1, <1>2, <1>5, <1>9, <2>1, OwnedMoved
<1>14. LoopInv'
  <2> SUFFICES ASSUME loop # NoLoop
               PROVE  loop.left # <<>> /\ Ahead(loop, cells[loop.cell].stride)'
    BY <1>2 DEF LoopInv
  <2>1. loop.block \in Blocks /\ Held(loop.block, c)
    BY DEF IInv, Typed, LoopType, Held
  <2>2. store'[loop.block] = store[loop.block] /\ cells'[loop.cell].stride = cells[loop.cell].stride
    BY <1>6, <2>1 DEF SameStride
  <2> QED BY ZenonT(30), <1>2, <2>2 DEF IInv, LoopInv, Ahead
<1>15. OthersKept(c)
  BY <1>5, <1>12 DEF OthersKept
<1> QED BY <1>5, <1>12, <1>13, <1>14, <1>15 DEF IInv

LEMMA ReferStep ==
  ASSUME IInv, NEW x \in Referred, Refer(x), SameStride
  PROVE  IInv' /\ \A d \in Cells : Value(cells[d])' = Value(cells[d])
<1> DEFINE from == [d \in Cells |-> d]
<1>1. /\ x \in Vars /\ x \in Cells /\ cells \in [Cells -> Struct] /\ Writable \subseteq Cells
      /\ store \in [Blocks -> Memory] /\ Cells' = Cells /\ refs \subseteq Vars
  BY ArrayCowAssumption DEF Writable, Cells, IInv, Typed
<1>2. /\ loop' = loop /\ refs' = refs \cup {x} /\ store' = store
      /\ cells' = [cells EXCEPT ![x] = Marked(@)]
  BY DEF Refer
<1>3. /\ Marked(cells[x]) \in Struct /\ IsMarked(Marked(cells[x]))
      /\ Marked(cells[x]).block = cells[x].block
  BY <1>1, MarkedStruct
<1>4. /\ cells'[x] = Marked(cells[x]) /\ (\A d \in Cells : d # x => cells'[d] = cells[d])
      /\ cells' \in [Cells -> Struct]
  BY <1>1, <1>2, <1>3
<1>5. from \in [Cells -> Cells] /\ \A d \in Cells : from[d] = d
  OBVIOUS
<1> HIDE DEF from
<1>6. \A d \in Cells : /\ \/ cells'[d] = cells[from[d]]
                          \/ cells'[d] = Marked(cells[from[d]])
                       /\ cells'[d].block = cells[from[d]].block
  BY <1>3, <1>4, <1>5
<1>7. refs' \subseteq Vars /\ loop' \in LoopType \cup {NoLoop}
  BY <1>1, <1>2 DEF IInv, Typed
<1>8. Typed' /\ AllFit' /\ \A d \in Cells : Value(cells[d])' = Value(cells[from[d]])
  BY <1>1, <1>2, <1>4, <1>5, <1>6, <1>7, MovedStructs
<1>9. OwnedOrMarked'
  <2>1. Writable' = Writable \cup {x}
    BY <1>2 DEF Writable
  <2>2. ASSUME NEW e \in Writable', ~IsMarked(cells'[e])
        PROVE  e \in Writable /\ cells'[e] = cells[e] /\ \A d \in Cells \ {e} : from[d] # e
    <3>1. e \in Cells /\ e # x
      BY <1>1, <1>3, <1>4, <2>1, <2>2
    <3> QED BY <1>4, <1>5, <2>1, <3>1
  <2>3. /\ Writable' \subseteq Cells /\ (loop' # NoLoop => loop # NoLoop /\ loop'.block = loop.block)
        /\ \A d \in Cells : cells'[d].block = cells[from[d]].block
    BY <1>1, <1>2, <1>6, <2>1
  <2> QED BY <1>5, <2>2, <2>3, OwnedMoved
<1>10. LoopInv'
  <2>1. loop # NoLoop => cells'[loop.cell].stride = cells[loop.cell].stride
    BY DEF SameStride
  <2> QED BY <1>2, <2>1 DEF IInv, LoopInv, Ahead
<1> QED BY <1>5, <1>8, <1>9, <1>10 DEF IInv

(* c = d and p = @x *)
LEMMA CopyStep ==
  ASSUME IInv, NEW c \in Cells, NEW d \in Cells, IsMarked(cells[d]), NEW h,
         h = cells[d] \/ h = Marked(cells[d]), Store(c, h, Content(cells[d])),
         UNCHANGED <<refs, loop>>, SameStride
  PROVE  IInv' /\ Value(cells[c])' = Value(cells[d]) /\ OthersKept(c)
<1>1. /\ FitsIn(cells[d], Content(cells[d])) /\ cells[d] \in Struct
      /\ Value(cells[d]) = Shown(cells[d], Content(cells[d]))
  BY ValueShown DEF FitsIn
<1>2. /\ h \in Struct /\ IsMarked(h) /\ h.block = cells[d].block
      /\ h.off = cells[d].off /\ h.len = cells[d].len /\ h.stride = cells[d].stride
  BY <1>1, MarkedStruct
<1>3. Content(h) = Content(cells[d])
  BY <1>2 DEF Content
<1>4. /\ Shown(h, Content(h)) = Shown(cells[d], Content(cells[d]))
      /\ FitsIn(h, Content(h))
  <2>1. \A i \in 1..h.len : Place(h, i) = Place(cells[d], i)
    BY <1>2 DEF Place
  <2> QED BY <1>1, <1>2, <1>3, <2>1 DEF FitsIn, Shown
<1> QED BY <1>1, <1>2, <1>3, <1>4, StoredCopy

LEMMA LiteralSliced ==
  ASSUME NEW g \in Struct, NEW first \in 1..g.len + 1, NEW last \in 0..g.len, last >= first - 1
  PROVE  LET h == LiteralSlice(g, first, last)
         IN  /\ h \in Struct /\ IsMarked(h) /\ h.block = g.block /\ h.len = last - first + 1
             /\ \A i \in 1..h.len : /\ first + (i - 1) * 1 \in 1..g.len
                                    /\ Place(h, i) = Place(g, first + (i - 1) * 1)
<1> DEFINE h == LiteralSlice(g, first, last)
<1>1. g.len \in Nat /\ g.len <= MaxLen /\ g.off \in Int /\ g.stride \in Int
      /\ g.block \in Blocks \cup {NoBlock}
  BY StructFields
<1>2. /\ first \in Int /\ last \in Int /\ (IF g.len < last THEN g.len ELSE last) = last
      /\ last - (first - 1) = last - first + 1 /\ last - first + 1 \in 0..MaxLen
  BY <1>1, ArrayCowAssumption
<1>3. (first - 1) * g.stride \in Int
  BY <1>1, <1>2
<1>h. h = [g EXCEPT !.off = g.off + (first - 1) * g.stride, !.len = last - first + 1, !.free = -1]
  BY <1>2 DEF LiteralSlice
<1> HIDE DEF h
<1>4. h = [block |-> g.block, off |-> g.off + (first - 1) * g.stride, len |-> last - first + 1,
           stride |-> g.stride, free |-> -1]
  BY <1>h DEF Struct
<1>5. /\ h.block = g.block /\ h.off = g.off + (first - 1) * g.stride /\ h.len = last - first + 1
      /\ h.stride = g.stride /\ h.free = -1
  BY <1>4
<1>6. h \in Struct /\ IsMarked(h)
  BY <1>1, <1>2, <1>3, <1>4 DEF Struct, IsMarked
<1>7. ASSUME NEW i \in 1..h.len
      PROVE  first + (i - 1) * 1 \in 1..g.len /\ Place(h, i) = Place(g, first + (i - 1) * 1)
  <2>1. i \in Int /\ first + (i - 1) * 1 = first + i - 1 /\ first + i - 1 \in 1..g.len
    BY <1>1, <1>2, <1>5
  <2>2. (first - 1) * g.stride + (i - 1) * g.stride = (first + i - 1 - 1) * g.stride
    BY <1>1, <1>2, <2>1
  <2>3. (i - 1) * g.stride \in Int /\ (first + i - 1 - 1) * g.stride \in Int
    BY <1>1, <1>2, <2>1
  <2>4. g.off + (first - 1) * g.stride + (i - 1) * g.stride + 1
          = g.off + (first + i - 1 - 1) * g.stride + 1
    BY <1>1, <1>3, <2>2, <2>3
  <2> QED BY <1>5, <2>1, <2>4 DEF Place
<1> QED BY <1>5, <1>6, <1>7 DEF h

LEMMA StepsInside ==
  ASSUME NEW n \in Nat, NEW first \in 1..n, NEW last \in 1..n, NEW step \in {2, -1},
         (last - first) * step >= 0
  PROVE  /\ Steps(first, last, step) \in Nat /\ Steps(first, last, step) + 1 <= n
         /\ \A k \in 0..Steps(first, last, step) : first + k * step \in 1..n
<1>1. CASE step = 2
  <2>1. last - first \in Nat /\ Steps(first, last, step) = (last - first) \div 2
    BY <1>1 DEF Steps
  <2>2. /\ (last - first) \div 2 \in Nat /\ (last - first) \div 2 <= last - first
        /\ 2 * ((last - first) \div 2) <= last - first
    BY <2>1
  <2> QED BY <1>1, <2>1, <2>2
<1>2. CASE step = -1
  <2>1. first - last \in Nat /\ Steps(first, last, step) = first - last
    BY <1>2 DEF Steps
  <2> QED BY <1>2, <2>1
<1> QED BY <1>1, <1>2

LEMMA RangeSliced ==
  ASSUME NEW g \in Struct, g.stride = 1, NEW first \in 1..g.len, NEW last \in 1..g.len,
         NEW step \in {2, -1}, (last - first) * step >= 0
  PROVE  LET h == RangeSlice(g, first, last, step)
         IN  /\ h \in Struct /\ IsMarked(h) /\ h.block = g.block
             /\ h.len = Steps(first, last, step) + 1
             /\ \A i \in 1..h.len : /\ first + (i - 1) * step \in 1..g.len
                                    /\ Place(h, i) = Place(g, first + (i - 1) * step)
<1> DEFINE h == RangeSlice(g, first, last, step)
           n == Steps(first, last, step) + 1
<1>1. g.len \in Nat /\ g.len <= MaxLen /\ g.off \in Int /\ g.block \in Blocks \cup {NoBlock}
  BY StructFields
<1>2. /\ n \in Nat /\ n <= g.len /\ n >= 1
      /\ \A k \in 0..n - 1 : first + k * step \in 1..g.len
  <2>1. /\ Steps(first, last, step) \in Nat /\ Steps(first, last, step) + 1 <= g.len
        /\ \A k \in 0..Steps(first, last, step) : first + k * step \in 1..g.len
    BY <1>1, StepsInside
  <2>2. n - 1 = Steps(first, last, step)
    BY <2>1
  <2> HIDE DEF n
  <2>3. \A k \in 0..n - 1 : first + k * step \in 1..g.len
    BY <2>1, <2>2
  <2> QED BY <2>1, <2>3 DEF n
<1>3. ~(n < 0) /\ n \in 0..MaxLen /\ step \in Int /\ first \in Int /\ g.off + first - 1 \in Int
  BY <1>1, <1>2, ArrayCowAssumption
<1>4. h = [g EXCEPT !.off = g.off + first - 1, !.stride = 1 * step, !.len = n, !.free = -1]
  BY <1>3 DEF RangeSlice
<1> HIDE DEF h, n
<1>5. h = [block |-> g.block, off |-> g.off + first - 1, len |-> n, stride |-> 1 * step, free |-> -1]
  BY <1>4 DEF Struct
<1>6. /\ h.block = g.block /\ h.off = g.off + first - 1 /\ h.len = n /\ h.stride = step
      /\ h.free = -1
  BY <1>3, <1>5
<1>7. h \in Struct /\ IsMarked(h)
  BY <1>1, <1>3, <1>5 DEF Struct, IsMarked
<1>8. ASSUME NEW i \in 1..h.len
      PROVE  first + (i - 1) * step \in 1..g.len /\ Place(h, i) = Place(g, first + (i - 1) * step)
  <2>1. i \in Int /\ i - 1 \in 0..n - 1
    BY <1>2, <1>6
  <2>2. first + (i - 1) * step \in 1..g.len /\ (i - 1) * step \in Int
    <3>1. first + (i - 1) * step \in 1..g.len
      BY <1>2, <2>1
    <3>2. (i - 1) * step \in Int
      BY <1>3, <2>1
    <3> QED BY <3>1, <3>2
  <2>3. g.off + first - 1 + (i - 1) * step + 1 = g.off + (first + (i - 1) * step - 1) * 1 + 1
    BY <1>1, <1>3, <2>2
  <2> QED BY <1>6, <2>2, <2>3 DEF Place
<1> QED BY <1>6, <1>7, <1>8 DEF h, n

(* The slices that Next takes, and the abstract ones. *)
CutsInside(d, first, last, step) ==
  LET n == cells[d].len
  IN  \/ step = 1 /\ first \in 1..n + 1 /\ last \in 0..n
      \/ /\ step \in {2, -1} /\ first \in 1..n /\ last \in 1..n
         /\ (last - first) * step >= 0 /\ CutsWell(cells[d], step)

LEMMA SliceStep ==
  ASSUME IInv, NEW c \in Cells, NEW d \in Cells, IsMarked(cells[d]), NEW first, NEW last, NEW step,
         CutsInside(d, first, last, step), Slice(c, d, first, last, step), SameStride
  PROVE  /\ IInv' /\ OthersKept(c)
         /\ Value(cells[c])' = Abstract!Slice(Value(cells[d]), first, last, step)
         /\ {first, last} \subseteq DOMAIN Value(cells[d]) \/ (step = 1 /\ last < first)
         /\ first \in 1..Len(Value(cells[d])) + 1 /\ last \in 0..Len(Value(cells[d]))
<1> DEFINE g == cells[d]
           m == Content(g)
           v == Value(g)
           h == IF step = 1 THEN LiteralSlice(g, first, last) ELSE RangeSlice(g, first, last, step)
<1>1. /\ FitsIn(g, m) /\ g \in Struct /\ v = Shown(g, m)
      /\ Len(v) = g.len /\ DOMAIN v = 1..g.len /\ g.len \in Nat
  BY ValueShown, ShownItems, StructFields DEF FitsIn
<1>2. Store(c, h, Content(h)) /\ UNCHANGED <<refs, loop>> /\ (last >= first - 1 \/ step < 0)
  BY DEF Slice
<1>3. /\ h \in Struct /\ IsMarked(h) /\ h.block = g.block /\ first \in Int /\ last \in Int
      /\ step \in Int
      /\ h.len = IF (last - first) * step < 0 THEN 0 ELSE Abstract!Steps(first, last, step) + 1
      /\ \A i \in 1..h.len : /\ first + (i - 1) * step \in 1..g.len
                             /\ Place(h, i) = Place(g, first + (i - 1) * step)
      /\ first \in 1..g.len + 1 /\ last \in 0..g.len
      /\ {first, last} \subseteq 1..g.len \/ (step = 1 /\ last < first)
  <2>1. CASE step = 1
    <3>1. /\ first \in 1..g.len + 1 /\ last \in 0..g.len /\ last >= first - 1
          /\ first \in Int /\ last \in Int
      BY <1>1, <1>2, <2>1 DEF CutsInside
    <3>2. h = LiteralSlice(g, first, last)
      BY <2>1
    <3>3. IF (last - first) * step < 0 THEN last - first + 1 = 0
          ELSE Abstract!Steps(first, last, step) + 1 = last - first + 1
      BY <2>1, <3>1 DEF Abstract!Steps
    <3>4. {first, last} \subseteq 1..g.len \/ (step = 1 /\ last < first)
      BY <1>1, <2>1, <3>1
    <3> HIDE DEF h, g
    <3>5. /\ h \in Struct /\ IsMarked(h) /\ h.block = g.block /\ h.len = last - first + 1
          /\ \A i \in 1..h.len : /\ first + (i - 1) * 1 \in 1..g.len
                                 /\ Place(h, i) = Place(g, first + (i - 1) * 1)
      BY <1>1, <3>1, <3>2, LiteralSliced
    <3> QED BY <2>1, <3>1, <3>3, <3>4, <3>5
  <2>2. CASE step # 1
    <3>1. /\ step \in {2, -1} /\ first \in 1..g.len /\ last \in 1..g.len
          /\ (last - first) * step >= 0 /\ g.stride = 1
      BY <2>2 DEF CutsInside, CutsWell, IsFlat
    <3>2. h = RangeSlice(g, first, last, step)
      BY <2>2
    <3>3. Abstract!Steps(first, last, step) = Steps(first, last, step)
      BY DEF Abstract!Steps, Steps
    <3>4. /\ first \in Int /\ last \in Int /\ step \in Int /\ ~((last - first) * step < 0)
          /\ first \in 1..g.len + 1 /\ last \in 0..g.len /\ {first, last} \subseteq 1..g.len
      BY <1>1, <3>1
    <3> HIDE DEF h, g
    <3>5. /\ h \in Struct /\ IsMarked(h) /\ h.block = g.block
          /\ h.len = Steps(first, last, step) + 1
          /\ \A i \in 1..h.len : /\ first + (i - 1) * step \in 1..g.len
                                 /\ Place(h, i) = Place(g, first + (i - 1) * step)
      BY <1>1, <3>1, <3>2, RangeSliced
    <3> QED BY <3>3, <3>4, <3>5
  <2> QED BY <2>1, <2>2
<1>4. Content(h) = m
  BY <1>3 DEF Content
<1>5. Abstract!Slice(v, first, last, step) = [i \in 1..h.len |-> v[first + (i - 1) * step]]
  BY <1>3 DEF Abstract!Slice
<1> HIDE DEF h
<1>6. FitsIn(h, m) /\ Shown(h, m) = [i \in 1..h.len |-> Shown(g, m)[first + (i - 1) * step]]
  <2> HIDE DEF g, m, v
  <2>1. FitsIn(g, m) /\ h \in Struct /\ IsMarked(h) /\ first \in Int /\ step \in Int
    BY <1>1, <1>3
  <2>2. \A i \in 1..h.len : /\ first + (i - 1) * step \in 1..g.len
                            /\ Place(h, i) = Place(g, first + (i - 1) * step)
    BY <1>3
  <2>3. FitsIn(h, m)
    BY <2>1, <2>2 DEF FitsIn
  <2> QED BY <2>2, <2>3 DEF Shown
<1>7. IInv' /\ Value(cells[c])' = Shown(h, m) /\ OthersKept(c)
  BY <1>2, <1>3, <1>4, <1>6, StoredCopy
<1> QED BY <1>1, <1>3, <1>5, <1>6, <1>7

LEMMA BeginStep ==
  ASSUME IInv, NEW c \in Cells, IsMarked(cells[c]), Begin(c)
  PROVE  IInv' /\ \A d \in Cells : Value(cells[d])' = Value(cells[d])
<1> DEFINE h == cells[c]
           m == Content(h)
<1>1. /\ FitsIn(h, m) /\ h \in Struct /\ Value(h) = Shown(h, m) /\ Value(h) \in Seq(Items)
      /\ Len(Value(h)) = h.len /\ h.len \in Nat /\ h.off \in Int
      /\ \A i \in 1..h.len : Value(h)[i] = m[Place(h, i)]
  BY ValueShown, ShownItems, StructFields DEF FitsIn
<1>2. /\ cells' = cells /\ store' = store /\ refs' = refs /\ h.len > 0
      /\ loop' = [cell |-> c, block |-> h.block, off |-> h.off, left |-> Value(h)]
  BY DEF Begin
<1>3. /\ loop'.cell = c /\ loop'.block = h.block /\ loop'.off = h.off /\ loop'.left = Value(h)
  BY <1>2
<1>4. Place(h, 1) \in 1..Len(m) /\ m \in Memory
  BY <1>1, <1>2 DEF FitsIn
<1>5. h.block # NoBlock /\ h.block \in Blocks /\ m = store[h.block]
  <2>1. h.block # NoBlock
    BY <1>4 DEF Content
  <2> QED BY <1>1, <2>1, StructFields DEF Content
<1>6. loop' \in LoopType
  <2>1. Value(h) \in Seq(Items \cup {Junk})
    BY <1>1
  <2> QED BY <1>1, <1>2, <1>5, <2>1 DEF LoopType
<1>7. Typed' /\ AllFit'
  BY <1>2, <1>6 DEF IInv, Typed, AllFit, FitsIn, Content, Memory, LoopType, Struct, Cells, Place,
     IsMarked
<1>8. OwnedOrMarked'
  <2> SUFFICES ASSUME NEW e \in Writable, ~IsMarked(cells[e]), cells[e].block # NoBlock,
                      Held(cells[e].block, e)'
               PROVE  FALSE
    BY <1>2 DEF OwnedOrMarked, IsMarked, Writable
  <2>1. ~Held(cells[e].block, e)
    BY DEF IInv, OwnedOrMarked
  <2>2. ~\E d \in Cells \ {e} : cells[d].block = cells[e].block
    BY <2>1 DEF Held
  <2>3. loop'.block = cells[e].block
    BY <1>2, <2>2 DEF Held, Cells
  <2>4. c \in Cells \ {e}
    OBVIOUS
  <2> QED BY <1>3, <2>2, <2>3, <2>4
<1>9. LoopInv'
  <2>1. loop'.left # <<>>
    BY <1>1, <1>2, <1>3
  <2>2. ASSUME NEW i \in 1..Len(loop'.left)
        PROVE  /\ loop'.off + (i - 1) * h.stride + 1 \in 1..Len(store[h.block])
               /\ store[h.block][loop'.off + (i - 1) * h.stride + 1] = loop'.left[i]
    <3>1. i \in 1..h.len /\ loop'.off + (i - 1) * h.stride + 1 = Place(h, i)
      BY <1>1, <1>3 DEF Place
    <3>2. Place(h, i) \in 1..Len(m)
      BY <1>1, <3>1 DEF FitsIn
    <3> QED BY <1>1, <1>3, <1>5, <3>1, <3>2
  <2> QED BY <1>2, <1>3, <2>1, <2>2 DEF LoopInv, Ahead
<1>10. \A d \in Cells : Value(cells[d])' = Value(cells[d])
  BY <1>2 DEF Value, Item, At
<1> QED BY <1>7, <1>8, <1>9, <1>10 DEF IInv

(* The item that a loop reads is the one that it was to read. *)
LEMMA LoopItemLeft ==
  ASSUME Typed, NEW l \in LoopType, l.left # <<>>, NEW stride \in Int, Ahead(l, stride)
  PROVE  At(l.block, l.off) = Head(l.left)
<1>1. l.block \in Blocks /\ l.block # NoBlock /\ l.off \in Int /\ 1 \in 1..Len(l.left)
      /\ Head(l.left) = l.left[1]
  BY ArrayCowAssumption DEF LoopType
<1>2. (1 - 1) * stride = 0
  OBVIOUS
<1>3. l.off + (1 - 1) * stride + 1 = l.off + 1
  BY <1>1, <1>2
<1>4. l.off + 1 \in 1..Len(store[l.block]) /\ store[l.block][l.off + 1] = l.left[1]
  BY <1>1, <1>3 DEF Ahead
<1>5. l.off + 1 \in DOMAIN store[l.block]
  BY <1>1, <1>4, MemoryFields DEF Typed
<1> QED BY <1>1, <1>4, <1>5 DEF At

LEMMA NextItemStep ==
  ASSUME IInv, NextItem
  PROVE  /\ IInv' /\ \A d \in Cells : Value(cells[d])' = Value(cells[d])
         /\ loop' # NoLoop => LoopItem' = Head(loop'.left)
<1> DEFINE from == [d \in Cells |-> d]
           stride == cells[loop.cell].stride
           l == loop.left
<1>1. /\ loop \in LoopType /\ cells' = cells /\ refs' = refs /\ Cells' = Cells
      /\ cells \in [Cells -> Struct] /\ store \in [Blocks -> Memory] /\ Writable \subseteq Cells
      /\ Writable' = Writable
  BY DEF NextItem, IInv, Typed, Writable, Cells
<1>2. loop.cell \in Cells /\ loop.block \in Blocks /\ loop.off \in Int /\ l \in Seq(Items \cup {Junk})
      /\ stride \in Int
  BY <1>1, StructFields DEF LoopType
<1>3. l # <<>> /\ Ahead(loop, stride) /\ loop # NoLoop
  BY DEF IInv, LoopInv, NextItem
<1>4. CASE Len(l) > 1
  <2>1. /\ store' = store
        /\ loop' = [cell |-> loop.cell, block |-> loop.block, off |-> loop.off + stride, left |-> Tail(l)]
    <3>1. loop' = [loop EXCEPT !.block = loop.block, !.left = Tail(l), !.off = loop.off + stride]
      BY <1>4 DEF NextItem, LoopBlock
    <3>2. store' = store
      BY <1>4 DEF NextItem
    <3> QED BY <1>1, <3>1, <3>2 DEF LoopType
  <2>2. /\ loop'.cell = loop.cell /\ loop'.block = loop.block /\ loop'.off = loop.off + stride
        /\ loop'.left = Tail(l)
    BY <2>1
  <2>3. /\ Tail(l) \in Seq(Items \cup {Junk}) /\ Len(Tail(l)) = Len(l) - 1
        /\ \A i \in 1..Len(l) - 1 : Tail(l)[i] = l[i + 1]
    BY <1>2, <1>3, <1>4
  <2>4. loop' \in LoopType
    BY <1>2, <2>1, <2>3 DEF LoopType
  <2>5. Typed' /\ AllFit'
    BY <1>1, <2>1, <2>4 DEF IInv, Typed, AllFit, FitsIn, Content, Memory, LoopType, Struct, Cells,
       Place, IsMarked
  <2>6. OwnedOrMarked'
    BY <1>1, <1>3, <2>2 DEF IInv, OwnedOrMarked, Held, IsMarked, Writable, Cells
  <2>7. loop'.left # <<>>
    <3>1. Len(l) \in Nat /\ Len(<<>>) = 0
      BY <1>2
    <3>2. Len(loop'.left) > 0
      BY <1>4, <2>2, <2>3, <3>1
    <3> QED BY <3>1, <3>2
  <2>8. Ahead(loop', stride)
    <3> SUFFICES ASSUME NEW i \in 1..Len(loop'.left)
                 PROVE  /\ loop'.off + (i - 1) * stride + 1 \in 1..Len(store[loop'.block])
                        /\ store[loop'.block][loop'.off + (i - 1) * stride + 1] = loop'.left[i]
      BY DEF Ahead
    <3>1. i + 1 \in 1..Len(l) /\ loop'.left[i] = l[i + 1] /\ i \in Int /\ (i + 1) - 1 = i
      BY <1>2, <1>4, <2>2, <2>3
    <3>2. stride + (i - 1) * stride = ((i + 1) - 1) * stride
      BY <1>2, <3>1
    <3>3. (i - 1) * stride \in Int /\ ((i + 1) - 1) * stride \in Int
      BY <1>2, <3>1
    <3>4. loop'.off + (i - 1) * stride + 1 = loop.off + ((i + 1) - 1) * stride + 1
      BY <1>2, <2>2, <3>2, <3>3
    <3> QED BY <1>3, <2>2, <3>1, <3>4 DEF Ahead
  <2>9. LoopInv'
    BY <1>1, <2>1, <2>2, <2>7, <2>8 DEF LoopInv, Ahead
  <2>10. LoopItem' = Head(loop'.left)
    <3>1. At(loop'.block, loop'.off) = Head(loop'.left)
      BY <1>2, <2>4, <2>7, <2>8, LoopItemLeft DEF IInv
    <3> QED BY <2>1, <3>1 DEF LoopItem, At
  <2>11. \A d \in Cells : Value(cells[d])' = Value(cells[d])
    BY <1>1, <2>1 DEF Value, Item, At
  <2> QED BY <2>5, <2>6, <2>9, <2>10, <2>11 DEF IInv
<1>5. CASE ~(Len(l) > 1)
  <2>1. /\ loop' = NoLoop
        /\ store' = [b \in Blocks |-> IF \E d \in Cells : cells[d].block = b THEN store[b] ELSE <<>>]
    BY <1>5 DEF NextItem
  <2>2. store' \in [Blocks -> Memory]
    <3>1. <<>> \in Memory
      BY DEF Memory
    <3> QED BY <1>1, <2>1, <3>1
  <2>3. from \in [Cells -> Cells] /\ \A d \in Cells : from[d] = d
    OBVIOUS
  <2> HIDE DEF from
  <2>4. ASSUME NEW d \in Cells, cells[from[d]].block # NoBlock
        PROVE  store'[cells[from[d]].block] = store[cells[from[d]].block]
    <3>1. cells[d].block \in Blocks
      BY <1>1, <2>3, <2>4, StructFields
    <3> QED BY <2>1, <2>3, <3>1
  <2>5. \A d \in Cells : \/ cells'[d] = cells[from[d]]
                         \/ cells'[d] = Marked(cells[from[d]])
    BY <1>1, <2>3
  <2>6. refs' \subseteq Vars /\ loop' \in LoopType \cup {NoLoop} /\ cells' \in [Cells -> Struct]
    BY <1>1, <2>1 DEF IInv, Typed
  <2>7. Typed' /\ AllFit' /\ \A d \in Cells : Value(cells[d])' = Value(cells[from[d]])
    BY <1>1, <2>2, <2>3, <2>4, <2>5, <2>6, MovedStructs
  <2>8. OwnedOrMarked'
    BY <1>1, <2>1 DEF IInv, OwnedOrMarked, Held, IsMarked, Writable, Cells
  <2>9. LoopInv'
    BY <2>1 DEF LoopInv
  <2> QED BY <2>1, <2>3, <2>7, <2>8, <2>9 DEF IInv
<1> QED BY <1>4, <1>5

-----------------------------------------------------------------------------
(* Every step, and what it is for the arrays as values.                    *)

Values == [c \in Cells |-> Value(cells[c])]

LEMMA Named ==
  ASSUME NEW c \in Cells, NEW s, Value(cells[c])' = s, OthersKept(c)
  PROVE  Abstract!Becomes(c, s)
BY DEF Abstract!Becomes, OthersKept, Cells

LEMMA ValueFields ==
  ASSUME IInv, NEW c \in Cells
  PROVE  /\ Values[c] = Value(cells[c]) /\ Value(cells[c]) \in Seq(Items)
         /\ Len(Value(cells[c])) = cells[c].len /\ cells[c].len \in Nat
         /\ DOMAIN Value(cells[c]) = 1..cells[c].len
BY ValueShown, ShownItems, StructFields DEF Values, FitsIn

(* The actions on values. *)
LEMMA ValueActions ==
  ASSUME NEW c \in Cells
  PROVE  /\ \A s \in Abstract!Literals : Abstract!New(c, s) => Abstract!Next
         /\ \A d \in Cells : Abstract!Copy(c, d) => Abstract!Next
         /\ \A d \in Cells : \A first \in 1..Len(Values[d]) + 1, last \in 0..Len(Values[d]),
               step \in {1, 2, -1} : Abstract!Cut(c, d, first, last, step) => Abstract!Next
         /\ \A i \in DOMAIN Values[c], v \in Items : Abstract!Put(c, i, v) => Abstract!Next
         /\ \A i \in DOMAIN Values[c] : \A n \in 1..Len(Values[c]) - i + 1 :
               Abstract!Remove(c, i, n) => Abstract!Next
         /\ \A i \in 1..Len(Values[c]) + 1, v \in Items :
               Abstract!Insert(c, i, <<v>>) => Abstract!Next
         /\ \A i \in 1..Len(Values[c]) + 1, d \in Cells :
               Abstract!Insert(c, i, Values[d]) => Abstract!Next
         /\ \A f \in [Items -> Items] : Abstract!Update(c, f) => Abstract!Next
         /\ \A place \in [DOMAIN Values[c] -> DOMAIN Values[c]] :
               Abstract!Reorder(c, place) => Abstract!Next
<1>1. \A s \in Abstract!Literals : Abstract!New(c, s) => Abstract!Next
  BY Zenon DEF Abstract!Next
<1>2. \A d \in Cells : Abstract!Copy(c, d) => Abstract!Next
  BY Zenon DEF Abstract!Next
<1>3. \A d \in Cells : \A first \in 1..Len(Values[d]) + 1, last \in 0..Len(Values[d]),
         step \in {1, 2, -1} : Abstract!Cut(c, d, first, last, step) => Abstract!Next
  BY Zenon DEF Abstract!Next, Values
<1>4. \A i \in DOMAIN Values[c], v \in Items : Abstract!Put(c, i, v) => Abstract!Next
  BY Zenon DEF Abstract!Next, Values
<1>5. \A i \in DOMAIN Values[c] : \A n \in 1..Len(Values[c]) - i + 1 :
         Abstract!Remove(c, i, n) => Abstract!Next
  BY Zenon DEF Abstract!Next, Values
<1>6. \A i \in 1..Len(Values[c]) + 1, v \in Items : Abstract!Insert(c, i, <<v>>) => Abstract!Next
  BY Zenon DEF Abstract!Next, Values
<1>7. \A i \in 1..Len(Values[c]) + 1, d \in Cells :
         Abstract!Insert(c, i, Values[d]) => Abstract!Next
  BY Zenon DEF Abstract!Next, Values
<1>8. \A f \in [Items -> Items] : Abstract!Update(c, f) => Abstract!Next
  BY Zenon DEF Abstract!Next
<1>9. \A place \in [DOMAIN Values[c] -> DOMAIN Values[c]] :
         Abstract!Reorder(c, place) => Abstract!Next
  BY Zenon DEF Abstract!Next, Values
<1> QED BY <1>1, <1>2, <1>3, <1>4, <1>5, <1>6, <1>7, <1>8, <1>9

(* What every step keeps and does. *)
Effect ==
  /\ IInv'
  /\ \E c \in Cells : OthersKept(c)
  /\ \/ Abstract!Next
     \/ did' = did /\ \A d \in Cells : Value(cells[d])' = Value(cells[d])

LEMMA WritableCell == IInv => Writable \subseteq Cells
BY DEF Writable, Cells, IInv, Typed

LEMMA MakingEffect == IInv /\ Making /\ SameStride => Effect
<1> SUFFICES ASSUME IInv, Making, SameStride PROVE Effect
  OBVIOUS
<1>1. ASSUME NEW c \in Cells, NEW s \in Literals, New(c, s)
      PROVE  Effect
  <2>1. s \in Seq(Items) /\ Len(s) <= MaxLen /\ s \in Abstract!Literals
    <3>1. /\ s \in {<<>>} \cup [1..1 -> Items] \cup [1..2 -> Items]
          /\ Len(s) <= MaxLen
      BY DEF Literals
    <3>2. s \in Seq(Items)
      <4>1. CASE s = <<>>
        BY <4>1
      <4>2. ASSUME NEW n \in 1..2, s \in [1..n -> Items]
            PROVE  s \in Seq(Items)
        <5>1. n \in Nat
          OBVIOUS
        <5> QED BY <4>2, <5>1
      <4> QED BY <3>1, <4>1, <4>2
    <3> QED BY <3>1, <3>2 DEF Abstract!Literals
  <2>2. IInv' /\ Value(cells[c])' = s /\ OthersKept(c)
    BY <1>1, <2>1, MakeStep
  <2>3. Abstract!New(c, s)
    BY <1>1, <2>2, Named DEF New, Abstract!New
  <2>4. Abstract!Next
    BY <2>1, <2>3, ValueActions
  <2> QED BY <2>2, <2>4 DEF Effect
<1>2. ASSUME NEW c \in Cells, NEW p \in Writable, Fetch(c, p)
      PROVE  Effect
  <2>1. IInv' /\ Value(cells[c])' = Value(cells[p]) /\ OthersKept(c)
    BY <1>2, FetchStep
  <2>2. p \in Cells
    BY WritableCell
  <2>3. Abstract!Becomes(c, Value(cells[p]))
    BY <2>1, Named
  <2>4. Abstract!Copy(c, p)
    BY <1>2, <2>2, <2>3 DEF Fetch, Abstract!Copy
  <2>5. Abstract!Next
    BY <2>2, <2>4, ValueActions
  <2> QED BY <2>1, <2>5 DEF Effect
<1>3. ASSUME NEW x \in Referred, Refer(x)
      PROVE  Effect
  <2>1. IInv' /\ \A d \in Cells : Value(cells[d])' = Value(cells[d])
    BY <1>3, ReferStep
  <2>2. x \in Cells /\ OthersKept(x)
    BY <2>1, ArrayCowAssumption DEF OthersKept, Cells
  <2> QED BY <1>3, <2>1, <2>2 DEF Effect, Refer
<1> QED BY <1>1, <1>2, <1>3 DEF Making

LEMMA OverwritingEffect == IInv /\ Overwriting /\ SameStride => Effect
<1> SUFFICES ASSUME IInv, SameStride, NEW c \in Writable,
                    \/ \E i \in 1..cells[c].len, v \in Items : Put(c, i, v)
                    \/ \E f \in [Items -> Items] : Update(c, f)
                    \/ \E place \in Places(cells[c].len) : Reorder(c, place)
             PROVE  Effect
  BY DEF Overwriting
<1>0. c \in Cells /\ DOMAIN Value(cells[c]) = 1..cells[c].len /\ Values[c] = Value(cells[c])
  BY WritableCell, ValueFields
<1>1. ASSUME NEW i \in 1..cells[c].len, NEW v \in Items, Put(c, i, v)
      PROVE  Effect
  <2>1. IInv' /\ Value(cells[c])' = [Value(cells[c]) EXCEPT ![i] = v] /\ OthersKept(c)
    BY <1>1, PutStep
  <2>2. Abstract!Becomes(c, [Value(cells[c]) EXCEPT ![i] = v])
    BY <1>0, <2>1, Named
  <2>3. Abstract!Put(c, i, v)
    BY <1>0, <1>1, <2>2 DEF Put, Abstract!Put
  <2>4. Abstract!Next
    BY <1>0, <2>3, ValueActions
  <2> QED BY <1>0, <2>1, <2>4 DEF Effect
<1>2. ASSUME NEW f \in [Items -> Items], Update(c, f)
      PROVE  Effect
  <2>1. /\ IInv' /\ OthersKept(c)
        /\ Value(cells[c])' = [i \in DOMAIN Value(cells[c]) |-> f[Value(cells[c])[i]]]
    BY <1>2, UpdateStep
  <2>2. Abstract!Becomes(c, [i \in DOMAIN Value(cells[c]) |-> f[Value(cells[c])[i]]])
    BY <1>0, <2>1, Named
  <2>3. Abstract!Update(c, f)
    BY <1>0, <1>2, <2>2 DEF Update, Abstract!Update
  <2>4. Abstract!Next
    BY <1>0, <2>3, ValueActions
  <2> QED BY <1>0, <2>1, <2>4 DEF Effect
<1>3. ASSUME NEW place \in Places(cells[c].len), Reorder(c, place)
      PROVE  Effect
  <2>1. /\ IInv' /\ OthersKept(c)
        /\ Value(cells[c])' = [i \in DOMAIN Value(cells[c]) |-> Value(cells[c])[place[i]]]
    BY <1>3, ReorderStep
  <2>2. Abstract!Becomes(c, [i \in DOMAIN Value(cells[c]) |-> Value(cells[c])[place[i]]])
    BY <1>0, <2>1, Named
  <2>3. Abstract!Reorder(c, place)
    BY <1>0, <1>3, <2>2 DEF Reorder, Abstract!Reorder
  <2>4. place \in [DOMAIN Values[c] -> DOMAIN Values[c]]
    BY <1>0 DEF Places
  <2>5. Abstract!Next
    BY <1>0, <2>3, <2>4, ValueActions
  <2> QED BY <1>0, <2>1, <2>5 DEF Effect
<1> QED BY <1>1, <1>2, <1>3

LEMMA InsertingEffect == IInv /\ Inserting(FALSE) /\ SameStride => Effect
<1> SUFFICES ASSUME IInv, SameStride, NEW c \in Writable, NEW i \in 1..cells[c].len + 1,
                    \/ MayInsert(cells[c], i, 1, FALSE)
                       /\ \E v \in Items : Insert(c, i, <<v>>, Slack)
                    \/ \E x \in Vars : /\ cells[x].len > 0
                                       /\ MayInsert(cells[c], i, cells[x].len, FALSE)
                                       /\ Insert(c, i, Value(cells[x]), cells[x].len)
             PROVE  Effect
  BY DEF Inserting
<1>0. /\ c \in Cells /\ Len(Value(cells[c])) = cells[c].len
      /\ i \in 1..Len(Values[c]) + 1
  BY WritableCell, ValueFields
<1>1. ASSUME NEW s \in Seq(Items), NEW slack, Insert(c, i, s, slack),
             IInv' /\ OthersKept(c)
             /\ Value(cells[c])' = Abstract!Inserted(Value(cells[c]), i, s)
      PROVE  Abstract!Insert(c, i, s)
  <2>1. Abstract!Becomes(c, Abstract!Inserted(Value(cells[c]), i, s))
    BY <1>0, <1>1, Named
  <2> QED BY <1>0, <1>1, <2>1 DEF Insert, Abstract!Insert
<1>2. ASSUME MayInsert(cells[c], i, 1, FALSE), NEW v \in Items, Insert(c, i, <<v>>, Slack)
      PROVE  Effect
  <2> DEFINE s == <<v>>
  <2>1. s \in Seq(Items) /\ s # <<>> /\ Len(s) = 1 /\ Slack \in Nat /\ Slack >= Len(s)
    BY ArrayCowAssumption
  <2>2. InsertsWell(cells[c], i, Len(s)) /\ Insert(c, i, s, Slack)
    BY <1>2, <2>1 DEF MayInsert
  <2> HIDE DEF s
  <2>3. IInv' /\ OthersKept(c) /\ Value(cells[c])' = Abstract!Inserted(Value(cells[c]), i, s)
    BY <2>1, <2>2, InsertStep
  <2>4. Abstract!Insert(c, i, s)
    BY <1>1, <2>1, <2>2, <2>3
  <2>5. Abstract!Next
    BY <1>0, <2>4, ValueActions DEF s
  <2> QED BY <1>0, <2>3, <2>5 DEF Effect
<1>3. ASSUME NEW x \in Vars, cells[x].len > 0, MayInsert(cells[c], i, cells[x].len, FALSE),
             Insert(c, i, Value(cells[x]), cells[x].len)
      PROVE  Effect
  <2> DEFINE s == Value(cells[x])
             n == cells[x].len
  <2>1. x \in Cells /\ s \in Seq(Items) /\ Len(s) = n /\ n \in Nat /\ n > 0
    BY <1>3, ValueFields DEF Cells
  <2>2. InsertsWell(cells[c], i, Len(s)) /\ Insert(c, i, s, n) /\ n >= Len(s) /\ s # <<>>
    <3>1. s # <<>>
      BY <2>1
    <3> QED BY <1>3, <2>1, <3>1 DEF MayInsert
  <2> HIDE DEF s, n
  <2>3. IInv' /\ OthersKept(c) /\ Value(cells[c])' = Abstract!Inserted(Value(cells[c]), i, s)
    BY <2>1, <2>2, InsertStep
  <2>4. Abstract!Insert(c, i, s)
    BY <1>1, <2>1, <2>2, <2>3
  <2>5. Values[x] = s
    BY <2>1, ValueFields DEF s
  <2>6. Abstract!Next
    BY <1>0, <2>1, <2>4, <2>5, ValueActions
  <2> QED BY <1>0, <2>3, <2>6 DEF Effect
<1> QED BY <1>2, <1>3

LEMMA RemovingEffect == IInv /\ Removing /\ SameStride => Effect
<1> SUFFICES ASSUME IInv, SameStride, NEW c \in Writable, NEW i \in 1..cells[c].len,
                    NEW n \in 1..cells[c].len, i + n <= cells[c].len + 1,
                    RemovesWell(cells[c], i, n), Remove(c, i, n)
             PROVE  Effect
  BY DEF Removing
<1>0. /\ c \in Cells /\ Len(Value(cells[c])) = cells[c].len /\ cells[c].len \in Nat
      /\ i \in DOMAIN Values[c] /\ n \in 1..Len(Values[c]) - i + 1
  BY WritableCell, ValueFields
<1>1. IInv' /\ OthersKept(c) /\ Value(cells[c])' = Abstract!Removed(Value(cells[c]), i, n)
  BY RemoveStep
<1>2. Abstract!Becomes(c, Abstract!Removed(Value(cells[c]), i, n))
  BY <1>0, <1>1, Named
<1>3. Abstract!Remove(c, i, n)
  BY <1>0, <1>2 DEF Remove, Abstract!Remove
<1>4. Abstract!Next
  BY <1>0, <1>3, ValueActions
<1> QED BY <1>0, <1>1, <1>4 DEF Effect

LEMMA SharingEffect == IInv /\ Sharing /\ SameStride => Effect
<1> SUFFICES ASSUME IInv, SameStride, NEW d \in Cells, IsMarked(cells[d]),
                    \/ \E c \in Cells : Slicing(c, d)
                    \/ d \in Vars /\ \E c \in Cells : Assign(c, d)
                    \/ d \in Vars /\ \E p \in Heap : Box(p, d)
                    \/ Begin(d)
             PROVE  Effect
  BY DEF Sharing
<1>1. ASSUME NEW c \in Cells, NEW first, NEW last, NEW step,
             CutsInside(d, first, last, step), Slice(c, d, first, last, step)
      PROVE  Effect
  <2>1. /\ IInv' /\ OthersKept(c)
        /\ Value(cells[c])' = Abstract!Slice(Value(cells[d]), first, last, step)
        /\ {first, last} \subseteq DOMAIN Value(cells[d]) \/ (step = 1 /\ last < first)
        /\ first \in 1..Len(Value(cells[d])) + 1 /\ last \in 0..Len(Value(cells[d]))
    BY <1>1, SliceStep
  <2>2. step \in {1, 2, -1}
    BY <1>1 DEF CutsInside
  <2>3. Abstract!Becomes(c, Abstract!Slice(Value(cells[d]), first, last, step))
    BY <2>1, Named
  <2>4. Abstract!Cut(c, d, first, last, step)
    BY <1>1, <2>1, <2>3 DEF Slice, Abstract!Cut
  <2>5. Values[d] = Value(cells[d])
    BY ValueFields
  <2>6. Abstract!Next
    BY <2>1, <2>2, <2>4, <2>5, ValueActions
  <2> QED BY <2>1, <2>6 DEF Effect
<1>2. ASSUME NEW c \in Cells, Slicing(c, d)
      PROVE  Effect
  <2>1. CASE \E first \in 1..cells[d].len + 1, last \in 0..cells[d].len : Slice(c, d, first, last, 1)
    <3>1. PICK first \in 1..cells[d].len + 1, last \in 0..cells[d].len : Slice(c, d, first, last, 1)
      BY <2>1
    <3>2. CutsInside(d, first, last, 1)
      BY DEF CutsInside
    <3> QED BY <1>1, <3>1, <3>2
  <2>2. CASE \E first, last \in 1..cells[d].len, step \in {2, -1} :
               /\ (last - first) * step >= 0 /\ CutsWell(cells[d], step)
               /\ Slice(c, d, first, last, step)
    <3>1. PICK first \in 1..cells[d].len, last \in 1..cells[d].len, step \in {2, -1} :
               /\ (last - first) * step >= 0 /\ CutsWell(cells[d], step)
               /\ Slice(c, d, first, last, step)
      BY <2>2
    <3>2. CutsInside(d, first, last, step)
      BY <3>1 DEF CutsInside
    <3> QED BY <1>1, <3>1, <3>2
  <2> QED BY <1>2, <2>1, <2>2 DEF Slicing
<1>3. ASSUME NEW c \in Cells, Assign(c, d) \/ Box(c, d)
      PROVE  Effect
  <2> DEFINE h == IF Assign(c, d) THEN cells[d] ELSE Marked(cells[d])
  <2>1. /\ h = cells[d] \/ h = Marked(cells[d])
        /\ Store(c, h, Content(cells[d])) /\ UNCHANGED <<refs, loop>> /\ did' = <<"copy", c, d>>
    BY <1>3 DEF Assign, Box
  <2> HIDE DEF h
  <2>2. IInv' /\ Value(cells[c])' = Value(cells[d]) /\ OthersKept(c)
    BY <2>1, CopyStep
  <2>3. Abstract!Becomes(c, Value(cells[d]))
    BY <2>2, Named
  <2>4. Abstract!Copy(c, d)
    BY <2>1, <2>3 DEF Abstract!Copy
  <2>5. Abstract!Next
    BY <2>4, ValueActions
  <2> QED BY <2>2, <2>5 DEF Effect
<1>4. ASSUME Begin(d)
      PROVE  Effect
  <2>1. IInv' /\ \A e \in Cells : Value(cells[e])' = Value(cells[e])
    BY <1>4, BeginStep
  <2>2. OthersKept(d) /\ did' = did
    BY <1>4, <2>1 DEF OthersKept, Begin
  <2> QED BY <2>1, <2>2 DEF Effect
<1>5. Heap \subseteq Cells
  BY DEF Cells
<1> QED BY <1>2, <1>3, <1>4, <1>5

LEMMA NextItemEffect == IInv /\ NextItem => Effect
<1> SUFFICES ASSUME IInv, NextItem PROVE Effect
  OBVIOUS
<1>1. IInv' /\ \A d \in Cells : Value(cells[d])' = Value(cells[d])
  BY NextItemStep
<1>2. loop.cell \in Cells /\ did' = did
  BY DEF NextItem, IInv, Typed, LoopType
<1>3. OthersKept(loop.cell)
  BY <1>1 DEF OthersKept
<1> QED BY <1>1, <1>2, <1>3 DEF Effect

LEMMA NextEffect == IInv /\ Next => Effect
BY MakingEffect, OverwritingEffect, InsertingEffect, RemovingEffect, SharingEffect, NextItemEffect
   DEF Next

LEMMA Kept == IInv /\ [Next]_vars => IInv'
<1> SUFFICES ASSUME IInv, [Next]_vars PROVE IInv'
  OBVIOUS
<1>1. CASE Next
  BY <1>1, NextEffect DEF Effect
<1>2. CASE UNCHANGED vars
  BY <1>2 DEF vars, IInv, Typed, AllFit, OwnedOrMarked, LoopInv, FitsIn, Place, IsMarked, Struct,
     Memory, LoopType, Cells, Content, Writable, Held, Ahead
<1> QED BY <1>1, <1>2

LEMMA Begins == Init => IInv
<1> SUFFICES ASSUME Init PROVE IInv
  OBVIOUS
<1>1. ASSUME NEW c \in Cells
      PROVE  /\ cells[c] = EmptyArray(c) /\ cells[c] \in Struct /\ cells[c].block = NoBlock
             /\ cells[c].off = 0 /\ cells[c].len = 0 /\ cells[c].stride = 1
             /\ (~IsMarked(cells[c]) => cells[c].free = 0)
  BY ArrayCowAssumption DEF Init, EmptyArray, Struct, IsMarked
<1>2. <<>> \in Memory /\ Len(<<>>) = 0 /\ 1..0 = {}
  BY DEF Memory
<1>3. Typed
  BY <1>1, <1>2 DEF Init, Typed
<1>4. ASSUME NEW c \in Cells
      PROVE  FitsIn(cells[c], Content(cells[c]))
  <2>1. Content(cells[c]) = <<>>
    BY <1>1 DEF Content
  <2> QED BY <1>1, <1>2, <2>1 DEF FitsIn
<1>5. OwnedOrMarked
  BY <1>1 DEF OwnedOrMarked, Writable, Cells, Init
<1> QED BY <1>3, <1>4, <1>5 DEF IInv, AllFit, LoopInv, Init

LEMMA Invariance == Spec => []IInv
BY Begins, Kept, PTL DEF Spec

(* The storage of an array that may be written to and is not marked is     *)
(* read by no other variable, heap cell or loop: the flag that check_cow   *)
(* and array_insert look at is set on every array that is shared.          *)
THEOREM SharedIsMarked == Spec => []OwnedOrMarked
<1>1. IInv => OwnedOrMarked
  BY DEF IInv
<1> QED BY <1>1, Invariance, PTL

LEMMA FitInBounds == IInv => InBounds
<1> SUFFICES ASSUME IInv PROVE InBounds
  OBVIOUS
<1>1. TypeOK
  BY DEF IInv, Typed, TypeOK, Memory
<1>2. ASSUME NEW c \in Cells
      PROVE  /\ \A i \in 1..cells[c].len : Item(cells[c], i) \in Items
             /\ ~IsMarked(cells[c])
                  => cells[c].off + cells[c].len + cells[c].free <= Len(Content(cells[c]))
  <2> DEFINE h == cells[c]
  <2>1. /\ FitsIn(h, Content(h)) /\ Value(h) = Shown(h, Content(h))
        /\ \A i \in 1..h.len : Shown(h, Content(h))[i] \in Items
    BY ValueShown, ShownItems
  <2>2. \A i \in 1..h.len : Value(h)[i] = Item(h, i)
    BY DEF Value
  <2> QED BY <2>1, <2>2 DEF FitsIn
<1> QED BY <1>1, <1>2 DEF InBounds

(* Every item of every array was written and lies inside of its block, and *)
(* so does the free space that array_insert writes to without a look at    *)
(* the block.                                                              *)
THEOREM ItemsInBounds == Spec => []InBounds
BY FitInBounds, Invariance, PTL

(* docs/mutability.md: a statement changes the array of one variable or    *)
(* heap cell, also where the others share its storage.                     *)
THEOREM OneChanges == Spec => OneAtATime
<1>1. IInv /\ [Next]_vars
        => [\E c \in Cells : \A d \in Cells \ {c} : Value(cells[d])' = Value(cells[d])]_vars
  <2> SUFFICES ASSUME IInv, Next
               PROVE  \E c \in Cells : \A d \in Cells \ {c} : Value(cells[d])' = Value(cells[d])
    BY DEF vars
  <2> QED BY NextEffect DEF Effect, OthersKept
<1> QED BY <1>1, Invariance, PTL DEF Spec, OneAtATime

(* A loop over an array reads the items that the array held when the loop  *)
(* began, whatever its body does to the array.                             *)
THEOREM LoopsReadSnapshot == Spec => Snapshot
<1>1. IInv /\ [Next]_vars
        => [NextItem /\ loop' # NoLoop => LoopItem' = Head(loop'.left)]_vars
  BY NextItemStep
<1> QED BY <1>1, Invariance, PTL DEF Spec, Snapshot

LEMMA ValuesBegin == Init => Abstract!Init
<1> SUFFICES ASSUME Init PROVE Abstract!Init
  OBVIOUS
<1>1. ASSUME NEW c \in Cells
      PROVE  Value(cells[c]) = <<>>
  <2>1. IInv /\ cells[c].len = 0
    BY Begins DEF Init, EmptyArray
  <2>2. Value(cells[c]) \in Seq(Items) /\ Len(Value(cells[c])) = 0
    BY <2>1, ValueFields
  <2> QED BY <2>2
<1> QED BY <1>1 DEF Abstract!Init, Init

LEMMA ValuesStep == IInv /\ [Next]_vars => [Abstract!Next]_<<Values, did>>
<1> SUFFICES ASSUME IInv, [Next]_vars
             PROVE  Abstract!Next \/ UNCHANGED <<Values, did>>
  OBVIOUS
<1>1. CASE Next
  BY <1>1, NextEffect DEF Effect, Values, Cells
<1>2. CASE UNCHANGED vars
  BY <1>2 DEF vars, Values, Value, Item, At, Cells
<1> QED BY <1>1, <1>2

(* Arrays that share their storage are values all the same: every cell     *)
(* holds a sequence of its own, and every statement has the effect on it   *)
(* that its name says.                                                     *)
THEOREM ArraysAreValues == Spec => ImplementsValues
<1>1. IInv /\ [Next]_vars => [Abstract!Next]_<<[c \in Cells |-> Value(cells[c])], did>>
  BY ValuesStep DEF Values
<1> QED BY <1>1, ValuesBegin, Invariance, PTL DEF Spec, ImplementsValues, Abstract!Spec
=============================================================================
