------------------------------ MODULE ArrayCow ------------------------------
(***************************************************************************)
(* How arrays share their storage.  An array is a struct: a pointer to its *)
(* first item, a length, a stride, and the free space behind the items,    *)
(* negative to say "copy on write".  Models the statements that copy, cut, *)
(* mark and change arrays (compile/arrays.c, expr.c, math.c, loops.c) and  *)
(* the functions that grow and shrink them (libsss/utils.c).               *)
(* Offsets and strides count items.                                        *)
(***************************************************************************)
EXTENDS Integers, Sequences

CONSTANTS Items, Junk,
  Vars,            \* variables of array type: written only through a "&"
  Heap,            \* heap cells, reached through a pointer
  Blocks, NoBlock, NoLoop,
  Looped,          \* bound: the cells that the program loops over
  Referred,        \* bound: the variables that the program refers to with "&"
  Slack,           \* room that array_insert allocates (6 in the code)
  MaxLen           \* bound: no array grows beyond it

Cells == Vars \cup Heap

ASSUME ArrayCowAssumption ==
  /\ Junk \notin Items /\ Vars \cap Heap = {} /\ NoBlock \notin Blocks
  /\ Looped \subseteq Cells /\ Referred \subseteq Vars
  /\ Slack \in Nat \ {0} /\ MaxLen \in Nat

VARIABLES
  cells,  \* the struct in every variable and heap cell
  store,  \* the blocks in the heap: their items, never written ones are Junk
  refs,   \* the variables x of which the program has taken "&x"
  loop,   \* the loop over the array in a cell, or NoLoop
  did     \* history: the statement executed last

vars == <<cells, store, refs, loop, did>>

Writable == Heap \cup refs

EmptyArray(c) ==
  [block |-> NoBlock, off |-> 0, len |-> 0, stride |-> 1, free |-> IF c \in Vars THEN -1 ELSE 0]

Init ==
  /\ cells = [c \in Cells |-> EmptyArray(c)]
  /\ store = [b \in Blocks |-> <<>>]
  /\ refs = {}
  /\ loop = NoLoop
  /\ did = <<>>

-----------------------------------------------------------------------------
Marked(h) == [h EXCEPT !.free = -1]
IsMarked(h) == h.free < 0
IsFlat(h) == h.stride = 1

At(b, a) == IF b # NoBlock /\ a + 1 \in DOMAIN store[b] THEN store[b][a + 1] ELSE Junk
Item(h, i) == At(h.block, h.off + (i - 1) * h.stride)
Value(h) == [i \in 1..h.len |-> Item(h, i)]
Content(h) == IF h.block = NoBlock THEN <<>> ELSE store[h.block]
Junks(n) == [i \in 1..n |-> Junk]

Held(b, ignored) ==
  \/ \E d \in Cells \ {ignored} : cells[d].block = b
  \/ loop # NoLoop /\ loop.block = b
Unused == {b \in Blocks : ~\E d \in Cells : Held(b, d) \/ cells[d].block = b}

(* The struct in cell c becomes h, and its block holds s; blocks that      *)
(* nothing points to are collected.                                        *)
Store(c, h, s) ==
  /\ cells' = [cells EXCEPT ![c] = h]
  /\ store' = [b \in Blocks |-> IF b = h.block THEN s
                                ELSE IF Held(b, c) THEN store[b]
                                ELSE <<>>]

(* The same in a new block, where the items of h start at its beginning. *)
StoreNew(c, h, s) ==
  /\ Unused # {}
  /\ Store(c, [h EXCEPT !.block = CHOOSE b \in Unused : TRUE, !.off = 0], s)

(* memcpy and memmove inside a block; addresses count from 0.  What lies   *)
(* outside of the block is not modelled, see RemovalFits.                  *)
Copied(s, to, t) ==
  [a \in DOMAIN s |-> IF a - to \in DOMAIN t THEN t[a - to] ELSE s[a]]
Moved(s, to, from, n) ==
  [a \in DOMAIN s |-> IF a - to \notin 1..n THEN s[a]
                      ELSE IF a - to + from \in DOMAIN s THEN s[a - to + from]
                      ELSE Junk]

-----------------------------------------------------------------------------
(* Statements.  p: a heap cell; x, y: variables; c, d: either. *)

(* c = [...], c = @[...] *)
New(c, s) ==
  /\ IF s = <<>> THEN Store(c, EmptyArray(c), <<>>)
     ELSE StoreNew(c, [EmptyArray(c) EXCEPT !.len = Len(s)], s)
  /\ did' = <<"new", c, s>>
  /\ UNCHANGED <<refs, loop>>

(* Bug: check_cow does not look at the flag. *)
BugCheckCow(h) == FALSE

CheckCow(h) == IsMarked(h)

(* The items of an array are replaced, their number stays. *)
Overwrite(c, items) ==
  LET h == cells[c]
      Address(i) == h.off + (i - 1) * h.stride + 1
  IN  IF CheckCow(h)
      THEN StoreNew(c, [h EXCEPT !.stride = 1, !.free = 0], items)
      ELSE Store(c, h, [a \in DOMAIN Content(h) |->
             IF \E i \in 1..h.len : a = Address(i)
             THEN items[CHOOSE i \in 1..h.len : a = Address(i)]
             ELSE Content(h)[a]])

(* p[i] = v *)
Put(c, i, v) ==
  /\ Overwrite(c, [Value(cells[c]) EXCEPT ![i] = v])
  /\ did' = <<"put", c, i, v>>
  /\ UNCHANGED <<refs, loop>>

(* c += e and the like: every item is replaced by f of it. *)
Update(c, f) ==
  /\ Overwrite(c, [i \in 1..cells[c].len |-> f[Item(cells[c], i)]])
  /\ did' = <<"update", c, f>>
  /\ UNCHANGED <<refs, loop>>

(* p.sort(), p.shuffle(): flattened unless it is flat and not marked. *)
Reorder(c, place) ==
  LET h == cells[c]
      items == [i \in 1..h.len |-> Value(h)[place[i]]]
  IN  /\ IF IsMarked(h) \/ ~IsFlat(h)
         THEN StoreNew(c, [h EXCEPT !.stride = 1, !.free = 0], items)
         ELSE Store(c, h, Copied(Content(h), h.off, items))
      /\ did' = <<"reorder", c, place>>
      /\ UNCHANGED <<refs, loop>>

(* Bug: the flag is looked at, but not the room. *)
BugInsertCopies(h, n) == IsMarked(h) \/ ~IsFlat(h)

InsertCopies(h, n) == h.free < n \/ ~IsFlat(h)

(* p.insert(v, i) and p.insert_all(s, i).  The copy keeps the stride; the  *)
(* move in place has the length and the target of array_insert_all.        *)
Insert(c, i, s, slack) ==
  LET h == cells[c]
      n == Len(s)
      room == IF h.block = NoBlock THEN n ELSE slack
      moved == IF i = h.len + 1 THEN Content(h)
               ELSE Moved(Content(h), h.off + i, h.off + i - 1, h.len - i + n - 1)
  IN  /\ h.len + n <= MaxLen
      /\ IF h.block = NoBlock \/ InsertCopies(h, n)
         THEN StoreNew(c, [h EXCEPT !.len = @ + n, !.free = room - n],
                SubSeq(Value(h), 1, i - 1) \o s \o SubSeq(Value(h), i, h.len) \o Junks(room - n))
         ELSE Store(c, [h EXCEPT !.len = @ + n, !.free = @ - n],
                Copied(moved, h.off + i - 1, s))
      /\ did' = <<"insert", c, i, s>>
      /\ UNCHANGED <<refs, loop>>

(* Bug: items are taken out of shared storage. *)
BugRemoveCopies(h) == FALSE

RemoveCopies(h) == IsMarked(h) \/ ~IsFlat(h)

(* The length of the move in place: too long unless n = 1. *)
MoveLength(h, i, n) == h.len - i + n - 1

(* The space that the move of a removal writes to is part of the block. *)
RemovalFits(h, i, n) ==
  i + n > h.len \/ RemoveCopies(h) \/ h.off + i - 1 + MoveLength(h, i, n) <= Len(Content(h))

(* p.remove(i, n) and p.pop(i), with n cut to the items there are. *)
Remove(c, i, n) ==
  LET h == cells[c]
      less == [h EXCEPT !.len = @ - n]
      kept == SubSeq(Value(h), 1, i - 1) \o SubSeq(Value(h), i + n, h.len)
  IN  /\ RemovalFits(h, i, n)
      /\ CASE i + n > h.len ->
                Store(c, [less EXCEPT !.free = IF IsMarked(h) THEN @ ELSE @ + n], Content(h))
           [] i + n <= h.len /\ RemoveCopies(h) ->
                StoreNew(c, [less EXCEPT !.free = 0], kept \o Junks(n - 1))
           [] OTHER ->
                Store(c, [less EXCEPT !.free = @ + n],
                      Moved(Content(h), h.off + i - 1, h.off + i - 1 + n, MoveLength(h, i, n)))
      /\ did' = <<"remove", c, i, n>>
      /\ UNCHANGED <<refs, loop>>

-----------------------------------------------------------------------------
(* Bug: the dereference is not marked. *)
BugFetch(c, p) ==
  /\ Store(c, cells[p], Content(cells[p]))
  /\ did' = <<"copy", c, p>> /\ UNCHANGED <<refs, loop>>

(* c = p[] or f(p[]): the struct is marked where it is, then copied. *)
Fetch(c, p) ==
  /\ cells' = [cells EXCEPT ![p] = Marked(@), ![c] = Marked(cells[p])]
  /\ store' = [b \in Blocks |-> IF b = cells[p].block \/ Held(b, c) THEN store[b] ELSE <<>>]
  /\ did' = <<"copy", c, p>> /\ UNCHANGED <<refs, loop>>

(* x = y, and p[] = y *)
Assign(c, y) ==
  /\ Store(c, cells[y], Content(cells[y]))
  /\ did' = <<"copy", c, y>> /\ UNCHANGED <<refs, loop>>

(* p = @x *)
Box(p, x) ==
  /\ Store(p, Marked(cells[x]), Content(cells[x]))
  /\ did' = <<"copy", p, x>> /\ UNCHANGED <<refs, loop>>

(* r = &x *)
Refer(x) ==
  /\ cells' = [cells EXCEPT ![x] = Marked(@)]
  /\ refs' = refs \cup {x}
  /\ UNCHANGED <<store, loop, did>>

(* How many steps lie between the first item and the last. *)
Steps(first, last, step) ==
  IF step > 0 THEN (last - first) \div step ELSE (first - last) \div (-step)

(* range_slice, for a range inside the array: the offset ignores the       *)
(* stride of the array, a literal range without "by" does not come here.   *)
RangeSlice(h, first, last, step) ==
  LET n == Steps(first, last, step) + 1
  IN  [h EXCEPT !.off = @ + first - 1, !.stride = @ * step,
                !.len = IF n < 0 THEN 0 ELSE n, !.free = -1]

LiteralSlice(h, first, last) ==
  [h EXCEPT !.off = @ + (first - 1) * h.stride,
            !.len = (IF h.len < last THEN h.len ELSE last) - (first - 1), !.free = -1]

(* c = d[first..last by step]: the slice is marked, the array is not. *)
Slice(c, d, first, last, step) ==
  LET h == IF step = 1 THEN LiteralSlice(cells[d], first, last)
           ELSE RangeSlice(cells[d], first, last, step)
  IN  /\ last >= first - 1 \/ step < 0
      /\ Store(c, h, Content(h))
      /\ did' = <<"slice", c, d, first, last, step>>
      /\ UNCHANGED <<refs, loop>>

-----------------------------------------------------------------------------
(* for item in c: pointer and length are saved, the stride is read again   *)
(* from the array at every step.  `left' is what the array held, from the  *)
(* current item on, when the loop began; the length is kept as its length. *)
Begin(c) ==
  /\ loop = NoLoop /\ c \in Looped /\ cells[c].len > 0
  /\ loop' = [cell |-> c, block |-> cells[c].block, off |-> cells[c].off, left |-> Value(cells[c])]
  /\ UNCHANGED <<cells, store, refs, did>>

(* Bug: the loop follows the array to its new block. *)
BugLoopBlock == cells[loop.cell].block
LoopBlock == loop.block

LoopItem == At(loop.block, loop.off)

NextItem ==
  /\ loop # NoLoop
  /\ IF Len(loop.left) > 1
     THEN /\ loop' = [loop EXCEPT !.block = LoopBlock, !.left = Tail(@),
                                  !.off = @ + cells[loop.cell].stride]
          /\ UNCHANGED store
     ELSE /\ loop' = NoLoop
          /\ store' = [b \in Blocks |-> IF \E d \in Cells : cells[d].block = b THEN store[b]
                                        ELSE <<>>]
  /\ UNCHANGED <<cells, refs, did>>

-----------------------------------------------------------------------------
Places(n) == {place \in [1..n -> 1..n] : \A i, j \in 1..n : i # j => place[i] # place[j]}

Literals == {s \in {<<>>} \cup [1..1 -> Items] \cup [1..2 -> Items] : Len(s) <= MaxLen}

(* Insertions, removals and slices that the code gets right. *)
InsertsWell(h, i, n) ==
  IsFlat(h) /\ (h.block = NoBlock \/ InsertCopies(h, n) \/ i = h.len + 1)
MayInsert(h, i, n, more) == InsertsWell(h, i, n) \/ (more /\ IsFlat(h))
RemovesWell(h, i, n) == i + n > h.len \/ (IsFlat(h) /\ (n = 1 \/ RemoveCopies(h)))
CutsWell(h, step) == step = 1 \/ IsFlat(h)

Making ==
  \/ \E c \in Cells, s \in Literals : New(c, s)
  \/ \E c \in Cells, p \in Writable : Fetch(c, p)
  \/ \E x \in Referred : Refer(x)

Overwriting ==
  \E c \in Writable :
    \/ \E i \in 1..cells[c].len, v \in Items : Put(c, i, v)
    \/ \E f \in [Items -> Items] : Update(c, f)
    \/ \E place \in Places(cells[c].len) : Reorder(c, place)

(* `more' adds insertions in place that lose items, into flat arrays. *)
Inserting(more) ==
  \E c \in Writable : \E i \in 1..cells[c].len + 1 :
    \/ MayInsert(cells[c], i, 1, more) /\ \E v \in Items : Insert(c, i, <<v>>, Slack)
    \/ \E x \in Vars : /\ cells[x].len > 0 /\ MayInsert(cells[c], i, cells[x].len, more)
                       /\ Insert(c, i, Value(cells[x]), cells[x].len)

Removing ==
  \E c \in Writable : \E i, n \in 1..cells[c].len :
    i + n <= cells[c].len + 1 /\ RemovesWell(cells[c], i, n) /\ Remove(c, i, n)

Slicing(c, d) ==
  LET n == cells[d].len
  IN  \/ \E first \in 1..n + 1, last \in 0..n : Slice(c, d, first, last, 1)
      \/ \E first, last \in 1..n, step \in {2, -1} :
           /\ (last - first) * step >= 0 /\ CutsWell(cells[d], step)
           /\ Slice(c, d, first, last, step)

(* Only marked arrays are copied from a variable, cut or looped over. *)
Sharing ==
  \E d \in Cells :
    /\ IsMarked(cells[d])
    /\ \/ \E c \in Cells : Slicing(c, d)
       \/ d \in Vars /\ \E c \in Cells : Assign(c, d)
       \/ d \in Vars /\ \E p \in Heap : Box(p, d)
       \/ Begin(d)

(* The array that is looped over keeps its stride. *)
SameStride == loop = NoLoop \/ cells'[loop.cell].stride = cells[loop.cell].stride

Next ==
  /\ \/ Making \/ Overwriting \/ Inserting(FALSE) \/ Removing
     \/ Sharing \/ NextItem
  /\ SameStride

Spec == Init /\ [][Next]_vars

(* Any array may be cut, or any flat array inserted into: OneAtATime and   *)
(* ImplementsValues do not hold for these.                                 *)
SpecSlice == Init /\ [][Next \/ \E c, d \in Cells : Slicing(c, d)]_vars
SpecInsert == Init /\ [][Next \/ Inserting(TRUE)]_vars

-----------------------------------------------------------------------------
Struct == [block : Blocks \cup {NoBlock}, off : Int, len : 0..MaxLen, stride : Int,
           free : Nat \cup {-1}]
LoopType == [cell : Cells, block : Blocks, off : Int, left : Seq(Items \cup {Junk})]

TypeOK ==
  /\ cells \in [Cells -> Struct]
  /\ store \in [Blocks -> Seq(Items \cup {Junk})]
  /\ refs \subseteq Vars
  /\ loop \in LoopType \cup {NoLoop}

(* An array that may be written to and is not marked has its storage to    *)
(* itself: no other cell and no loop reads it.                             *)
OwnedOrMarked ==
  \A c \in Writable : ~IsMarked(cells[c]) /\ cells[c].block # NoBlock => ~Held(cells[c].block, c)

(* Every item of every array lies inside its block and has been written,   *)
(* and so does the free space the array counts on.                         *)
InBounds ==
  /\ TypeOK
  /\ \A c \in Cells :
       LET h == cells[c]
       IN  /\ \A i \in 1..h.len : Item(h, i) \in Items
           /\ ~IsMarked(h) => h.off + h.len + h.free <= Len(Content(h))

(* A loop sees the items that the array held when the loop began: the one  *)
(* that is read next is what it was then.                                  *)
Snapshot == [][NextItem /\ loop' # NoLoop => LoopItem' = Head(loop'.left)]_vars

(* docs/mutability.md: changing one variable does not affect the others. *)
OneAtATime ==
  [][\E c \in Cells : \A d \in Cells \ {c} : Value(cells[d])' = Value(cells[d])]_vars

(* Every cell holds a sequence of its own, and every statement has the     *)
(* effect on it that its name says.                                        *)
Abstract == INSTANCE ArrayValues WITH value <- [c \in Cells |-> Value(cells[c])]
ImplementsValues == Abstract!Spec
=============================================================================
