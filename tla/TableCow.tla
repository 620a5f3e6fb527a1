------------------------------ MODULE TableCow ------------------------------
(***************************************************************************)
(* How tables share their storage.  A table is a small struct that is      *)
(* copied from cell to cell; the copies point to the same entries and      *)
(* buckets until one of them, marked "copy on write", is written to.       *)
(* Models the statements that copy or mark the struct                      *)
(* (compile/expr.c, helpers.c, tables.c) and what sss_hashmap_set and      *)
(* sss_hashmap_remove do to shared storage (libsss/hashmap.c).             *)
(* HashMap.tla models the buckets; here they are the map from a key to its *)
(* index1, and entries and buckets, always replaced together, are one      *)
(* block.                                                                  *)
(***************************************************************************)
EXTENDS Integers, Sequences

CONSTANTS Keys, Values, NoKey, NoValue,
  Vars,          \* variables of table type: written only through a "&"
  Heap,          \* heap cells, reached through a pointer
  Blocks, NoBlock,
  FirstCapacity

ASSUME TableCowAssumption ==
  /\ NoKey \notin Keys /\ NoValue \notin Values
  /\ Vars \cap Heap = {} /\ NoBlock \notin Blocks
  /\ FirstCapacity \in Nat \ {0}

VARIABLES
  cells,  \* the struct in every variable and heap cell
  store,  \* the blocks in the heap
  refs,   \* the variables x of which the program has taken "&x"
  did     \* history: the statement executed last

vars == <<cells, store, refs, did>>

Cells == Vars \cup Heap
Writable == Heap \cup refs

Zeroed == [key |-> NoKey, value |-> NoValue]
Free == [slots |-> <<>>, index1 |-> [k \in Keys |-> 0], capacity |-> 0]

(* The empty table literal; compile_table marks it unless it is boxed. *)
EmptyTable(c) == [block |-> NoBlock, count |-> 0, cow |-> c \in Vars]

Init ==
  /\ cells = [c \in Cells |-> EmptyTable(c)]
  /\ store = [b \in Blocks |-> Free]
  /\ refs = {}
  /\ did = <<>>

-----------------------------------------------------------------------------
Unused == {b \in Blocks : \A d \in Cells : cells[d].block # b}
Used(b, ignored) == \E d \in Cells \ {ignored} : cells[d].block = b

BlockOf(h) == IF h.block = NoBlock THEN Free ELSE store[h.block]
Index(h, k) == BlockOf(h).index1[k]
Padded(s, n) == [i \in 1..n |-> IF i <= Len(s) THEN s[i] ELSE Zeroed]

(* The struct in cell c becomes h, and the block h points to becomes blk;  *)
(* blocks that nothing points to are collected.                            *)
Store(c, h, blk) ==
  /\ cells' = [cells EXCEPT ![c] = h]
  /\ store' = [b \in Blocks |-> IF b = h.block THEN blk
                                ELSE IF Used(b, c) THEN store[b]
                                ELSE Free]

Marked(h) == [h EXCEPT !.cow = TRUE]

-----------------------------------------------------------------------------
(* sss_hashmap_set and sss_hashmap_remove on the struct h in cell c.       *)

(* Bug: the flag is cleared, the storage stays shared. *)
BugNeverCopied(h) == FALSE

(* copy_on_write finds storage that is marked and that no growth replaced. *)
Copies(h) == h.cow /\ h.block # NoBlock

Grows(h, k) == Index(h, k) = 0 /\ h.count >= BlockOf(h).capacity

(* The storage a write of key k goes to: a bigger one when all slots are   *)
(* used, else, if marked, a copy of the buckets and of count + 1 slots.    *)
Target(h, k) ==
  LET old == BlockOf(h)
  IN  CASE Grows(h, k) ->
             LET n == IF old.capacity = 0 THEN FirstCapacity ELSE 2 * old.capacity
             IN  [old EXCEPT !.slots = Padded(@, n), !.capacity = n]
        [] ~Grows(h, k) /\ Copies(h) ->
             [old EXCEPT !.slots = SubSeq(Padded(@, h.count + 1), 1, h.count + 1)]
        [] OTHER -> old

Slot(h, k) == IF Index(h, k) = 0 THEN h.count + 1 ELSE Index(h, k)

(* The slot is part of the block.  When it is not, the code writes behind  *)
(* its allocation; the model stops there, and SlotsFit names these states. *)
Fits(h, k) == Slot(h, k) <= Len(Target(h, k).slots)

Set(c, h, k, v) ==
  /\ Fits(h, k)
  /\ \E b \in Blocks :
       /\ IF Grows(h, k) \/ Copies(h)
          THEN Unused # {} /\ b = CHOOSE f \in Unused : TRUE
          ELSE b = h.block
       /\ Store(c,
            [block |-> b, cow |-> FALSE,
             count |-> IF Index(h, k) = 0 THEN h.count + 1 ELSE h.count],
            [Target(h, k) EXCEPT !.slots[Slot(h, k)] = [key |-> k, value |-> v],
                                 !.index1[k] = Slot(h, k)])
  /\ UNCHANGED refs

(* Bug: the entry that fills the gap keeps its old number. *)
BugKeepNumber(blk, gap, last) == blk

(* The last entry takes the slot, and the number, of the removed one. *)
FillGap(blk, gap, last) ==
  IF gap = last THEN blk
  ELSE [blk EXCEPT !.slots[gap] = blk.slots[last],
                   !.index1[blk.slots[last].key] = gap]

(* copy_on_write(h, size, NULL, NULL) compares with NULL: it clears the    *)
(* flag and copies nothing, whether or not the key is found afterwards.    *)
Delete(c, h, k) ==
  /\ h.block # NoBlock
  /\ IF Index(h, k) = 0
     THEN Store(c, [h EXCEPT !.cow = FALSE], BlockOf(h))
     ELSE Store(c, [block |-> h.block, count |-> h.count - 1, cow |-> FALSE],
            [FillGap(BlockOf(h), Index(h, k), h.count)
               EXCEPT !.slots[h.count] = Zeroed, !.index1[k] = 0])
  /\ UNCHANGED refs

-----------------------------------------------------------------------------
(* Statements.  p, q: heap cells; x, y: variables. *)

(* c = {k=>v}: the first sss_hashmap_set has cleared the flag again. *)
New(c, k, v) == Set(c, EmptyTable(c), k, v) /\ did' = <<"new", c, k, v>>

(* p[k] = v *)
Put(c, k, v) == Set(c, cells[c], k, v) /\ did' = <<"put", c, k, v>>

(* p[k] op= e, whose result is v: get_lvalue marks the table first. *)
Modify(c, k, v) == Set(c, Marked(cells[c]), k, v) /\ did' = <<"put", c, k, v>>

(* p.remove(k) *)
Remove(c, k) == Delete(c, cells[c], k) /\ did' = <<"remove", c, k>>

(* Bug: the dereference is not marked. *)
BugFetch(c, p) ==
  /\ Store(c, cells[p], BlockOf(cells[p]))
  /\ did' = <<"copy", c, p>> /\ UNCHANGED refs

(* c = p[] or f(p[]): the struct is marked where it is, then copied. *)
Fetch(c, p) ==
  /\ cells' = [cells EXCEPT ![p].cow = TRUE, ![c] = Marked(cells[p])]
  /\ store' = [b \in Blocks |-> IF b = cells[p].block \/ Used(b, c) THEN store[b]
                                ELSE Free]
  /\ did' = <<"copy", c, p>> /\ UNCHANGED refs

(* x = y, and p[] = y *)
Assign(c, y) ==
  /\ Store(c, cells[y], BlockOf(cells[y]))
  /\ did' = <<"copy", c, y>> /\ UNCHANGED refs

(* Bug: the new heap cell is not marked. *)
BugBox(p, x) == Assign(p, x)

(* p = @x *)
Box(p, x) ==
  /\ Store(p, Marked(cells[x]), BlockOf(cells[x]))
  /\ did' = <<"copy", p, x>> /\ UNCHANGED refs

(* r = &x *)
Refer(x) ==
  /\ cells' = [cells EXCEPT ![x] = Marked(@)]
  /\ refs' = refs \cup {x}
  /\ UNCHANGED <<store, did>>

-----------------------------------------------------------------------------
Writes == \E c \in Writable, k \in Keys, v \in Values : Put(c, k, v) \/ Modify(c, k, v)

Copying ==
  \/ \E c \in Cells, p \in Writable : Fetch(c, p)
  \/ \E x \in Vars : Refer(x)
  \/ \E c \in Cells, k \in Keys, v \in Values : New(c, k, v)

(* Programs that copy no variable which a reference has changed since it   *)
(* was marked, store no unmarked variable where it can be changed, declare *)
(* no x := p[] (which marks nothing), and remove only from tables of which *)
(* no copy was made since the last write.                                  *)
Next ==
  \/ Writes \/ Copying
  \/ \E x \in Vars :
       /\ cells[x].cow \/ x \notin refs
       /\ \/ \E p \in Heap : Box(p, x)
          \/ \E c \in Cells : (cells[x].cow \/ c \notin Writable) /\ Assign(c, x)
  \/ \E c \in Writable, k \in Keys : ~cells[c].cow /\ Remove(c, k)

Spec == Init /\ [][Next]_vars

(* Any table may be removed from: OneAtATime does not hold for this. *)
SpecRemove == Init /\ [][Next \/ \E c \in Writable, k \in Keys : Remove(c, k)]_vars

-----------------------------------------------------------------------------
Maybe == Values \cup {NoValue}
Struct == [block : Blocks \cup {NoBlock}, count : Nat, cow : BOOLEAN]
SlotType == [key : Keys, value : Values] \cup {Zeroed}
BlockType == [slots : Seq(SlotType), index1 : [Keys -> Nat], capacity : Nat]

TypeOK ==
  /\ cells \in [Cells -> Struct]
  /\ store \in [Blocks -> BlockType]
  /\ refs \subseteq Vars

(* A table that may be written to and is not marked has its storage to     *)
(* itself: every write to shared storage is preceded by a copy.            *)
OwnedOrMarked ==
  \A c \in Writable : ~cells[c].cow /\ cells[c].block # NoBlock =>
                         ~Used(cells[c].block, c)

(* Iteration and lookup show the same entries: the first `count' slots     *)
(* hold each key once, and the buckets give the slot of every key.         *)
LookupMatchesIteration ==
  \A c \in Cells : \A k \in Keys :
    LET h == cells[c]
    IN  {i \in 1..h.count : BlockOf(h).slots[i].key = k} =
          IF Index(h, k) = 0 THEN {} ELSE {Index(h, k)}

(* The slot that a write is about to fill is part of h->entries. *)
SlotsFit == \A c \in Writable, k \in Keys : Fits(cells[c], k)

Seen(c) ==
  [k \in Keys |-> IF Index(cells[c], k) = 0 THEN NoValue
                  ELSE BlockOf(cells[c]).slots[Index(cells[c], k)].value]

(* docs/mutability.md: changing one variable does not affect the others. *)
OneAtATime ==
  [][\E c \in Cells : \A d \in Cells \ {c} : Seen(d)' = Seen(d)]_vars

(* Sharing is invisible: every cell holds a table of its own, and every    *)
(* statement has the effect on it that its name says.                      *)
Abstract == INSTANCE TableValues WITH value <- [c \in Cells |-> Seen(c)]
ImplementsValues == Abstract!Spec
=============================================================================
