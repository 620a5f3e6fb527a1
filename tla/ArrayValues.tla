----------------------------- MODULE ArrayValues -----------------------------
(***************************************************************************)
(* What the language promises of its arrays (docs/mutability.md): an array *)
(* is a value, a sequence of items; every variable and heap cell holds one *)
(* of its own, and a statement changes the one it names.                   *)
(***************************************************************************)
EXTENDS Integers, Sequences

CONSTANTS Cells, Items

VARIABLES
  value,  \* the array in every cell
  did     \* the statement executed last

Steps(first, last, step) ==
  IF step > 0 THEN (last - first) \div step ELSE (first - last) \div (-step)

(* The items first, first + step, ... up to last. *)
Slice(s, first, last, step) ==
  [i \in 1..(IF (last - first) * step < 0 THEN 0 ELSE Steps(first, last, step) + 1)
     |-> s[first + (i - 1) * step]]

Inserted(s, i, t) == SubSeq(s, 1, i - 1) \o t \o SubSeq(s, i, Len(s))
Removed(s, i, n) == SubSeq(s, 1, i - 1) \o SubSeq(s, i + n, Len(s))

Init == value = [c \in Cells |-> <<>>] /\ did = <<>>

Literals == {<<>>} \cup [1..1 -> Items] \cup [1..2 -> Items]

Becomes(c, s) == value' = [value EXCEPT ![c] = s]

New(c, s) == did' = <<"new", c, s>> /\ Becomes(c, s)
Copy(c, d) == did' = <<"copy", c, d>> /\ Becomes(c, value[d])
Cut(c, d, first, last, step) ==
  /\ did' = <<"slice", c, d, first, last, step>>
  /\ {first, last} \subseteq DOMAIN value[d] \/ (step = 1 /\ last < first)
  /\ Becomes(c, Slice(value[d], first, last, step))
Put(c, i, v) ==
  did' = <<"put", c, i, v>> /\ Becomes(c, [value[c] EXCEPT ![i] = v])
Insert(c, i, s) ==
  did' = <<"insert", c, i, s>> /\ Becomes(c, Inserted(value[c], i, s))
Remove(c, i, n) ==
  did' = <<"remove", c, i, n>> /\ Becomes(c, Removed(value[c], i, n))
Update(c, f) ==
  did' = <<"update", c, f>> /\ Becomes(c, [i \in DOMAIN value[c] |-> f[value[c][i]]])
Reorder(c, place) ==
  did' = <<"reorder", c, place>> /\ Becomes(c, [i \in DOMAIN value[c] |-> value[c][place[i]]])

Next ==
  \E c \in Cells :
    \/ \E s \in Literals : New(c, s)
    \/ \E d \in Cells :
         \/ Copy(c, d)
         \/ \E first \in 1..Len(value[d]) + 1, last \in 0..Len(value[d]), step \in {1, 2, -1} :
              Cut(c, d, first, last, step)
    \/ \E i \in DOMAIN value[c] :
         \/ \E v \in Items : Put(c, i, v)
         \/ \E n \in 1..Len(value[c]) - i + 1 : Remove(c, i, n)
    \/ \E i \in 1..Len(value[c]) + 1 :
         \/ \E v \in Items : Insert(c, i, <<v>>)
         \/ \E d \in Cells : Insert(c, i, value[d])
    \/ \E f \in [Items -> Items] : Update(c, f)
    \/ \E place \in [DOMAIN value[c] -> DOMAIN value[c]] : Reorder(c, place)

Spec == Init /\ [][Next]_<<value, did>>
=============================================================================
