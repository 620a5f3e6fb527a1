----------------------------- MODULE TableValues -----------------------------
(***************************************************************************)
(* What the language promises of its tables (docs/mutability.md): a table  *)
(* is a value, every variable and every heap cell holds one of its own,    *)
(* and a statement changes the table in the one place it names.            *)
(***************************************************************************)
CONSTANTS
  Cells,    \* the variables and the heap cells that hold a table
  Keys, Values, NoValue

VARIABLES
  value,  \* value[c][k]: what the table in cell c holds under key k
  did     \* the statement executed last

Empty == [k \in Keys |-> NoValue]

Init == value = [c \in Cells |-> Empty] /\ did = <<>>

New(c, k, v) ==
  did' = <<"new", c, k, v>> /\ value' = [value EXCEPT ![c] = [Empty EXCEPT ![k] = v]]
Copy(c, d) ==
  did' = <<"copy", c, d>> /\ value' = [value EXCEPT ![c] = value[d]]
Put(c, k, v) ==
  did' = <<"put", c, k, v>> /\ value' = [value EXCEPT ![c][k] = v]
Remove(c, k) ==
  did' = <<"remove", c, k>> /\ value' = [value EXCEPT ![c][k] = NoValue]

Next ==
  \/ \E c, d \in Cells : Copy(c, d)
  \/ \E c \in Cells, k \in Keys :
       Remove(c, k) \/ \E v \in Values : New(c, k, v) \/ Put(c, k, v)

Spec == Init /\ [][Next]_<<value, did>>
=============================================================================
