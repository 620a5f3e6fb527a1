----------------------------- MODULE MCTableCow -----------------------------
EXTENDS TableCow, TLC

(* All but the history variable, which only steps are checked against. *)
View == <<cells, store, refs>>

Symmetry == Permutations(Keys) \cup Permutations(Values) \cup Permutations(Vars)
=============================================================================
