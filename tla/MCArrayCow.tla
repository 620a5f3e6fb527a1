----------------------------- MODULE MCArrayCow -----------------------------
EXTENDS ArrayCow, TLC

(* All but the history variable, which only steps are checked against. *)
View == <<cells, store, refs, loop>>

Symmetry == Permutations(Items)
=============================================================================
