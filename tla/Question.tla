------------------------------- MODULE Question -------------------------------
(***************************************************************************)
(* What the parts of the compiler that keep no state are asked: one        *)
(* behaviour is one question, and its only step is the answer.             *)
(***************************************************************************)
VARIABLES input, answered

Answer == answered' = TRUE /\ UNCHANGED input
=============================================================================
