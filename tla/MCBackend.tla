----------------------------- MODULE MCBackend -----------------------------
(***************************************************************************)
(* The back end for TLC, with answers that may be interchanged: programs   *)
(* only compare them with each other.  Results may not: check_set() takes  *)
(* the first candidate and new results get the next ids.                   *)
(***************************************************************************)
EXTENDS Backend, TLC

Interchangeable == Permutations(Answers)
=============================================================================
