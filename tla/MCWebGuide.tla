----------------------------- MODULE MCWebGuide -----------------------------
(* WebGuide with interchangeable workers. *)
EXTENDS WebGuide, TLC

Symmetry == Permutations(Worker)
=============================================================================
