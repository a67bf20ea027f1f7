----------------------------- MODULE MCLanDhcp -----------------------------
(* LanDhcp for small sets of addresses. *)
EXTENDS LanDhcp, TLC

Symmetry == Permutations(Section) \cup Permutations(Mac) \cup Permutations(Host)
=============================================================================
