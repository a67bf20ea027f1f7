---------------------------- MODULE MCUciBackend ----------------------------
(* Small instances of UciBackend for TLC.                                  *)
EXTENDS UciBackend, TLC

Symmetry == Permutations(Thread) \cup Permutations(Config)
=============================================================================
