--------------------------- MODULE MCRemoteAccess ---------------------------
(* Instance of RemoteAccess and Forwarders: three threads, two forwarders  *)
(* that users add besides the one of the system.                           *)
EXTENDS RemoteAccess, TLC

Symmetry == Permutations(Threads) \cup Permutations(Texts)
=============================================================================
