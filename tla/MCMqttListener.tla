--------------------------- MODULE MCMqttListener ---------------------------
(* MqttListener with requests that are interchangeable. *)
EXTENDS MqttListener, TLC

Symmetry == Permutations(Request \ Malformed)
=============================================================================
