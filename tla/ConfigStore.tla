---------------------------- MODULE ConfigStore ----------------------------
(***************************************************************************)
(* What a UCI transaction promises: the configuration files change by      *)
(* whole transactions, one after another.  A file is described by the set  *)
(* of transactions whose changes it contains.                              *)
(***************************************************************************)
CONSTANTS Config, Tx

VARIABLE store

Init == store = [c \in Config |-> {}]

\* Transaction n updates the files C, each on top of what it contained.
Update(n, C) ==
  store' = [c \in Config |-> IF c \in C THEN store[c] \cup {n} ELSE store[c]]

\* A whole file is replaced (uci import).
Replace(c) == store' = [store EXCEPT ![c] = {}]

Next ==
  \/ \E n \in Tx, C \in SUBSET Config : Update(n, C)
  \/ \E c \in Config : Replace(c)

Spec == Init /\ [][Next]_store
=============================================================================
