--------------------------- MODULE ReadersWriters ---------------------------
(***************************************************************************)
(* What a readers-writer lock promises to its users: any number of threads *)
(* may read together, a writer is alone.  RWLock is shown to implement it. *)
(***************************************************************************)
CONSTANT Thread

VARIABLE mode       \* what each thread may do with the protected data

Init == mode = [t \in Thread |-> "out"]

EnterRead(t) ==
  /\ mode[t] = "out"
  /\ \A u \in Thread : mode[u] # "write"
  /\ mode' = [mode EXCEPT ![t] = "read"]

EnterWrite(t) ==
  /\ \A u \in Thread : mode[u] = "out"
  /\ mode' = [mode EXCEPT ![t] = "write"]

Leave(t) ==
  /\ mode[t] # "out"
  /\ mode' = [mode EXCEPT ![t] = "out"]

Next == \E t \in Thread : EnterRead(t) \/ EnterWrite(t) \/ Leave(t)

Spec == Init /\ [][Next]_mode
=============================================================================
