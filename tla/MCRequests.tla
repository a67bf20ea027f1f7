---------------------------- MODULE MCRequests ----------------------------
(* Requests with one call of every kind (checked is notify to the request *)
(* path), and one of a module that is not loaded.                         *)
EXTENDS Requests

Unloaded == <<"introspect", "list_modules">>

MCCalls == {call \in OneOfEachKind : KindOf(call) # "checked"} \cup {Unloaded}
MCLoaded == DOMAIN Modules \ {Unloaded[1]}
=============================================================================
