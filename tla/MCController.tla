---------------------------- MODULE MCController ----------------------------
(* Controller, whose constants the configurations give.  One more bound    *)
(* keeps it small: in a behaviour the broker stops or the addresses change, *)
(* not both, because the announcer and the watcher share nothing but the   *)
(* main thread.                                                            *)
EXTENDS Controller

MCControllerNext == ControllerNext /\ (stops' = 0 \/ changes' = 0)

MCControllerSpec ==
  ControllerInit /\ [][MCControllerNext]_controllerVars /\ ControllerFairness
=============================================================================
