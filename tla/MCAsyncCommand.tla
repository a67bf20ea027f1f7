--------------------------- MODULE MCAsyncCommand ---------------------------
(* Connection tests and Wi-Fi scans.  WanTestCommands and WifiScanCommands *)
(* share nothing (each has its own lock and its own processes), so every   *)
(* behaviour here is one of the one or of the other.                       *)
EXTENDS AsyncCommand, WifiScan, TLC

VARIABLE user   \* who of the two is used

MCInit == user \in {"WanTestCommands", "WifiScanCommands"} /\ AsyncInit /\ ScanInit

MCNext ==
  /\ \/ user = "WanTestCommands" /\ AsyncNext /\ UNCHANGED scanVars
     \/ user = "WifiScanCommands" /\ (ScanNext \/ UNCHANGED scanVars) /\ UNCHANGED asyncVars
  /\ UNCHANGED user

MCSpec == MCInit /\ [][MCNext]_<<user, asyncVars, scanVars>> /\ AsyncFairness /\ ScanFairness
=============================================================================
