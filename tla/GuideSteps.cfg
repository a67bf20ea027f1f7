CONSTANTS
  Worker = {w1, w2}
  Steps = {"password", "wan", "time", "dns", "updater", "lan", "networks"}
  Available = {"min", "router", "bridge"}
  Basic = "unset"
  MaxRequests = 4
  MaxFaults = 1
SYMMETRY Symmetry
SPECIFICATION Spec
INVARIANTS
  FinishedMeansDone
  PassedWasSaved
