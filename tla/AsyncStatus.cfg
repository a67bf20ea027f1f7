\* One connection test with three status requests, or two scans with two
\* commands in all, in a buffer of one.
CONSTANTS
  Job = {j1}
  Poller = {p1}
  Field = {f1, f2}
  Noise = Noise
  PROCESS_BUFFER = 1
  MaxLines = 2
  MaxPolls = 3
  MaxFaults = 1
  Scans = {s1, s2}
  Radio = {r0, r1}
  SCAN_BUFFER = 1
  MaxCommands = 2
  MaxQuestions = 1
SPECIFICATION MCSpec
INVARIANTS
  FaithfulReport
  RepliesSettle
PROPERTIES
  EveryTestReported
  ScanReported
