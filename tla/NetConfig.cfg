\* Networks, guest, WAN, Wi-Fi and time settings of two threads.
SPECIFICATION Spec
CONSTANTS
  p1 = p1
  p2 = p2
  p3 = p3
  Threads = {t1, t2}
  Ports = {p1, p2, p3}
  Radios = {0, 1}
  Countries = {"CZ", "DE"}
  NetworkRequests <- MCNetworkRequests
  InitialConfigs <- MCInitialConfigs
  InitialWireless <- MCInitialWireless
  MaxRequests = 3
SYMMETRY Symmetry
INVARIANTS
  GuestWifiNeedsGuest
  NetworksReadBack
  TunnelFollowsType
  SavedIsApplied
CHECK_DEADLOCK FALSE
