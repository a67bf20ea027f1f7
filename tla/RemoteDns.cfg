\* DNS forwarders and remote access, three threads, five requests.
SPECIFICATION Spec
CONSTANTS
  Threads = {t1, t2, t3}
  Names = {n1, n2}
  Texts = {x1, x2}
  MaxRequests = 5
SYMMETRY Symmetry
INVARIANTS
  
  EnabledHasCa
  ServicesRunSaved
CHECK_DEADLOCK FALSE
