SPECIFICATION Spec
CONSTANTS
  Thread = {t1, t2}
  Config = {c1, c2}
  Free = Free
  MaxTx = 3
  MaxFaults = 1
  MaxRestarts = 1
SYMMETRY Symmetry
INVARIANTS NoAbortedChange NoLostUpdate SeenWhole
PROPERTY RepeatableRead
CHECK_DEADLOCK FALSE
