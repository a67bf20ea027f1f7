SPECIFICATION FairSpec
CONSTANTS
  Thread = {t1, t2}
  Config = {c1, c2}
  Free = Free
  MaxTx = 3
  MaxFaults = 0
  MaxRestarts = 0
PROPERTIES RefinesConfigStore EveryTransactionEnds
CHECK_DEADLOCK FALSE
