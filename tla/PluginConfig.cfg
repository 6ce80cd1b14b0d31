CONSTANTS
  Task = {k1, k2}
  Txn = {t1, t2}
  MaxLoads = 4
SPECIFICATION FairSpec
INVARIANTS HandlesAlive
PROPERTIES KeepsPublished ReloadsStayPossible ConfigFreed
CHECK_DEADLOCK FALSE
