CONSTANTS
  Txn = {txn1, txn2}
  HasText = TRUE
  MaxWrites = 3
SPECIFICATION FairSpec
INVARIANTS DataAlive BlockAlive ViewsAlive NoLostUpdate
PROPERTIES CancelTakesEffect UpdateFound TextUsed
CHECK_DEADLOCK FALSE
