CONSTANT Ref = {slot, txn1, txn2, txn3}
SPECIFICATION FairSpec
INVARIANT TaskNotRunning
CHECK_DEADLOCK FALSE
