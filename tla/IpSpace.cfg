CONSTANTS
  Txn = {txn1}
  a1 = a1
  a2 = a2
  Addr = {a1, a2}
  Tag = {"red", "green", "blue"}
  Keys <- MCKeys
  Number = {0, 1}
  Junk = Junk
  File <- MCFile
  MaxDepth = 2
SPECIFICATION FairSpec
INVARIANTS SpaceComplete RowsKeepMeaning ColumnValue NothingMissed
PROPERTY UpdateFound
CHECK_DEADLOCK FALSE
