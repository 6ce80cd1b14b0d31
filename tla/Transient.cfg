CONSTANTS
  Blocks <- MCBlocks
  ACTIVE = 100
  MaxLen = 2
  MaxNesting = 2
  MaxKept = 1
  Clients = {"encode", "format"}
SPECIFICATION Spec
INVARIANTS TextsIntact TextsHeld ThrownForCause
CHECK_DEADLOCK FALSE
