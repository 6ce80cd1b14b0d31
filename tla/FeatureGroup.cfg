CONSTANTS
  location = location
  status = status
  other = other
  Key = {location, status, other}
  Listed <- MCListed
  Required = {location}
  Nodes <- MCNodes
  MaxTime = 1
SPECIFICATION Spec
INVARIANTS Verdict FoundRight FoundOnce
CHECK_DEADLOCK FALSE
