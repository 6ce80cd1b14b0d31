SPECIFICATION Invocation

CONSTANTS
  Number <- MCNumber
  Match <- MCMatch
  Groups <- MCGroups
  Hash <- MCHash
  LiteralPatterns <- MCLiteralPatterns
  Directive <- MCDirective
  Programs <- MCPrograms
  Loads <- LoadsForAny
  Actives <- MCActives
  NewContext <- FirstContext
  ValueOf <- Extract
  Compares <- Compare
  MaxRounds = 4
  \* Means is a solution of its equation.
  Means <- MeansOf

INVARIANTS AsWritten EveryMatchReplaced FilterKeeps
PROPERTIES Splits Ends

\* The directives of the hook end, and the process stops at undefined behaviour.
CHECK_DEADLOCK FALSE
