CONSTANTS
  Global = {g}
  g = g
  r1 = r1
  r2 = r2
  Rule = {r1, r2}
  group = group
  active = active
  tcp = tcp
  User = {group, active, tcp}
  Loads <- MCLoads
  Size <- MCSize
  Finds <- MCFinds
  Zero = Zero
  Flag = Flag
  NoConfig = NoConfig
SPECIFICATION Spec
INVARIANT OncePerSpan
CHECK_DEADLOCK FALSE
